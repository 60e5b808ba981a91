--------------------------- MODULE DashboardProofs ---------------------------
(***************************************************************************)
(* The page, for any number of sockets, matches, failures and presses of   *)
(* the button: OneConnection and ShownInOrder.                             *)
(*                                                                         *)
(* With one connection there is one pipe, so what is shown follows from    *)
(* what the frames of a pipe are in relation to each other (InOrder), to   *)
(* what is already shown (Ahead), to where the server is (Past) and to its *)
(* snapshot (NewestKept).  That the gauge is not stale also needs to know  *)
(* that a frame that ends the round, or a welcome, precedes every tick     *)
(* without a live round (Announced, Announcing).                           *)
(***************************************************************************)
EXTENDS Dashboard, TLAPS

Moments == [play : Nat, seq : Nat, round : Nat, live : BOOLEAN]

Frames ==
  [type : {"welcome", "tick", "prediction", "round_end", "match_end"}, of : Moments \union {Null}]

Sockets ==
  [state : {"free", "connecting", "open", "closing"}, lost : BOOLEAN, pipe : Seq(Frames),
   greeting : {"sent", "reading", "read"}, held : Moments \union {Null}]

DashTypeOK ==
  /\ wanted \in BOOLEAN /\ timer \in BOOLEAN /\ late \in BOOLEAN /\ up \in BOOLEAN
  /\ fresh \in BOOLEAN
  /\ socket \in [Slots -> Sockets] /\ current \in Slots \union {Null}
  /\ shown \in [snapshot : Moments \union {Null}, prediction : Moments \union {Null},
                history : Seq(Moments), rounds : Seq(Moments)]
  /\ play \in Nat /\ at \in 1..Len(Script) /\ kept \in Moments \union {Null}

\* Frames are in flight on an open connection only, and a welcome is awaited
\* only from a store that suspends.
QuietUnlessOpen ==
  \A s \in Slots :
    /\ socket[s].state # "open" => socket[s].pipe = <<>> /\ socket[s].greeting = "sent"
    /\ ~late => socket[s].greeting = "sent"
    /\ socket[s].state = "open" /\ ~socket[s].lost => up

\* The last frame since the welcome is one of the connection that is open.
FreshIsOpen == fresh => current # Null /\ socket[current].state = "open"

-----------------------------------------------------------------------------
\* What has been sent lies before the event the server is at.
Now == [play |-> play, seq |-> at]

Past(e) == e # Null => Earlier(e, Now)

\* e is not later than f.
UpTo(e, f) == e # Null => ~Earlier(f, e)

EverythingPast ==
  /\ Past(shown.snapshot) /\ Past(shown.prediction) /\ Past(kept)
  /\ \A i \in 1..Len(shown.history) : Earlier(shown.history[i], Now)
  /\ \A i \in 1..Len(shown.rounds) : Earlier(shown.rounds[i], Now)
  /\ \A s \in Slots :
       /\ Past(socket[s].held)
       /\ \A i \in 1..Len(socket[s].pipe) : Past(socket[s].pipe[i].of)

\* Only a prediction and the tick it was made of are frames of one event; and
\* a welcome is the first frame unless it came late.
Follows(frame, before) ==
  /\ frame.type = "welcome" => late
  /\ frame.type # "welcome" /\ before.of # Null =>
       \/ Earlier(before.of, frame.of)
       \/ before.type = "prediction" /\ frame.type = "tick" /\ before.of = frame.of

InOrder(pipe) == \A i, j \in 1..Len(pipe) : i < j => Follows(pipe[j], pipe[i])

\* A frame is not before what is shown; predictions and round ends are after
\* those that are.
Ahead(frame) ==
  IF frame.type = "welcome"
    THEN ~late /\ frame.of # Null =>
           UpTo(shown.snapshot, frame.of) /\ UpTo(shown.prediction, frame.of)
    ELSE /\ frame.of # Null
         /\ frame.type = "prediction" => frame.of.live
         /\ UpTo(shown.snapshot, frame.of) /\ UpTo(shown.prediction, frame.of)
         /\ \A i \in 1..Len(shown.history) :
              \/ Earlier(shown.history[i], frame.of)
              \/ frame.type = "tick" /\ shown.history[i] = frame.of
         /\ \A i \in 1..Len(shown.rounds) : Earlier(shown.rounds[i], frame.of)

OfTick(frame) == frame.type \in {"welcome", "tick", "prediction"}

NewestKept ==
  ~late /\ kept # Null =>
    /\ UpTo(shown.snapshot, kept) /\ UpTo(shown.prediction, kept)
    /\ \A s \in Slots : \A i \in 1..Len(socket[s].pipe) :
         OfTick(socket[s].pipe[i]) => UpTo(socket[s].pipe[i].of, kept)

-----------------------------------------------------------------------------
\* Frames that set the gauge, and frames after which it is empty or not fresh.
Sets(frame) == frame.type = "prediction" \/ (frame.type = "tick" /\ frame.of.live)

Settles(frame) == frame.type \in {"round_end", "match_end", "welcome"}

Dead(frame) == frame.type = "tick" /\ ~frame.of.live

Gauge == fresh /\ shown.prediction # Null

\* Between what sets the gauge and a tick without a live round one frame of a
\* pipe settles it.
Announced(pipe) ==
  \A i \in 1..Len(pipe) : Dead(pipe[i]) =>
    /\ \A j \in 1..(i - 1) : Sets(pipe[j]) => \E k \in (j + 1)..(i - 1) : Settles(pipe[k])
    /\ Gauge => \E k \in 1..(i - 1) : Settles(pipe[k])

\* The round is live before the n-th event.
RoundIsLive(n) ==
  \E i \in 1..(n - 1) : Script[i].live /\ \A j \in (i + 1)..(n - 1) : Script[j].type = "tick"

\* What set the gauge and is not settled was sent in the round the server is in.
Announcing(pipe, n) ==
  ~RoundIsLive(n) =>
    /\ \A j \in 1..Len(pipe) : Sets(pipe[j]) => \E k \in (j + 1)..Len(pipe) : Settles(pipe[k])
    /\ Gauge => \E k \in 1..Len(pipe) : Settles(pipe[k])

\* The gauge is no older than the snapshot, and of no round that was decided.
GaugeIsNew ==
  Gauge =>
    /\ UpTo(shown.snapshot, shown.prediction)
    /\ \A i \in 1..Len(shown.rounds) : Earlier(shown.rounds[i], shown.prediction)

ShownInv ==
  /\ Ascends(shown.history) /\ Ascends(shown.rounds)
  /\ EverythingPast /\ NewestKept /\ GaugeIsNew
  /\ \A s \in Slots :
       /\ InOrder(socket[s].pipe) /\ Announced(socket[s].pipe)
       /\ \A i \in 1..Len(socket[s].pipe) : Ahead(socket[s].pipe[i])
       /\ socket[s].state = "open" /\ ~socket[s].lost => Announcing(socket[s].pipe, at)

DashInv == DashTypeOK /\ OneConnection /\ QuietUnlessOpen /\ FreshIsOpen

-----------------------------------------------------------------------------
Live(state) == state \in {"connecting", "open"}

(***************************************************************************)
(* A socket and nothing in flight.                                         *)
(***************************************************************************)
LEMMA FreeIsTyped ==
  /\ Free \in Sockets /\ [Free EXCEPT !.state = "closing"] \in Sockets
  /\ Null \notin Slots /\ Null \notin Moments
<1>1. <<>> \in Seq(Frames)
  OBVIOUS
<1>2. QED
  BY <1>1, DashboardAssumption DEF Free, Sockets, Moments

(***************************************************************************)
(* abandon(): no socket is left that a frame may arrive on.                *)
(***************************************************************************)
LEMMA AbandonedLeavesNone ==
  ASSUME DashInv
  PROVE  /\ Abandoned \in [Slots -> Sockets]
         /\ \A s \in Slots :
              /\ ~Live(Abandoned[s].state) /\ Abandoned[s].pipe = <<>>
              /\ Abandoned[s].greeting = "sent"
              /\ Abandoned[s] = socket[s] \/ Abandoned[s] = [Free EXCEPT !.state = "closing"]
<1> USE DEF DashInv
<1>1. socket \in [Slots -> Sockets] /\ current \in Slots \union {Null}
  BY DEF DashTypeOK
<1>2. \A s \in Slots : s # current => /\ ~Live(socket[s].state) /\ socket[s].pipe = <<>>
                                      /\ socket[s].greeting = "sent"
  BY DEF OneConnection, QuietUnlessOpen, Live
<1>3. CASE current = Null
  BY <1>1, <1>2, <1>3, FreeIsTyped DEF Abandoned
<1>4. CASE current # Null
  <2>1. Abandoned = [socket EXCEPT ![current] = [Free EXCEPT !.state = "closing"]]
    BY <1>4 DEF Abandoned
  <2>2. ~Live([Free EXCEPT !.state = "closing"].state)
        /\ [Free EXCEPT !.state = "closing"].pipe = <<>>
        /\ [Free EXCEPT !.state = "closing"].greeting = "sent"
    BY DEF Free, Live
  <2>3. QED
    BY <1>1, <1>2, <1>4, <2>1, <2>2, FreeIsTyped
<1>5. QED
  BY <1>3, <1>4

(***************************************************************************)
(* connect(), where no other socket is live: the new one is the only one,  *)
(* or there is none and a retry to come.                                   *)
(***************************************************************************)
LEMMA ConnectMakesOne ==
  ASSUME NEW others \in [Slots -> Sockets], NEW attempts, Connect(others, attempts),
         \A s \in Slots : ~Live(others[s].state) /\ others[s].pipe = <<>>
  PROVE  /\ socket' \in [Slots -> Sockets] /\ status' # "open"
         /\ \/ /\ current' \in Slots /\ timer' = FALSE
               /\ {s \in Slots : socket'[s].state \in {"connecting", "open"}} = {current'}
               /\ socket'[current'].state = "connecting"
            \/ /\ current' = Null /\ timer' = TRUE
               /\ {s \in Slots : socket'[s].state \in {"connecting", "open"}} = {}
         /\ \A s \in Slots :
              /\ socket'[s].state # "open" /\ socket'[s].pipe = <<>>
              /\ socket'[s].greeting = others[s].greeting /\ socket'[s].held = others[s].held
<1> DEFINE Opens(s) ==
        /\ socket' = [others EXCEPT ![s].state = "connecting"]
        /\ current' = s /\ timer' = FALSE
        /\ status' = IF attempts = 0 THEN "connecting" ELSE "reconnecting"
<1>0. CASE ~\E s \in Slots : Opens(s)
  <2>1. socket' = others /\ current' = Null /\ timer' = TRUE /\ status' = "reconnecting"
    BY <1>0 DEF Connect
  <2>2. {s \in Slots : socket'[s].state \in {"connecting", "open"}} = {}
    BY <2>1 DEF Live
  <2> QED
    BY <2>1, <2>2 DEF Live
<1> SUFFICES ASSUME \E s \in Slots : Opens(s)
             PROVE  /\ socket' \in [Slots -> Sockets] /\ status' # "open"
                    /\ current' \in Slots /\ timer' = FALSE
                    /\ {s \in Slots : socket'[s].state \in {"connecting", "open"}} = {current'}
                    /\ socket'[current'].state = "connecting"
                    /\ \A s \in Slots :
                         /\ socket'[s].state # "open" /\ socket'[s].pipe = <<>>
                         /\ socket'[s].greeting = others[s].greeting
                         /\ socket'[s].held = others[s].held
  BY <1>0
<1>1. PICK s \in Slots : Opens(s)
  OBVIOUS
<1>2. socket' = [others EXCEPT ![s] = [others[s] EXCEPT !.state = "connecting"]]
  BY <1>1
<1>3. /\ [others[s] EXCEPT !.state = "connecting"] \in Sockets
      /\ [others[s] EXCEPT !.state = "connecting"].state = "connecting"
      /\ [others[s] EXCEPT !.state = "connecting"].pipe = others[s].pipe
      /\ [others[s] EXCEPT !.state = "connecting"].greeting = others[s].greeting
      /\ [others[s] EXCEPT !.state = "connecting"].held = others[s].held
  BY DEF Sockets
<1>4. /\ socket' \in [Slots -> Sockets]
      /\ \A t \in Slots : socket'[t] = IF t = s THEN [others[s] EXCEPT !.state = "connecting"]
                                       ELSE others[t]
  BY <1>2, <1>3
<1>5. {t \in Slots : socket'[t].state \in {"connecting", "open"}} = {s}
  BY <1>3, <1>4 DEF Live
<1>6. QED
  BY <1>1, <1>3, <1>4, <1>5 DEF Live

(***************************************************************************)
(* appendBounded: the newest elements of what was there and the new one.   *)
(***************************************************************************)
LEMMA BoundedIsSuffix ==
  ASSUME NEW S, NEW items \in Seq(S), NEW item \in S, NEW limit \in Nat \ {0}
  PROVE  /\ Bounded(items, item, limit) \in Seq(S)
         /\ \E d \in Nat :
              /\ Len(Bounded(items, item, limit)) + d = Len(items) + 1
              /\ \A i \in 1..Len(Bounded(items, item, limit)) :
                   /\ i + d \in 1..(Len(items) + 1)
                   /\ Bounded(items, item, limit)[i] = IF i + d = Len(items) + 1 THEN item
                                                       ELSE items[i + d]
<1> DEFINE next == Append(items, item)
           n == Len(items) + 1
<1>1. /\ next \in Seq(S) /\ Len(next) = n /\ n \in Nat
      /\ \A i \in 1..n : next[i] = IF i = n THEN item ELSE items[i]
  OBVIOUS
<1>2. CASE n > limit
  <2>1. Bounded(items, item, limit) = SubSeq(next, n - limit + 1, n)
    BY <1>1, <1>2 DEF Bounded
  <2>2. /\ SubSeq(next, n - limit + 1, n) \in Seq(S)
        /\ Len(SubSeq(next, n - limit + 1, n)) = limit
        /\ \A i \in 1..limit : SubSeq(next, n - limit + 1, n)[i] = next[i + (n - limit)]
    BY <1>1, <1>2
  <2>3. n - limit \in Nat /\ \A i \in 1..limit : i + (n - limit) \in 1..n
    BY <1>1, <1>2
  <2>4. limit + (n - limit) = n
    BY <1>1, <1>2
  <2>5. \A i \in 1..limit : next[i + (n - limit)] = IF i + (n - limit) = n THEN item
                                                    ELSE items[i + (n - limit)]
    BY <1>1, <2>3
  <2> DEFINE d == n - limit
             tail == Bounded(items, item, limit)
  <2>6. tail \in Seq(S) /\ Len(tail) = limit /\ Len(tail) + d = n
    BY <2>1, <2>2, <2>4
  <2>7. ASSUME NEW i \in 1..Len(tail)
        PROVE  i + d \in 1..n /\ tail[i] = IF i + d = n THEN item ELSE items[i + d]
    <3>1. i \in 1..limit
      BY <2>6
    <3>2. tail[i] = next[i + d]
      BY <2>1, <2>2, <3>1
    <3>3. QED
      BY <2>3, <2>5, <3>1, <3>2
  <2> HIDE DEF tail, d
  <2>8. d \in Nat
    BY <2>3 DEF d
  <2>9. QED
    BY <2>6, <2>7, <2>8 DEF tail
<1>3. CASE ~(n > limit)
  <2>1. Bounded(items, item, limit) = next
    BY <1>1, <1>3 DEF Bounded
  <2>2. Len(next) + 0 = n /\ \A i \in 1..n : i + 0 \in 1..n /\ i + 0 = i
    BY <1>1
  <2>3. QED
    BY <1>1, <2>1, <2>2
<1>4. QED
  BY <1>2, <1>3

(***************************************************************************)
(* reduce() keeps the types of what is shown.                              *)
(***************************************************************************)
LEMMA ReduceTyped ==
  ASSUME DashTypeOK, NEW frame \in Frames,
         frame.type # "welcome" => frame.of \in Moments
  PROVE  Reduce(frame) \in
           [snapshot : Moments \union {Null}, prediction : Moments \union {Null},
            history : Seq(Moments), rounds : Seq(Moments)]
<1> USE DEF DashTypeOK
<1>1. frame.of \in Moments \union {Null} /\ Predicted(frame.of) \in Moments \union {Null}
  BY DEF Frames, Predicted
<1>2. CASE frame.type = "welcome"
  BY <1>1, <1>2 DEF Reduce
<1>3. CASE frame.type = "tick"
  BY <1>1, <1>3 DEF Reduce
<1>4. CASE frame.type = "prediction"
  <2>1. Bounded(shown.history, frame.of, MaxHistory) \in Seq(Moments)
    BY <1>4, BoundedIsSuffix, DashboardAssumption
  <2>2. QED
    BY <1>1, <1>4, <2>1 DEF Reduce
<1>5. CASE frame.type = "round_end"
  <2>1. Bounded(shown.rounds, frame.of, MaxRoundLog) \in Seq(Moments)
    BY <1>5, BoundedIsSuffix, DashboardAssumption
  <2>2. <<>> \in Seq(Moments)
    OBVIOUS
  <2>3. QED
    BY <1>1, <1>5, <2>1, <2>2 DEF Reduce
<1>6. CASE frame.type = "match_end"
  BY <1>6 DEF Reduce
<1>7. QED
  BY <1>2, <1>3, <1>4, <1>5, <1>6 DEF Frames

-----------------------------------------------------------------------------
(***************************************************************************)
(* One connection, and what goes with it.                                  *)
(***************************************************************************)
LEMMA DashInitInv == DashInit => DashInv /\ ShownInv
<1> SUFFICES ASSUME DashInit PROVE DashInv /\ ShownInv
  OBVIOUS
<1> USE DEF DashInit
<1>1. /\ shown \in [snapshot : Moments \union {Null}, prediction : Moments \union {Null},
                    history : Seq(Moments), rounds : Seq(Moments)]
      /\ socket \in [Slots -> Sockets]
      /\ at \in 1..Len(Script) /\ play \in Nat
  BY FreeIsTyped, ScriptAssumption
<1>2. DashTypeOK
  BY <1>1 DEF DashTypeOK
<1>3. \A s \in Slots : /\ socket[s].state = "free" /\ socket[s].pipe = <<>>
                       /\ socket[s].greeting = "sent" /\ socket[s].held = Null
  BY DEF Free
<1>4. DashInv
  BY <1>2, <1>3 DEF DashInv, OneConnection, QuietUnlessOpen, FreshIsOpen
<1>5. shown.snapshot = Null /\ shown.prediction = Null /\ shown.history = <<>> /\ shown.rounds = <<>>
  OBVIOUS
<1>6. ShownInv
  BY <1>3, <1>5 DEF ShownInv, Ascends, EverythingPast, Past, NewestKept, UpTo, GaugeIsNew, Gauge,
                    InOrder, Announced, Announcing
<1>7. QED
  BY <1>4, <1>6

LEMMA ConnectionHook ==
  ASSUME DashInv, Enable \/ Disable \/ Reconnect \/ Retry
  PROVE  DashInv'
<1> USE DEF DashInv
<1>1. /\ socket \in [Slots -> Sockets]
      /\ UNCHANGED <<shown, late, up, play, at, kept>>
      /\ fresh' = FALSE
      /\ wanted' \in BOOLEAN
  <2>1. CASE Enable
    BY <2>1 DEF Enable, OneConnection, FreshIsOpen, DashTypeOK, serverVars
  <2>2. CASE Disable
    BY <2>2 DEF Disable, DashTypeOK, serverVars
  <2>3. CASE Reconnect
    BY <2>3 DEF Reconnect, DashTypeOK, serverVars
  <2>4. CASE Retry
    BY <2>4 DEF Retry, OneConnection, FreshIsOpen, DashTypeOK, serverVars
  <2>5. QED
    BY <2>1, <2>2, <2>3, <2>4
<1>2. CASE Disable
  <2>1. wanted' = FALSE /\ socket' = Abandoned /\ current' = Null /\ timer' = FALSE /\ status' = "closed"
    BY <1>2 DEF Disable
  <2>2. DashTypeOK'
    BY <1>1, <2>1, AbandonedLeavesNone DEF DashTypeOK
  <2>3. OneConnection'
    BY <2>1, AbandonedLeavesNone DEF OneConnection, Live
  <2>4. QuietUnlessOpen'
    BY <1>1, <2>1, AbandonedLeavesNone DEF QuietUnlessOpen, Live, Free
  <2>5. QED
    BY <1>1, <2>2, <2>3, <2>4 DEF FreshIsOpen
<1>3. ASSUME NEW others \in [Slots -> Sockets], NEW attempts, Connect(others, attempts), wanted',
             \A s \in Slots : /\ ~Live(others[s].state) /\ others[s].pipe = <<>>
                              /\ others[s].greeting = "sent"
      PROVE  DashInv'
  <2>1. /\ socket' \in [Slots -> Sockets] /\ status' # "open"
        /\ \/ /\ current' \in Slots /\ timer' = FALSE
              /\ {s \in Slots : socket'[s].state \in {"connecting", "open"}} = {current'}
              /\ socket'[current'].state = "connecting"
           \/ /\ current' = Null /\ timer' = TRUE
              /\ {s \in Slots : socket'[s].state \in {"connecting", "open"}} = {}
        /\ \A s \in Slots :
             /\ socket'[s].state # "open" /\ socket'[s].pipe = <<>>
             /\ socket'[s].greeting = others[s].greeting /\ socket'[s].held = others[s].held
    BY <1>3, ConnectMakesOne
  <2>2. DashTypeOK'
    BY <1>1, <2>1 DEF DashTypeOK
  <2>3. OneConnection'
    BY <1>3, <2>1, FreeIsTyped DEF OneConnection
  <2>4. QuietUnlessOpen'
    BY <1>1, <1>3, <2>1 DEF QuietUnlessOpen
  <2>5. QED
    BY <1>1, <2>2, <2>3, <2>4 DEF FreshIsOpen
<1>4. CASE Enable \/ Retry
  <2>1. current = Null /\ wanted'
    BY <1>4 DEF Enable, Retry, OneConnection
  <2>2. \A s \in Slots : /\ ~Live(socket[s].state) /\ socket[s].pipe = <<>>
                         /\ socket[s].greeting = "sent"
    BY <2>1, FreeIsTyped DEF OneConnection, QuietUnlessOpen, Live
  <2>3. Connect(socket, attempt)
    BY <1>4 DEF Enable, Retry
  <2>4. QED
    BY <1>1, <1>3, <2>1, <2>2, <2>3
<1>5. CASE Reconnect
  <2>1. Connect(Abandoned, 0) /\ wanted'
    BY <1>5 DEF Reconnect
  <2>2. QED
    BY <1>3, <2>1, AbandonedLeavesNone
<1>6. QED
  BY <1>2, <1>4, <1>5

LEMMA ConnectionSocket ==
  ASSUME DashInv, NEW s \in Slots, Opened(s) \/ Closed(s) \/ ClosedLate(s) \/ Break(s)
                                     \/ ReadSnapshot(s)
  PROVE  DashInv'
<1> USE DEF DashInv
<1>1. /\ socket \in [Slots -> Sockets] /\ socket[s] \in Sockets
      /\ UNCHANGED <<wanted, shown, late, up, play, at, kept>>
      /\ Live(socket[s].state) => s = current
      /\ \A t \in Slots : t # s => (socket[t].state = "open" => t = current)
  BY DEF Opened, Closed, ClosedLate, Break, ReadSnapshot, DashTypeOK, OneConnection, Live, serverVars
<1>2. CASE Opened(s)
  <2> DEFINE new == [socket[s] EXCEPT
                       !.state = "open",
                       !.greeting = IF late THEN "reading" ELSE "sent",
                       !.pipe = IF late THEN <<>> ELSE <<[type |-> "welcome", of |-> kept]>>]
  <2>1. /\ socket[s].state = "connecting" /\ ~socket[s].lost /\ up
        /\ socket' = [socket EXCEPT ![s] = new]
        /\ UNCHANGED <<current, timer, fresh>> /\ status' = "open"
    BY <1>2 DEF Opened
  <2>2. new \in Sockets
    <3>1. [type |-> "welcome", of |-> kept] \in Frames
      BY DEF Frames, DashTypeOK
    <3>2. (IF late THEN <<>> ELSE <<[type |-> "welcome", of |-> kept]>>) \in Seq(Frames)
      BY <3>1
    <3>3. QED
      BY <1>1, <3>2 DEF Sockets
  <2>3. /\ socket' \in [Slots -> Sockets]
        /\ \A t \in Slots : socket'[t] = IF t = s THEN new ELSE socket[t]
        /\ new.state = "open" /\ (~late => new.greeting = "sent") /\ new.lost = socket[s].lost
    BY <1>1, <2>1, <2>2 DEF Sockets
  <2>4. s = current
    BY <1>1, <2>1 DEF Live
  <2> HIDE DEF new
  <2>5. DashTypeOK'
    BY <1>1, <2>1, <2>3 DEF DashTypeOK
  <2>6. OneConnection'
    BY <1>1, <2>1, <2>3, <2>4, FreeIsTyped DEF OneConnection, Live
  <2>7. QuietUnlessOpen' /\ FreshIsOpen'
    BY <1>1, <2>1, <2>3, <2>4, FreeIsTyped DEF QuietUnlessOpen, FreshIsOpen
  <2>8. QED
    BY <2>5, <2>6, <2>7
<1>3. CASE Closed(s)
  <2>1. /\ Live(socket[s].state)
        /\ socket' = [socket EXCEPT ![s] = Free] /\ current' = Null /\ timer' = TRUE
        /\ status' = "reconnecting" /\ fresh' = FALSE
    BY <1>3 DEF Closed, Live
  <2>2. s = current /\ wanted
    BY <1>1, <2>1, FreeIsTyped DEF OneConnection
  <2>3. /\ socket' \in [Slots -> Sockets]
        /\ \A t \in Slots : socket'[t] = IF t = s THEN Free ELSE socket[t]
    BY <1>1, <2>1, FreeIsTyped
  <2>4. DashTypeOK'
    BY <1>1, <2>1, <2>3 DEF DashTypeOK
  <2>5. OneConnection'
    BY <1>1, <2>1, <2>2, <2>3 DEF OneConnection, Free
  <2>6. QuietUnlessOpen' /\ FreshIsOpen'
    BY <1>1, <2>1, <2>3 DEF QuietUnlessOpen, FreshIsOpen, Free
  <2>7. QED
    BY <2>4, <2>5, <2>6
<1>4. CASE ClosedLate(s)
  <2>1. /\ socket[s].state = "closing" /\ socket' = [socket EXCEPT ![s] = Free]
        /\ status' = (IF current = Null THEN "closed" ELSE status)
        /\ UNCHANGED <<current, timer, fresh>>
    BY <1>4 DEF ClosedLate
  <2>2. s # current
    BY <2>1, FreeIsTyped DEF OneConnection
  <2>3. /\ socket' \in [Slots -> Sockets]
        /\ \A t \in Slots : socket'[t] = IF t = s THEN Free ELSE socket[t]
    BY <1>1, <2>1, FreeIsTyped
  <2>4. DashTypeOK'
    BY <1>1, <2>1, <2>3 DEF DashTypeOK
  <2>5. OneConnection'
    BY <1>1, <2>1, <2>2, <2>3, FreeIsTyped DEF OneConnection, Free, DashTypeOK
  <2>6. QuietUnlessOpen' /\ FreshIsOpen'
    BY <1>1, <2>1, <2>2, <2>3, FreeIsTyped DEF QuietUnlessOpen, FreshIsOpen, Free, DashTypeOK
  <2>7. QED
    BY <2>4, <2>5, <2>6
<1>5. CASE Break(s) \/ ReadSnapshot(s)
  <2>1. /\ UNCHANGED <<current, timer, status, fresh>>
        /\ \/ socket' = [socket EXCEPT ![s].lost = TRUE]
           \/ socket' = [socket EXCEPT ![s].greeting = "read", ![s].held = kept]
              /\ socket[s].greeting = "reading"
    BY <1>5 DEF Break, ReadSnapshot
  <2>2. /\ socket' \in [Slots -> Sockets]
        /\ \A t \in Slots :
             /\ socket'[t].state = socket[t].state /\ socket'[t].pipe = socket[t].pipe
             /\ ~socket'[t].lost => ~socket[t].lost
             /\ socket'[t].greeting = socket[t].greeting
                  \/ (late /\ socket[t].state = "open")
    <3>1. PICK new \in Sockets :
            /\ socket' = [socket EXCEPT ![s] = new]
            /\ new.state = socket[s].state /\ new.pipe = socket[s].pipe
            /\ ~new.lost => ~socket[s].lost
            /\ new.greeting = socket[s].greeting \/ (late /\ socket[s].state = "open")
      <4>1. CASE socket' = [socket EXCEPT ![s].lost = TRUE]
        <5>1. /\ socket' = [socket EXCEPT ![s] = [socket[s] EXCEPT !.lost = TRUE]]
              /\ [socket[s] EXCEPT !.lost = TRUE] \in Sockets
          BY <1>1, <4>1 DEF Sockets
        <5>2. QED
          BY <1>1, <5>1 DEF Sockets
      <4>2. CASE /\ socket' = [socket EXCEPT ![s].greeting = "read", ![s].held = kept]
                 /\ socket[s].greeting = "reading"
        <5> DEFINE new == [socket[s] EXCEPT !.greeting = "read", !.held = kept]
        <5>1. new \in Sockets
          BY <1>1 DEF Sockets, DashTypeOK
        <5>2. socket' = [socket EXCEPT ![s] = new]
          BY <1>1, <4>2
        <5>3. late /\ socket[s].state = "open"
          BY <4>2 DEF QuietUnlessOpen
        <5>4. new.state = socket[s].state /\ new.pipe = socket[s].pipe /\ new.lost = socket[s].lost
              /\ new.greeting = "read"
          BY <1>1 DEF Sockets
        <5>5. QED
          BY <5>1, <5>2, <5>3, <5>4
      <4>3. QED
        BY <2>1, <4>1, <4>2
    <3>2. \A t \in Slots : socket'[t] = IF t = s THEN new ELSE socket[t]
      BY <1>1, <3>1
    <3>3. QED
      BY <1>1, <3>1, <3>2 DEF QuietUnlessOpen
  <2>3. DashTypeOK'
    BY <1>1, <2>1, <2>2 DEF DashTypeOK
  <2>4. OneConnection'
    BY <1>1, <2>1, <2>2, FreeIsTyped DEF OneConnection, DashTypeOK
  <2>5. QuietUnlessOpen' /\ FreshIsOpen'
    BY <1>1, <2>1, <2>2, FreeIsTyped DEF QuietUnlessOpen, FreshIsOpen, DashTypeOK
  <2>6. QED
    BY <2>3, <2>4, <2>5
<1>6. QED
  BY <1>2, <1>3, <1>4, <1>5

(***************************************************************************)
(* The frames of the event the server is at: a prediction before a tick,   *)
(* or the one frame of an event that is not a tick.                        *)
(***************************************************************************)
Moment == [play |-> play, seq |-> at, round |-> Script[at].round, live |-> Script[at].live]

LEMMA EventIsTyped ==
  ASSUME DashTypeOK
  PROVE  /\ Moment \in Moments
         /\ Script[at].type \in {"tick", "round_end", "match_end"} /\ Script[at].live \in BOOLEAN
         /\ Script[at].live => Script[at].type = "tick"
<1>1. play \in Nat /\ at \in 1..Len(Script) /\ at \in Nat
  BY DEF DashTypeOK
<1>2. Script[at] \in [type : {"tick", "round_end", "match_end"}, seq : Nat, round : Nat,
                      live : BOOLEAN]
  <2>1. \A S : Script \in Seq(S) => Script[at] \in S
    BY <1>1
  <2>2. QED
    BY <2>1, ScriptAssumption
<1>3. Script[at].live => Script[at].type = "tick"
  BY <1>1, ScriptAssumption
<1>4. QED
  BY <1>1, <1>2, <1>3 DEF Moment, Moments

LEMMA FramesOfEvent ==
  ASSUME DashTypeOK, NEW frames \in FramesOf(Script[at], Moment)
  PROVE  /\ frames \in Seq(Frames)
         /\ \A i \in 1..Len(frames) :
              /\ frames[i].of = Moment
              /\ Script[at].type = "tick" => frames[i].type \in {"prediction", "tick"}
              /\ frames[i].type = "prediction" => Moment.live
              /\ frames[i].type # "welcome"
         /\ \A i, j \in 1..Len(frames) :
              i < j => frames[i].type = "prediction" /\ frames[j].type = "tick"
         /\ Script[at].type # "tick" =>
              frames = <<[type |-> Script[at].type, of |-> Moment]>>
<1> DEFINE P == [type |-> "prediction", of |-> Moment]
           T == [type |-> "tick", of |-> Moment]
           E == [type |-> Script[at].type, of |-> Moment]
<1>1. P \in Frames /\ T \in Frames /\ E \in Frames
  BY EventIsTyped DEF Frames
<1>2. \/ frames = <<>> /\ Script[at].type = "tick"
      \/ frames = <<P>> /\ Script[at].type = "tick" /\ Script[at].live
      \/ frames = Append(<<P>>, T) /\ Script[at].type = "tick" /\ Script[at].live
      \/ frames = <<T>> /\ Script[at].type = "tick"
      \/ frames = <<E>> /\ Script[at].type # "tick"
  <2>1. CASE Script[at].type = "tick" /\ Script[at].live
    <3>1. frames \in {<<P>>, Append(<<P>>, T)}
      BY <2>1 DEF FramesOf
    <3>2. QED
      BY <2>1, <3>1
  <2>2. CASE Script[at].type = "tick" /\ ~Script[at].live
    <3>1. frames \in {<<>>, Append(<<>>, T)}
      BY <2>2 DEF FramesOf
    <3>2. Append(<<>>, T) = <<T>>
      BY <1>1
    <3>3. QED
      BY <2>2, <3>1, <3>2
  <2>3. CASE Script[at].type # "tick"
    BY <2>3 DEF FramesOf
  <2>4. QED
    BY <2>1, <2>2, <2>3
<1>3. Moment.live = Script[at].live
  BY DEF Moment
<1>4. CASE frames = <<>> /\ Script[at].type = "tick"
  BY <1>4
<1>5. CASE frames = <<P>> /\ Script[at].type = "tick" /\ Script[at].live
  BY <1>1, <1>3, <1>5
<1>6. CASE frames = Append(<<P>>, T) /\ Script[at].type = "tick" /\ Script[at].live
  <2>1. <<P>> \in Seq(Frames) /\ Len(<<P>>) = 1 /\ <<P>>[1] = P
    BY <1>1
  <2>2. frames \in Seq(Frames) /\ Len(frames) = 2 /\ frames[1] = P /\ frames[2] = T
    BY <1>1, <1>6, <2>1
  <2>3. \A i \in 1..2 : i = 1 \/ i = 2
    OBVIOUS
  <2>4. QED
    BY <1>1, <1>3, <1>6, <2>2, <2>3
<1>7. CASE frames = <<T>> /\ Script[at].type = "tick"
  BY <1>1, <1>7
<1>8. CASE frames = <<E>> /\ Script[at].type # "tick"
  BY <1>1, <1>8, EventIsTyped
<1>9. QED
  BY <1>2, <1>4, <1>5, <1>6, <1>7, <1>8

LEMMA PlayedToPipes ==
  ASSUME DashInv, PlayEvent
  PROVE  /\ up /\ UNCHANGED <<wanted, current, timer, attempt, status, shown, late, up, fresh>>
         /\ at' = (IF at = Len(Script) THEN 1 ELSE at + 1)
         /\ play' = (IF at = Len(Script) THEN play + 1 ELSE play)
         /\ kept' = (IF Script[at].type = "tick" THEN Moment ELSE kept)
         /\ \E frames \in FramesOf(Script[at], Moment) :
              \A s \in Slots : \E pipe \in Seq(Frames) :
                /\ socket'[s] = [socket[s] EXCEPT !.pipe = pipe]
                /\ pipe = IF socket[s].state = "open" /\ ~socket[s].lost
                            THEN socket[s].pipe \o frames ELSE socket[s].pipe
         /\ socket' = [s \in Slots |-> socket'[s]]
<1>1. DashTypeOK
  BY DEF DashInv
<1>2. /\ up /\ UNCHANGED <<wanted, current, timer, attempt, status, shown, late, up, fresh>>
      /\ at' = (IF at = Len(Script) THEN 1 ELSE at + 1)
      /\ play' = (IF at = Len(Script) THEN play + 1 ELSE play)
      /\ kept' = (IF Script[at].type = "tick" THEN Moment ELSE kept)
  BY DEF PlayEvent, Moment
<1>3. PICK frames \in FramesOf(Script[at], Moment) :
        socket' = [s \in Slots |->
                     IF s \in {t \in Slots : socket[t].state = "open" /\ ~socket[t].lost}
                       THEN [socket[s] EXCEPT !.pipe = @ \o frames] ELSE socket[s]]
  BY DEF PlayEvent, Moment
<1>4. frames \in Seq(Frames)
  BY <1>1, FramesOfEvent
<1>5. ASSUME NEW s \in Slots
      PROVE  \E pipe \in Seq(Frames) :
               /\ socket'[s] = [socket[s] EXCEPT !.pipe = pipe]
               /\ pipe = IF socket[s].state = "open" /\ ~socket[s].lost
                           THEN socket[s].pipe \o frames ELSE socket[s].pipe
  <2>1. socket[s] \in Sockets
    BY <1>1 DEF DashTypeOK
  <2>2. socket[s].pipe \in Seq(Frames) /\ socket[s].pipe \o frames \in Seq(Frames)
    BY <1>4, <2>1 DEF Sockets
  <2>3. CASE socket[s].state = "open" /\ ~socket[s].lost
    BY <1>3, <2>2, <2>3
  <2>4. CASE ~(socket[s].state = "open" /\ ~socket[s].lost)
    <3>1. socket'[s] = socket[s] /\ socket[s] = [socket[s] EXCEPT !.pipe = socket[s].pipe]
      BY <1>3, <2>1, <2>4 DEF Sockets
    <3>2. QED
      BY <2>2, <2>4, <3>1
  <2>5. QED
    BY <2>3, <2>4
<1>6. QED
  BY <1>2, <1>3, <1>5

LEMMA ConnectionServer ==
  ASSUME DashInv, PlayEvent \/ ServerStops \/ ServerStarts
  PROVE  DashInv'
<1> USE DEF DashInv
<1>1. /\ UNCHANGED <<wanted, current, timer, status, shown, late, fresh>>
      /\ up' \in BOOLEAN
      /\ play' \in Nat /\ at' \in 1..Len(Script) /\ kept' \in Moments \union {Null}
  <2>1. 1 \in 1..Len(Script)
    BY ScriptAssumption
  <2>2. CASE PlayEvent
    BY <2>1, <2>2, PlayedToPipes, EventIsTyped DEF DashTypeOK
  <2>3. CASE ServerStops
    BY <2>3 DEF ServerStops, DashTypeOK
  <2>4. CASE ServerStarts
    BY <2>1, <2>4 DEF ServerStarts, hookVars, DashTypeOK
  <2>5. QED
    BY <2>2, <2>3, <2>4
<1>2. /\ socket' \in [Slots -> Sockets]
      /\ \A s \in Slots :
           /\ socket'[s].state = socket[s].state /\ socket'[s].greeting = socket[s].greeting
           /\ socket[s].state # "open" => socket'[s].pipe = socket[s].pipe
           /\ socket'[s].state = "open" /\ ~socket'[s].lost => up' /\ ~socket[s].lost
  <2>1. CASE PlayEvent
    <3>1. ASSUME NEW s \in Slots
          PROVE  /\ socket'[s] \in Sockets
                 /\ socket'[s].state = socket[s].state /\ socket'[s].greeting = socket[s].greeting
                 /\ socket[s].state # "open" => socket'[s].pipe = socket[s].pipe
                 /\ socket'[s].lost = socket[s].lost
      <4>1. PICK pipe \in Seq(Frames) :
              /\ socket'[s] = [socket[s] EXCEPT !.pipe = pipe]
              /\ socket[s].state # "open" => pipe = socket[s].pipe
        BY <2>1, PlayedToPipes
      <4>2. socket[s] \in Sockets
        BY DEF DashTypeOK
      <4>3. [socket[s] EXCEPT !.pipe = pipe] \in Sockets
        BY <4>2 DEF Sockets
      <4>4. QED
        BY <4>1, <4>2, <4>3 DEF Sockets
    <3>2. up'
      BY <2>1, PlayedToPipes
    <3>3. socket' \in [Slots -> Sockets]
      <4>1. socket' = [s \in Slots |-> socket'[s]]
        BY <2>1, PlayedToPipes
      <4>2. QED
        BY <3>1, <4>1
    <3>4. QED
      BY <3>1, <3>2, <3>3
  <2>2. CASE ServerStops
    <3>1. socket' = [s \in Slots |->
            IF socket[s].state = "open" THEN [socket[s] EXCEPT !.lost = TRUE] ELSE socket[s]]
      BY <2>2 DEF ServerStops
    <3>2. socket \in [Slots -> Sockets]
      BY DEF DashTypeOK
    <3>3. \A s \in Slots : [socket[s] EXCEPT !.lost = TRUE] \in Sockets
      BY <3>2 DEF Sockets
    <3>4. \A s \in Slots :
            socket'[s] = IF socket[s].state = "open" THEN [socket[s] EXCEPT !.lost = TRUE]
                         ELSE socket[s]
      BY <3>1
    <3>5. socket' \in [Slots -> Sockets]
      BY <3>1, <3>2, <3>3
    <3>6. \A s \in Slots : /\ socket'[s].state = socket[s].state /\ socket'[s].pipe = socket[s].pipe
                           /\ socket'[s].greeting = socket[s].greeting
                           /\ socket'[s].state = "open" => socket'[s].lost
      BY <3>2, <3>4 DEF Sockets
    <3>7. QED
      BY <3>2, <3>5, <3>6 DEF Sockets
  <2>3. CASE ServerStarts
    BY <2>3 DEF ServerStarts, hookVars, DashTypeOK
  <2>4. QED
    BY <2>1, <2>2, <2>3
<1>3. DashTypeOK'
  BY <1>1, <1>2 DEF DashTypeOK
<1>4. OneConnection'
  BY <1>1, <1>2, FreeIsTyped DEF OneConnection, DashTypeOK
<1>5. QuietUnlessOpen' /\ FreshIsOpen'
  BY <1>1, <1>2, FreeIsTyped DEF QuietUnlessOpen, FreshIsOpen, DashTypeOK
<1>6. QED
  BY <1>3, <1>4, <1>5

(***************************************************************************)
(* A frame goes out of a pipe, or a late welcome into one.                 *)
(***************************************************************************)
LEMMA ConnectionFrames ==
  ASSUME DashInv, ShownInv, NEW s \in Slots, Receive(s) \/ SendWelcome(s)
  PROVE  DashInv'
<1> USE DEF DashInv
<1>1. socket[s] \in Sockets /\ socket[s].pipe \in Seq(Frames)
  BY DEF DashTypeOK, Sockets
<1>2. /\ UNCHANGED <<wanted, current, timer, status, late, up, play, at, kept>>
      /\ \E pipe \in Seq(Frames), greeting \in {"sent", "reading", "read"},
            held \in Moments \union {Null} :
           /\ socket' = [socket EXCEPT ![s] = [socket[s] EXCEPT
                           !.pipe = pipe, !.greeting = greeting, !.held = held]]
           /\ socket[s].state # "open" => pipe = socket[s].pipe /\ greeting = "sent"
           /\ ~late => greeting = "sent"
      /\ fresh' \in BOOLEAN
      /\ fresh' => fresh \/ socket[s].state = "open"
      /\ shown' \in [snapshot : Moments \union {Null}, prediction : Moments \union {Null},
                     history : Seq(Moments), rounds : Seq(Moments)]
  <2>1. CASE Receive(s)
    <3> DEFINE frame == Head(socket[s].pipe)
    <3>1. /\ socket[s].state = "open" /\ socket[s].pipe # <<>>
          /\ shown' = Reduce(frame)
          /\ fresh' = (frame.type # "welcome"
                         /\ (fresh \/ frame.type # "tick" \/ frame.of.live))
          /\ socket' = [socket EXCEPT ![s].pipe = Tail(@)]
          /\ UNCHANGED <<wanted, current, timer, attempt, status, serverVars, troubles>>
      BY <2>1 DEF Receive
    <3>2. Tail(socket[s].pipe) \in Seq(Frames) /\ frame \in Frames
          /\ frame = socket[s].pipe[1] /\ 1 \in 1..Len(socket[s].pipe)
      BY <1>1, <3>1
    <3>3. frame.type # "welcome" => frame.of \in Moments
      BY <3>2 DEF ShownInv, Ahead, Frames
    <3>4. fresh' \in BOOLEAN
      <4>1. frame.type # "welcome" => frame.of.live \in BOOLEAN
        BY <3>3 DEF Moments
      <4>2. QED
        BY <3>1, <4>1 DEF DashTypeOK
    <3>5. shown' \in [snapshot : Moments \union {Null}, prediction : Moments \union {Null},
                      history : Seq(Moments), rounds : Seq(Moments)]
      BY <3>1, <3>2, <3>3, ReduceTyped
    <3>6. socket' = [socket EXCEPT ![s] = [socket[s] EXCEPT
                       !.pipe = Tail(socket[s].pipe), !.greeting = socket[s].greeting,
                       !.held = socket[s].held]]
      BY <1>1, <3>1 DEF Sockets
    <3>7. /\ socket[s].greeting \in {"sent", "reading", "read"}
          /\ socket[s].held \in Moments \union {Null}
          /\ ~late => socket[s].greeting = "sent"
      BY <1>1 DEF Sockets, QuietUnlessOpen
    <3>8. QED
      BY <3>1, <3>2, <3>4, <3>5, <3>6, <3>7 DEF serverVars
  <2>2. CASE SendWelcome(s)
    <3>1. /\ socket[s].greeting = "read"
          /\ socket' = [socket EXCEPT ![s].greeting = "sent", ![s].held = Null,
                  ![s].pipe = Append(@, [type |-> "welcome", of |-> socket[s].held])]
          /\ UNCHANGED <<wanted, current, timer, attempt, status, shown, serverVars, fresh>>
      BY <2>2 DEF SendWelcome
    <3>2. [type |-> "welcome", of |-> socket[s].held] \in Frames
      BY <1>1 DEF Sockets, Frames
    <3>3. Append(socket[s].pipe, [type |-> "welcome", of |-> socket[s].held]) \in Seq(Frames)
      BY <1>1, <3>2
    <3>4. socket' = [socket EXCEPT ![s] = [socket[s] EXCEPT
                       !.pipe = Append(socket[s].pipe, [type |-> "welcome", of |-> socket[s].held]),
                       !.greeting = "sent", !.held = Null]]
      BY <1>1, <3>1 DEF Sockets
    <3>5. socket[s].state = "open"
      BY <3>1 DEF QuietUnlessOpen
    <3>6. QED
      BY <3>1, <3>3, <3>4, <3>5 DEF serverVars, DashTypeOK
  <2>3. QED
    BY <2>1, <2>2
<1>3. PICK pipe \in Seq(Frames), greeting \in {"sent", "reading", "read"},
           held \in Moments \union {Null} :
        /\ socket' = [socket EXCEPT ![s] = [socket[s] EXCEPT
                        !.pipe = pipe, !.greeting = greeting, !.held = held]]
        /\ socket[s].state # "open" => pipe = socket[s].pipe /\ greeting = "sent"
        /\ ~late => greeting = "sent"
  BY <1>2
<1> DEFINE new == [socket[s] EXCEPT !.pipe = pipe, !.greeting = greeting, !.held = held]
<1>4. /\ new \in Sockets /\ new.state = socket[s].state /\ new.lost = socket[s].lost
      /\ new.pipe = pipe /\ new.greeting = greeting
  BY <1>1 DEF Sockets
<1>5. /\ socket' \in [Slots -> Sockets]
      /\ \A t \in Slots : socket'[t] = IF t = s THEN new ELSE socket[t]
  BY <1>3, <1>4 DEF DashTypeOK
<1> HIDE DEF new
<1>6. DashTypeOK'
  <2>1. /\ UNCHANGED <<wanted, current, timer, late, up, play, at, kept>> /\ fresh' \in BOOLEAN
        /\ shown' \in [snapshot : Moments \union {Null}, prediction : Moments \union {Null},
                       history : Seq(Moments), rounds : Seq(Moments)]
    BY <1>2
  <2>2. QED
    BY <1>5, <2>1 DEF DashTypeOK
<1>7. OneConnection'
  BY <1>2, <1>4, <1>5, FreeIsTyped DEF OneConnection, DashTypeOK
<1>8. QuietUnlessOpen'
  BY <1>2, <1>3, <1>4, <1>5 DEF QuietUnlessOpen
<1>9. FreshIsOpen'
  BY <1>2, <1>4, <1>5, FreeIsTyped DEF FreshIsOpen, OneConnection
<1>10. QED
  BY <1>6, <1>7, <1>8, <1>9

-----------------------------------------------------------------------------
(***************************************************************************)
(* Earlier is a strict order in which the events of all matches lie.       *)
(***************************************************************************)
LEMMA EarlierOrder ==
  ASSUME NEW a, NEW b, NEW c, a.play \in Nat, b.play \in Nat, c.play \in Nat,
         a.seq \in Nat, b.seq \in Nat, c.seq \in Nat
  PROVE  /\ ~Earlier(a, a)
         /\ Earlier(a, b) => ~Earlier(b, a)
         /\ Earlier(a, b) /\ Earlier(b, c) => Earlier(a, c)
BY DEF Earlier

(***************************************************************************)
(* The members of what is shown and of the pipes.                          *)
(***************************************************************************)
LEMMA MembersTyped ==
  ASSUME DashInv
  PROVE  /\ shown.snapshot \in Moments \union {Null}
         /\ shown.prediction \in Moments \union {Null}
         /\ kept \in Moments \union {Null}
         /\ shown.history \in Seq(Moments) /\ shown.rounds \in Seq(Moments)
         /\ \A i \in 1..Len(shown.history) : shown.history[i] \in Moments
         /\ \A i \in 1..Len(shown.rounds) : shown.rounds[i] \in Moments
         /\ \A s \in Slots :
              /\ socket[s] \in Sockets
              /\ socket[s].held \in Moments \union {Null}
              /\ socket[s].pipe \in Seq(Frames)
              /\ \A i \in 1..Len(socket[s].pipe) :
                   /\ socket[s].pipe[i] \in Frames
                   /\ socket[s].pipe[i].of \in Moments \union {Null}
<1>1. DashTypeOK
  BY DEF DashInv
<1>2. /\ shown.history \in Seq(Moments) /\ shown.rounds \in Seq(Moments)
      /\ shown.snapshot \in Moments \union {Null}
      /\ shown.prediction \in Moments \union {Null}
      /\ kept \in Moments \union {Null}
  BY <1>1 DEF DashTypeOK
<1>3. ASSUME NEW s \in Slots
      PROVE  /\ socket[s] \in Sockets
             /\ socket[s].held \in Moments \union {Null}
             /\ socket[s].pipe \in Seq(Frames)
  BY <1>1 DEF DashTypeOK, Sockets
<1>4. \A frame \in Frames : frame.of \in Moments \union {Null}
  BY DEF Frames
<1>5. QED
  BY <1>2, <1>3, <1>4

(***************************************************************************)
(* Only the open socket has frames in flight.                              *)
(***************************************************************************)
LEMMA OnePipe ==
  ASSUME DashInv, NEW s \in Slots, socket[s].state = "open", NEW t \in Slots, t # s
  PROVE  socket[t].pipe = <<>> /\ socket[t].state # "open"
<1>1. s = current
  BY DEF DashInv, OneConnection
<1>2. socket[t].state # "open"
  BY <1>1 DEF DashInv, OneConnection
<1>3. QED
  BY <1>2 DEF DashInv, QuietUnlessOpen

(***************************************************************************)
(* Steps that change neither what is shown nor where the server is, and    *)
(* put nothing into a pipe.                                                *)
(***************************************************************************)
LEMMA ShownQuiet ==
  ASSUME DashInv, ShownInv, UNCHANGED <<shown, late, play, at, kept>>, fresh' => fresh,
         \A s \in Slots :
           /\ socket'[s].pipe = <<>> \/ socket'[s].pipe = socket[s].pipe
           /\ socket'[s].held \in {Null, kept, socket[s].held}
           /\ socket'[s].state = "open" /\ ~socket'[s].lost =>
                socket[s].state = "open" /\ ~socket[s].lost /\ socket'[s].pipe = socket[s].pipe
  PROVE  ShownInv'
<1>1. Ascends(shown'.history) /\ Ascends(shown'.rounds)
  BY DEF ShownInv
<1>2. Now' = Now
  BY DEF Now
<1>3. EverythingPast'
  BY <1>2 DEF ShownInv, EverythingPast, Past
<1>4. NewestKept'
  BY DEF ShownInv, NewestKept, UpTo
<1>5. Gauge' => Gauge
  BY DEF Gauge
<1>6. GaugeIsNew'
  BY <1>5 DEF ShownInv, GaugeIsNew, UpTo
<1>7. ASSUME NEW s \in Slots
      PROVE  /\ InOrder(socket[s].pipe)' /\ Announced(socket[s].pipe)'
             /\ \A i \in 1..Len(socket'[s].pipe) : Ahead(socket[s].pipe[i])'
  <2>1. CASE socket'[s].pipe = <<>>
    BY <2>1 DEF InOrder, Announced
  <2>2. CASE socket'[s].pipe = socket[s].pipe
    <3>1. InOrder(socket[s].pipe)'
      BY <2>2 DEF ShownInv, InOrder, Follows
    <3>2. Announced(socket[s].pipe)'
      BY <1>5, <2>2 DEF ShownInv, Announced
    <3>3. \A i \in 1..Len(socket'[s].pipe) : Ahead(socket[s].pipe[i])'
      BY <2>2 DEF ShownInv, Ahead, UpTo
    <3>4. QED
      BY <3>1, <3>2, <3>3
  <2>3. QED
    BY <2>1, <2>2
<1>8. ASSUME NEW s \in Slots, socket'[s].state = "open", ~socket'[s].lost
      PROVE  Announcing(socket[s].pipe, at)'
  <2>1. Announcing(socket[s].pipe, at) /\ socket'[s].pipe = socket[s].pipe
    BY <1>8 DEF ShownInv
  <2>2. RoundIsLive(at') <=> RoundIsLive(at)
    OBVIOUS
  <2>3. QED
    BY <1>5, <2>1, <2>2 DEF Announcing
<1>9. QED
  BY <1>1, <1>3, <1>4, <1>6, <1>7, <1>8 DEF ShownInv

LEMMA QuietSteps ==
  ASSUME DashInv, ShownInv, NEW s \in Slots,
         Enable \/ Disable \/ Reconnect \/ Retry \/ Closed(s) \/ ClosedLate(s) \/ Break(s)
           \/ ReadSnapshot(s) \/ ServerStops
  PROVE  ShownInv'
<1> USE DEF DashInv
<1>1. socket \in [Slots -> Sockets]
  BY DEF DashTypeOK
<1>2. CASE Enable \/ Retry \/ Reconnect
  <2>1. UNCHANGED <<shown, late, play, at, kept>> /\ (fresh' => fresh)
    BY <1>2 DEF Enable, Retry, Reconnect, serverVars
  <2>2. \E others \in [Slots -> Sockets] : \E attempts :
          /\ Connect(others, attempts)
          /\ \A t \in Slots : /\ ~Live(others[t].state) /\ others[t].pipe = <<>>
                              /\ others[t].held \in {Null, socket[t].held}
    <3>1. CASE Enable \/ Retry
      <4>1. current = Null
        BY <3>1 DEF Enable, Retry, OneConnection
      <4>2. \A t \in Slots : ~Live(socket[t].state) /\ socket[t].pipe = <<>>
        BY <4>1, FreeIsTyped DEF OneConnection, QuietUnlessOpen, Live
      <4>3. Connect(socket, attempt)
        BY <3>1 DEF Enable, Retry
      <4>4. QED
        BY <1>1, <4>2, <4>3
    <3>2. CASE Reconnect
      <4>1. Connect(Abandoned, 0)
        BY <3>2 DEF Reconnect
      <4>2. \A t \in Slots : Abandoned[t].held \in {Null, socket[t].held}
        BY AbandonedLeavesNone DEF Free
      <4>3. QED
        BY <4>1, <4>2, AbandonedLeavesNone
    <3>3. QED
      BY <1>2, <3>1, <3>2
  <2>3. PICK others \in [Slots -> Sockets] : \E attempts :
          /\ Connect(others, attempts)
          /\ \A t \in Slots : /\ ~Live(others[t].state) /\ others[t].pipe = <<>>
                              /\ others[t].held \in {Null, socket[t].held}
    BY <2>2
  <2>4. \A t \in Slots : /\ socket'[t].pipe = <<>> /\ socket'[t].state # "open"
                         /\ socket'[t].held \in {Null, socket[t].held}
    BY <2>3, ConnectMakesOne
  <2>5. QED
    BY <2>1, <2>4, ShownQuiet
<1>3. CASE Disable
  <2>1. /\ UNCHANGED <<shown, late, play, at, kept>> /\ fresh' = FALSE /\ socket' = Abandoned
    BY <1>3 DEF Disable, serverVars
  <2>2. \A t \in Slots : /\ socket'[t].pipe = <<>> /\ socket'[t].state # "open"
                         /\ socket'[t].held \in {Null, socket[t].held}
    BY <2>1, AbandonedLeavesNone DEF Live, Free
  <2>3. QED
    BY <2>1, <2>2, ShownQuiet
<1>4. CASE Closed(s) \/ ClosedLate(s)
  <2>1. /\ UNCHANGED <<shown, late, play, at, kept>> /\ (fresh' => fresh)
        /\ socket' = [socket EXCEPT ![s] = Free]
    BY <1>4 DEF Closed, ClosedLate, serverVars
  <2>2. \A t \in Slots : socket'[t] = IF t = s THEN Free ELSE socket[t]
    BY <1>1, <2>1
  <2>3. Free.pipe = <<>> /\ Free.state = "free" /\ Free.held = Null
    BY DEF Free
  <2>4. QED
    BY <2>1, <2>2, <2>3, ShownQuiet
<1>5. CASE Break(s)
  <2>1. /\ UNCHANGED <<shown, late, play, at, kept, fresh>>
        /\ socket' = [socket EXCEPT ![s].lost = TRUE]
    BY <1>5 DEF Break, serverVars
  <2>2. \A t \in Slots :
          /\ socket'[t].state = socket[t].state /\ socket'[t].pipe = socket[t].pipe
          /\ socket'[t].held = socket[t].held
          /\ ~socket'[t].lost => ~socket[t].lost
    BY <1>1, <2>1 DEF Sockets
  <2>3. QED
    BY <2>1, <2>2, ShownQuiet
<1>6. CASE ReadSnapshot(s)
  <2>1. /\ UNCHANGED <<shown, late, play, at, kept, fresh>>
        /\ socket' = [socket EXCEPT ![s].greeting = "read", ![s].held = kept]
    BY <1>6 DEF ReadSnapshot, serverVars
  <2>2. \A t \in Slots :
          /\ socket'[t].state = socket[t].state /\ socket'[t].pipe = socket[t].pipe
          /\ socket'[t].lost = socket[t].lost
          /\ socket'[t].held \in {kept, socket[t].held}
    <3>1. socket' = [socket EXCEPT ![s] = [socket[s] EXCEPT !.greeting = "read", !.held = kept]]
      BY <1>1, <2>1
    <3>2. QED
      BY <1>1, <3>1 DEF Sockets
  <2>3. QED
    BY <2>1, <2>2, ShownQuiet
<1>7. CASE ServerStops
  <2>1. /\ UNCHANGED <<shown, late, play, at, kept, fresh>>
        /\ socket' = [t \in Slots |->
             IF socket[t].state = "open" THEN [socket[t] EXCEPT !.lost = TRUE] ELSE socket[t]]
    BY <1>7 DEF ServerStops
  <2>2. \A t \in Slots :
          /\ socket'[t].state = socket[t].state /\ socket'[t].pipe = socket[t].pipe
          /\ socket'[t].held = socket[t].held
          /\ socket'[t].state = "open" => socket'[t].lost = TRUE
    BY <1>1, <2>1 DEF Sockets
  <2>3. QED
    BY <2>1, <2>2, ShownQuiet
<1>8. QED
  BY <1>2, <1>3, <1>4, <1>5, <1>6, <1>7

(***************************************************************************)
(* The process that follows plays later events, and no socket of the one   *)
(* that ended hears of them.                                               *)
(***************************************************************************)
LEMMA ShownStarts ==
  ASSUME DashInv, ShownInv, ServerStarts
  PROVE  ShownInv'
<1>1. /\ ~up /\ play' = play + 1 /\ at' = 1 /\ kept' \in {kept, Null}
      /\ UNCHANGED <<socket, shown, late, fresh>>
  BY DEF ServerStarts, hookVars
<1>2. play \in Nat /\ at \in Nat
  BY DEF DashInv, DashTypeOK
<1>3. \A e \in Moments : Earlier(e, Now) => Earlier(e, Now')
  BY <1>1, <1>2 DEF Earlier, Now, Moments
<1>4. EverythingPast'
  BY <1>1, <1>3, MembersTyped DEF ShownInv, EverythingPast, Past
<1>5. NewestKept'
  BY <1>1 DEF ShownInv, NewestKept, UpTo
<1>6. GaugeIsNew' /\ (Gauge' <=> Gauge)
  BY <1>1 DEF ShownInv, GaugeIsNew, UpTo, Gauge
<1>7. \A s \in Slots :
        /\ InOrder(socket[s].pipe)' /\ Announced(socket[s].pipe)'
        /\ \A i \in 1..Len(socket'[s].pipe) : Ahead(socket[s].pipe[i])'
        /\ ~(socket'[s].state = "open" /\ ~socket'[s].lost)
  <2>1. \A s \in Slots : InOrder(socket[s].pipe)'
    BY <1>1 DEF ShownInv, InOrder, Follows
  <2>2. \A s \in Slots : Announced(socket[s].pipe)'
    BY <1>1, <1>6 DEF ShownInv, Announced
  <2>3. \A s \in Slots : \A i \in 1..Len(socket'[s].pipe) : Ahead(socket[s].pipe[i])'
    BY <1>1 DEF ShownInv, Ahead, UpTo
  <2>4. \A s \in Slots : ~(socket'[s].state = "open" /\ ~socket'[s].lost)
    BY <1>1 DEF DashInv, QuietUnlessOpen
  <2>5. QED
    BY <2>1, <2>2, <2>3, <2>4
<1>8. QED
  BY <1>1, <1>4, <1>5, <1>6, <1>7 DEF ShownInv

(***************************************************************************)
(* A server whose store does not suspend welcomes a socket at once, with   *)
(* the newest snapshot there is.                                           *)
(***************************************************************************)
LEMMA ShownOpened ==
  ASSUME DashInv, ShownInv, NEW s \in Slots, Opened(s)
  PROVE  ShownInv'
<1> DEFINE W == [type |-> "welcome", of |-> kept]
           pipe == IF late THEN <<>> ELSE <<W>>
           new == [socket[s] EXCEPT !.state = "open",
                     !.greeting = IF late THEN "reading" ELSE "sent", !.pipe = pipe]
<1>1. /\ socket[s].state = "connecting"
      /\ socket' = [socket EXCEPT ![s] = new]
      /\ UNCHANGED <<current, shown, late, play, at, kept, fresh>>
  BY DEF Opened, serverVars
<1>2. /\ socket[s] \in Sockets /\ new.pipe = pipe /\ new.held = socket[s].held
      /\ \A t \in Slots : socket'[t] = IF t = s THEN new ELSE socket[t]
  BY <1>1, MembersTyped DEF DashInv, DashTypeOK, Sockets
<1>3. ~fresh
  <2>1. s = current
    BY <1>1 DEF DashInv, OneConnection
  <2>2. QED
    BY <1>1, <2>1 DEF DashInv, FreshIsOpen
<1>4. Now' = Now /\ ~Gauge'
  BY <1>1, <1>3 DEF Now, Gauge
<1>5. \A i \in 1..Len(pipe) : pipe[i] = W /\ i = 1 /\ ~late
  OBVIOUS
<1>6. \A t \in Slots : t # s => socket'[t] = socket[t]
  BY <1>2
<1>7. socket'[s].pipe = pipe /\ socket'[s].held = socket[s].held
  BY <1>2
<1> HIDE DEF pipe, new
<1>8. EverythingPast'
  BY <1>1, <1>4, <1>5, <1>6, <1>7 DEF ShownInv, EverythingPast, Past
<1>9. NewestKept'
  <2>1. UpTo(kept, kept)
    BY MembersTyped, EarlierOrder DEF UpTo, Moments
  <2>2. QED
    BY <1>1, <1>5, <1>6, <1>7, <2>1 DEF ShownInv, NewestKept, UpTo
<1>10. GaugeIsNew'
  BY <1>4 DEF GaugeIsNew
<1>11. ASSUME NEW t \in Slots
       PROVE  /\ InOrder(socket[t].pipe)' /\ Announced(socket[t].pipe)'
              /\ \A i \in 1..Len(socket'[t].pipe) : Ahead(socket[t].pipe[i])'
              /\ socket'[t].state = "open" /\ ~socket'[t].lost => Announcing(socket[t].pipe, at)'
  <2>1. CASE t = s
    <3>1. InOrder(socket[t].pipe)'
      BY <1>1, <1>5, <1>7, <2>1 DEF InOrder
    <3>2. Announced(socket[t].pipe)'
      BY <1>5, <1>7, <2>1 DEF Announced, Dead
    <3>3. \A i \in 1..Len(socket'[t].pipe) : Ahead(socket[t].pipe[i])'
      BY <1>1, <1>5, <1>7, <2>1 DEF Ahead, ShownInv, NewestKept, UpTo
    <3>4. Announcing(socket[t].pipe, at)'
      BY <1>4, <1>5, <1>7, <2>1 DEF Announcing, Sets
    <3>5. QED
      BY <3>1, <3>2, <3>3, <3>4
  <2>2. CASE t # s
    <3>1. socket'[t] = socket[t]
      BY <1>6, <2>2
    <3>2. InOrder(socket[t].pipe)' /\ Announced(socket[t].pipe)'
      <4>1. InOrder(socket[t].pipe)'
        BY <1>1, <3>1 DEF ShownInv, InOrder, Follows
      <4>2. Announced(socket[t].pipe)'
        <5>1. \A i \in 1..Len(socket[t].pipe) : Dead(socket[t].pipe[i]) =>
                \A j \in 1..(i - 1) : Sets(socket[t].pipe[j]) =>
                  \E k \in (j + 1)..(i - 1) : Settles(socket[t].pipe[k])
          BY DEF ShownInv, Announced
        <5>2. QED
          BY <1>4, <3>1, <5>1 DEF Announced
      <4>3. QED
        BY <4>1, <4>2
    <3>3. \A i \in 1..Len(socket'[t].pipe) : Ahead(socket[t].pipe[i])'
      BY <1>1, <3>1 DEF ShownInv, Ahead, UpTo
    <3>4. socket'[t].state = "open" /\ ~socket'[t].lost => Announcing(socket[t].pipe, at)'
      BY <1>1, <1>4, <3>1 DEF ShownInv, Announcing, RoundIsLive
    <3>5. QED
      BY <3>2, <3>3, <3>4
  <2>3. QED
    BY <2>1, <2>2
<1>12. QED
  BY <1>1, <1>8, <1>9, <1>10, <1>11 DEF ShownInv

(***************************************************************************)
(* A late welcome: nothing is fresh after it.                              *)
(***************************************************************************)
LEMMA ShownWelcome ==
  ASSUME DashInv, ShownInv, NEW s \in Slots, SendWelcome(s)
  PROVE  ShownInv'
<1> DEFINE W == [type |-> "welcome", of |-> socket[s].held]
           pipe == socket[s].pipe
           n == Len(pipe)
           new == [socket[s] EXCEPT !.greeting = "sent", !.held = Null, !.pipe = Append(@, W)]
<1>1. /\ socket[s].greeting = "read" /\ ~socket[s].lost
      /\ socket' = [socket EXCEPT ![s].greeting = "sent", ![s].held = Null,
                      ![s].pipe = Append(@, W)]
      /\ UNCHANGED <<shown, late, play, at, kept, fresh>>
  BY DEF SendWelcome, serverVars
<1>2. late /\ socket[s].state = "open"
  BY <1>1 DEF DashInv, QuietUnlessOpen, DashTypeOK
<1>3. /\ socket[s] \in Sockets /\ pipe \in Seq(Frames)
      /\ W \in Frames /\ n \in Nat
  <2>1. socket[s].held \in Moments \union {Null}
    BY MembersTyped
  <2>2. W \in Frames
    BY <2>1 DEF Frames
  <2>3. QED
    BY <2>2, MembersTyped
<1>4. /\ \A t \in Slots : t # s => socket'[t] = socket[t]
      /\ socket'[s].pipe = Append(pipe, W) /\ socket'[s].held = Null
  <2>1. socket' = [socket EXCEPT ![s] = new]
    BY <1>1, <1>3 DEF Sockets, DashInv, DashTypeOK
  <2>2. new.pipe = Append(pipe, W) /\ new.held = Null
    BY <1>3 DEF Sockets
  <2>3. QED
    BY <2>1, <2>2 DEF DashInv, DashTypeOK
<1>5. /\ Len(Append(pipe, W)) = n + 1 /\ Append(pipe, W)[n + 1] = W
      /\ \A i \in 1..n : Append(pipe, W)[i] = pipe[i]
  BY <1>3
<1> DEFINE longer == Append(pipe, W)
<1> HIDE DEF longer
<1>6. /\ socket'[s].pipe = longer /\ Len(longer) = n + 1 /\ longer[n + 1] = W
      /\ \A i \in 1..n : longer[i] = pipe[i]
      /\ \A i \in 1..(n + 1) : i \in 1..n \/ i = n + 1
  BY <1>3, <1>4, <1>5 DEF longer
<1>7. Now' = Now /\ Gauge' = Gauge
  BY <1>1 DEF Now, Gauge
<1>8. EverythingPast'
  <2>1. Past(W.of)
    BY DEF ShownInv, EverythingPast
  <2>2. \A i \in 1..Len(longer) : Past(longer[i].of)
    BY <1>6, <2>1 DEF ShownInv, EverythingPast
  <2>3. /\ Past(shown.snapshot)' /\ Past(shown.prediction)' /\ Past(kept)'
        /\ \A i \in 1..Len(shown'.history) : Earlier(shown'.history[i], Now')
        /\ \A i \in 1..Len(shown'.rounds) : Earlier(shown'.rounds[i], Now')
    BY <1>1, <1>7 DEF ShownInv, EverythingPast, Past
  <2>4. ASSUME NEW t \in Slots
        PROVE  /\ Past(socket[t].held)'
               /\ \A i \in 1..Len(socket'[t].pipe) : Past(socket[t].pipe[i].of)'
    BY <1>4, <1>6, <1>7, <2>2 DEF ShownInv, EverythingPast, Past
  <2>5. QED
    BY <2>3, <2>4 DEF EverythingPast
<1>9. NewestKept' /\ GaugeIsNew'
  BY <1>1, <1>2, <1>7 DEF ShownInv, NewestKept, GaugeIsNew, UpTo
<1>10. InOrder(longer)
  <2>1. InOrder(pipe)
    BY DEF ShownInv
  <2>2. \A i \in 1..n : Follows(W, longer[i])
    BY <1>2 DEF Follows
  <2>3. ASSUME NEW i \in 1..(n + 1), NEW j \in 1..(n + 1), i < j
        PROVE  Follows(longer[j], longer[i])
    <3>1. i \in 1..n /\ (j # n + 1 => j \in 1..n)
      BY <1>3, <2>3
    <3>2. QED
      BY <1>6, <2>1, <2>2, <2>3, <3>1 DEF InOrder
  <2>4. QED
    BY <1>6, <2>3 DEF InOrder
<1>11. Announced(longer)
  <2>1. Announced(pipe) /\ ~Dead(W)
    BY DEF ShownInv, Dead
  <2>2. SUFFICES ASSUME NEW i \in 1..n, Dead(longer[i])
                 PROVE  /\ \A j \in 1..(i - 1) : Sets(longer[j]) =>
                             \E k \in (j + 1)..(i - 1) : Settles(longer[k])
                        /\ Gauge => \E k \in 1..(i - 1) : Settles(longer[k])
    BY <1>6, <2>1 DEF Announced
  <2>3. \A k \in 1..(i - 1) : k \in 1..n
    BY <1>3
  <2>4. \A j \in 1..(i - 1) : \A k \in (j + 1)..(i - 1) : k \in 1..n
    BY <1>3
  <2>5. QED
    BY <1>6, <2>1, <2>2, <2>3, <2>4 DEF Announced
<1>12. \A i \in 1..Len(longer) : Ahead(longer[i])
  <2>1. Ahead(W)
    BY <1>2 DEF Ahead
  <2>2. QED
    BY <1>6, <2>1 DEF ShownInv
<1>13. Announcing(longer, at)
  <2>1. Settles(longer[n + 1]) /\ ~Sets(longer[n + 1])
    BY <1>6 DEF Settles, Sets
  <2>2. \A j \in 1..(n + 1) : j # n + 1 => n + 1 \in (j + 1)..(n + 1)
    BY <1>3
  <2>3. n + 1 \in 1..(n + 1)
    BY <1>3
  <2>4. QED
    BY <1>6, <2>1, <2>2, <2>3 DEF Announcing
<1>14. ASSUME NEW t \in Slots
       PROVE  /\ InOrder(socket[t].pipe)' /\ Announced(socket[t].pipe)'
              /\ \A i \in 1..Len(socket'[t].pipe) : Ahead(socket[t].pipe[i])'
              /\ socket'[t].state = "open" /\ ~socket'[t].lost => Announcing(socket[t].pipe, at)'
  <2>1. CASE t = s
    <3>1. InOrder(socket[t].pipe)'
      BY <1>1, <1>6, <1>10, <2>1 DEF InOrder, Follows
    <3>2. Announced(socket[t].pipe)'
      BY <1>6, <1>7, <1>11, <2>1 DEF Announced
    <3>3. \A i \in 1..Len(socket'[t].pipe) : Ahead(socket[t].pipe[i])'
      <4>1. SUFFICES ASSUME NEW i \in 1..Len(longer) PROVE Ahead(socket[t].pipe[i])'
        BY <1>6, <2>1
      <4>2. Ahead(longer[i]) /\ socket'[t].pipe[i] = longer[i]
        BY <1>6, <1>12, <2>1
      <4>3. QED
        BY <1>1, <4>2 DEF Ahead, UpTo
    <3>4. Announcing(socket[t].pipe, at)'
      <4>1. RoundIsLive(at') <=> RoundIsLive(at)
        BY <1>1
      <4>2. QED
        BY <1>6, <1>7, <1>13, <2>1, <4>1 DEF Announcing
    <3>5. QED
      BY <3>1, <3>2, <3>3, <3>4
  <2>2. CASE t # s
    <3>1. socket'[t].pipe = <<>> /\ socket'[t].state # "open"
      BY <1>2, <1>4, <2>2, OnePipe
    <3>2. QED
      BY <3>1 DEF InOrder, Announced
  <2>3. QED
    BY <2>1, <2>2
<1>15. QED
  BY <1>1, <1>8, <1>9, <1>14 DEF ShownInv

(***************************************************************************)
(* What is later than every element can be appended to an ascending        *)
(* sequence, whatever is dropped at its head.                              *)
(***************************************************************************)
LEMMA BoundedAscends ==
  ASSUME NEW items \in Seq(Moments), NEW item \in Moments, NEW limit \in Nat \ {0},
         Ascends(items), \A i \in 1..Len(items) : Earlier(items[i], item)
  PROVE  /\ Bounded(items, item, limit) \in Seq(Moments)
         /\ Ascends(Bounded(items, item, limit))
         /\ \A i \in 1..Len(Bounded(items, item, limit)) :
              \/ Bounded(items, item, limit)[i] = item
              \/ \E j \in 1..Len(items) : Bounded(items, item, limit)[i] = items[j]
<1> DEFINE new == Bounded(items, item, limit)
<1>1. /\ new \in Seq(Moments)
      /\ \E d \in Nat :
           /\ Len(new) + d = Len(items) + 1
           /\ \A i \in 1..Len(new) :
                /\ i + d \in 1..(Len(items) + 1)
                /\ new[i] = IF i + d = Len(items) + 1 THEN item ELSE items[i + d]
  <2> DEFINE IsSuffix(xs, x, l) ==
               \E d \in Nat :
                 /\ Len(Bounded(xs, x, l)) + d = Len(xs) + 1
                 /\ \A i \in 1..Len(Bounded(xs, x, l)) :
                      /\ i + d \in 1..(Len(xs) + 1)
                      /\ Bounded(xs, x, l)[i] = IF i + d = Len(xs) + 1 THEN x ELSE xs[i + d]
  <2>1. \A S : \A xs \in Seq(S), x \in S, l \in Nat \ {0} :
          Bounded(xs, x, l) \in Seq(S) /\ IsSuffix(xs, x, l)
    BY BoundedIsSuffix, Zenon
  <2> HIDE DEF IsSuffix
  <2>2. new \in Seq(Moments) /\ IsSuffix(items, item, limit)
    BY <2>1, Zenon
  <2>3. QED
    BY <2>2 DEF IsSuffix
<1>2. PICK d \in Nat :
        /\ Len(new) + d = Len(items) + 1
        /\ \A i \in 1..Len(new) :
             /\ i + d \in 1..(Len(items) + 1)
             /\ new[i] = IF i + d = Len(items) + 1 THEN item ELSE items[i + d]
  BY <1>1
<1>3. Len(new) \in Nat /\ Len(items) \in Nat
  BY <1>1
<1> HIDE DEF new
<1>4. \A i \in 1..Len(new) : new[i] = item \/ \E j \in 1..Len(items) : new[i] = items[j]
  <2>1. \A i \in 1..Len(new) : i + d # Len(items) + 1 => i + d \in 1..Len(items)
    BY <1>2, <1>3
  <2>2. QED
    BY <1>2, <2>1
<1>5. Ascends(new)
  <2>1. SUFFICES ASSUME NEW i \in 1..(Len(new) - 1) PROVE Earlier(new[i], new[i + 1])
    BY DEF Ascends
  <2>2. /\ i \in 1..Len(new) /\ i + 1 \in 1..Len(new) /\ (i + 1) + d = (i + d) + 1
        /\ i + d \in 1..Len(items)
    BY <1>2, <1>3
  <2>3. new[i] = items[i + d]
    BY <1>2, <1>3, <2>2
  <2>4. CASE (i + d) + 1 = Len(items) + 1
    <3>1. new[i + 1] = item
      BY <1>2, <2>2, <2>4
    <3>2. QED
      BY <2>2, <2>3, <3>1
  <2>5. CASE (i + d) + 1 # Len(items) + 1
    <3>1. new[i + 1] = items[(i + d) + 1]
      BY <1>2, <2>2, <2>5
    <3>2. i + d \in 1..(Len(items) - 1)
      BY <1>3, <2>2, <2>5
    <3>3. QED
      BY <2>3, <3>1, <3>2 DEF Ascends
  <2>6. QED
    BY <2>4, <2>5
<1>6. QED
  BY <1>1, <1>4, <1>5 DEF new

(***************************************************************************)
(* What reduce() shows of a frame that is not before what is shown.        *)
(***************************************************************************)
LEMMA ReduceShows ==
  ASSUME DashInv, ShownInv, NEW frame \in Frames, Ahead(frame), shown' = Reduce(frame)
  PROVE  /\ \/ shown'.snapshot = shown.snapshot
            \/ /\ shown'.snapshot = frame.of /\ frame.of # Null
               /\ frame.type \in {"welcome", "tick"}
         /\ \/ shown'.prediction = shown.prediction /\ frame.type \in {"welcome", "tick"}
            \/ /\ shown'.prediction = frame.of /\ frame.of # Null
               /\ Sets(frame) \/ frame.type = "welcome"
            \/ shown'.prediction = Null
         /\ frame.type \in {"round_end", "match_end"} => shown'.prediction = Null
         /\ Sets(frame) => shown'.prediction = frame.of
         /\ Ascends(shown'.history) /\ Ascends(shown'.rounds)
         /\ \A i \in 1..Len(shown'.history) :
              \/ shown'.history[i] = frame.of /\ frame.type = "prediction"
              \/ \E j \in 1..Len(shown.history) : shown'.history[i] = shown.history[j]
         /\ \A i \in 1..Len(shown'.rounds) :
              \/ shown'.rounds[i] = frame.of /\ frame.type = "round_end"
              \/ \E j \in 1..Len(shown.rounds) : shown'.rounds[i] = shown.rounds[j]
<1>1. /\ shown \in [snapshot : Moments \union {Null}, prediction : Moments \union {Null},
                    history : Seq(Moments), rounds : Seq(Moments)]
      /\ Ascends(shown.history) /\ Ascends(shown.rounds)
  BY DEF DashInv, DashTypeOK, ShownInv
<1>2. frame.type # "welcome" => frame.of \in Moments
  BY DEF Ahead, Frames
<1>3. CASE frame.type = "welcome"
  <2>1. shown' = [shown EXCEPT !.snapshot = IF frame.of = Null THEN @ ELSE frame.of,
                               !.prediction = Predicted(frame.of)]
    BY <1>3 DEF Reduce
  <2>2. /\ shown'.snapshot = (IF frame.of = Null THEN shown.snapshot ELSE frame.of)
        /\ shown'.prediction = Predicted(frame.of)
        /\ shown'.history = shown.history /\ shown'.rounds = shown.rounds
    BY <1>1, <2>1
  <2>3. QED
    BY <1>1, <1>3, <2>2 DEF Predicted, Sets
<1>4. CASE frame.type = "tick"
  <2>1. shown' = [shown EXCEPT !.snapshot = frame.of, !.prediction = Predicted(frame.of)]
    BY <1>4 DEF Reduce
  <2>2. /\ shown'.snapshot = frame.of /\ shown'.prediction = Predicted(frame.of)
        /\ shown'.history = shown.history /\ shown'.rounds = shown.rounds
    BY <1>1, <2>1
  <2>3. frame.of # Null
    BY <1>2, <1>4, FreeIsTyped
  <2>4. QED
    BY <1>1, <1>4, <2>2, <2>3 DEF Predicted, Sets
<1>5. CASE frame.type = "prediction"
  <2> DEFINE readings == Bounded(shown.history, frame.of, MaxHistory)
  <2>1. shown' = [shown EXCEPT !.prediction = frame.of, !.history = readings]
    BY <1>5 DEF Reduce
  <2>2. /\ shown'.snapshot = shown.snapshot /\ shown'.prediction = frame.of
        /\ shown'.history = readings /\ shown'.rounds = shown.rounds
    BY <1>1, <2>1
  <2>3. \A i \in 1..Len(shown.history) : Earlier(shown.history[i], frame.of)
    BY <1>5 DEF Ahead
  <2>4. /\ Ascends(readings)
        /\ \A i \in 1..Len(readings) :
             readings[i] = frame.of \/ \E j \in 1..Len(shown.history) : readings[i] = shown.history[j]
    BY <1>1, <1>2, <1>5, <2>3, BoundedAscends, DashboardAssumption
  <2>5. frame.of # Null
    BY <1>2, <1>5, FreeIsTyped
  <2> HIDE DEF readings
  <2>6. QED
    BY <1>1, <1>5, <2>2, <2>4, <2>5 DEF Sets
<1>6. CASE frame.type = "round_end"
  <2> DEFINE log == Bounded(shown.rounds, frame.of, MaxRoundLog)
  <2>1. shown' = [shown EXCEPT !.rounds = log, !.prediction = Null, !.history = <<>>]
    BY <1>6 DEF Reduce
  <2>2. /\ shown'.snapshot = shown.snapshot /\ shown'.prediction = Null
        /\ shown'.history = <<>> /\ shown'.rounds = log
    BY <1>1, <2>1
  <2>3. \A i \in 1..Len(shown.rounds) : Earlier(shown.rounds[i], frame.of)
    BY <1>6 DEF Ahead
  <2>4. /\ Ascends(log)
        /\ \A i \in 1..Len(log) :
             log[i] = frame.of \/ \E j \in 1..Len(shown.rounds) : log[i] = shown.rounds[j]
    BY <1>1, <1>2, <1>6, <2>3, BoundedAscends, DashboardAssumption
  <2>5. Ascends(<<>>)
    BY DEF Ascends
  <2> HIDE DEF log
  <2>6. QED
    BY <1>1, <1>6, <2>2, <2>4, <2>5 DEF Sets
<1>7. CASE frame.type = "match_end"
  <2>1. shown' = [shown EXCEPT !.prediction = Null]
    BY <1>7 DEF Reduce
  <2>2. /\ shown'.snapshot = shown.snapshot /\ shown'.prediction = Null
        /\ shown'.history = shown.history /\ shown'.rounds = shown.rounds
    BY <1>1, <2>1
  <2>3. QED
    BY <1>1, <1>7, <2>2 DEF Sets
<1>8. QED
  BY <1>3, <1>4, <1>5, <1>6, <1>7 DEF Frames

(***************************************************************************)
(* The frame at the head of a pipe is shown.                               *)
(***************************************************************************)
LEMMA HeadIsShown ==
  ASSUME DashInv, ShownInv, NEW s \in Slots, Receive(s)
  PROVE  LET pipe == socket[s].pipe
             f == pipe[1]
         IN /\ socket[s].state = "open" /\ 1 \in 1..Len(pipe)
            /\ f \in Frames /\ Ahead(f) /\ shown' = Reduce(f)
            /\ fresh' = (f.type # "welcome" /\ (fresh \/ f.type # "tick" \/ f.of.live))
            /\ Len(socket'[s].pipe) = Len(pipe) - 1
            /\ \A i \in 1..(Len(pipe) - 1) : i + 1 \in 1..Len(pipe) /\ socket'[s].pipe[i] = pipe[i + 1]
            /\ \A t \in Slots : t # s => socket'[t].pipe = <<>> /\ socket'[t].state # "open"
            /\ \A t \in Slots : socket'[t].held = socket[t].held
            /\ socket'[s].lost = socket[s].lost
            /\ UNCHANGED <<late, up, play, at, kept>>
<1> DEFINE pipe == socket[s].pipe
           f == pipe[1]
<1>1. /\ socket[s].state = "open" /\ pipe # <<>>
      /\ shown' = Reduce(Head(pipe))
      /\ fresh' = (Head(pipe).type # "welcome"
                     /\ (fresh \/ Head(pipe).type # "tick" \/ Head(pipe).of.live))
      /\ socket' = [socket EXCEPT ![s].pipe = Tail(@)]
      /\ UNCHANGED serverVars
  BY DEF Receive
<1>2. socket[s] \in Sockets /\ pipe \in Seq(Frames)
  BY MembersTyped
<1>3. /\ Head(pipe) = f /\ f \in Frames /\ 1 \in 1..Len(pipe)
      /\ Tail(pipe) \in Seq(Frames) /\ Len(Tail(pipe)) = Len(pipe) - 1
      /\ \A i \in 1..(Len(pipe) - 1) : i + 1 \in 1..Len(pipe) /\ Tail(pipe)[i] = pipe[i + 1]
  BY <1>1, <1>2
<1>4. Ahead(f)
  BY <1>3 DEF ShownInv
<1>5. /\ socket'[s] = [socket[s] EXCEPT !.pipe = Tail(pipe)]
      /\ \A t \in Slots : t # s => socket'[t] = socket[t]
  BY <1>1 DEF DashInv, DashTypeOK
<1>6. /\ socket'[s].pipe = Tail(pipe) /\ socket'[s].held = socket[s].held
      /\ socket'[s].lost = socket[s].lost
  BY <1>2, <1>5 DEF Sockets
<1>7. \A t \in Slots : t # s => socket'[t].pipe = <<>> /\ socket'[t].state # "open"
  BY <1>1, <1>5, OnePipe
<1>8. QED
  BY <1>1, <1>3, <1>4, <1>5, <1>6, <1>7 DEF serverVars

(***************************************************************************)
(* What is fresh after a frame is what that frame has set: a tick without  *)
(* a live round finds the gauge empty or not fresh.                        *)
(***************************************************************************)
LEMMA GaugeIsOfHead ==
  ASSUME DashInv, ShownInv, NEW s \in Slots, Receive(s), Gauge'
  PROVE  Sets(socket[s].pipe[1]) /\ shown'.prediction = socket[s].pipe[1].of
<1> DEFINE f == socket[s].pipe[1]
<1>1. /\ 1 \in 1..Len(socket[s].pipe) /\ f \in Frames /\ Ahead(f) /\ shown' = Reduce(f)
      /\ fresh' = (f.type # "welcome" /\ (fresh \/ f.type # "tick" \/ f.of.live))
  BY HeadIsShown
<1>2. f.type \in {"welcome", "tick", "prediction", "round_end", "match_end"}
  BY <1>1 DEF Frames
<1>3. /\ shown'.prediction # Null
      /\ f.type # "welcome" /\ (fresh \/ f.type # "tick" \/ f.of.live)
  BY <1>1 DEF Gauge
<1>4. f.type \notin {"round_end", "match_end"}
  BY <1>1, <1>3, ReduceShows
<1>5. ~Dead(f)
  <2>1. SUFFICES ASSUME Dead(f) PROVE FALSE
    OBVIOUS
  <2>2. fresh /\ ~Sets(f)
    BY <1>3, <2>1 DEF Dead, Sets
  <2>3. shown'.prediction = shown.prediction
    BY <1>1, <1>3, <2>2, ReduceShows
  <2>4. Gauge
    BY <1>3, <2>2, <2>3 DEF Gauge
  <2>5. Gauge => \E k \in 1..(1 - 1) : Settles(socket[s].pipe[k])
    BY <1>1, <2>1 DEF ShownInv, Announced
  <2>6. QED
    BY <2>4, <2>5
<1>6. Sets(f)
  BY <1>2, <1>3, <1>4, <1>5 DEF Sets, Dead
<1>7. QED
  BY <1>1, <1>6, ReduceShows

(***************************************************************************)
(* Onmessage keeps what is shown, and what is still to be shown, in order. *)
(***************************************************************************)
LEMMA ShownReceive ==
  ASSUME DashInv, ShownInv, NEW s \in Slots, Receive(s)
  PROVE  ShownInv'
<1> DEFINE pipe == socket[s].pipe
           rest == socket'[s].pipe
           n == Len(pipe)
           f == pipe[1]
<1>1. /\ socket[s].state = "open" /\ 1 \in 1..n
      /\ f \in Frames /\ Ahead(f) /\ shown' = Reduce(f)
      /\ Len(rest) = n - 1
      /\ \A i \in 1..(n - 1) : i + 1 \in 1..n /\ rest[i] = pipe[i + 1]
      /\ \A t \in Slots : t # s => socket'[t].pipe = <<>> /\ socket'[t].state # "open"
      /\ \A t \in Slots : socket'[t].held = socket[t].held
      /\ socket'[s].lost = socket[s].lost
      /\ UNCHANGED <<late, up, play, at, kept>>
  BY HeadIsShown
<1>2. n \in Nat /\ f.of \in Moments \union {Null} /\ (f.type # "welcome" => f.of \in Moments)
  BY <1>1, MembersTyped DEF Ahead
<1>3. /\ \A e \in Moments \union {Null} : Past(e)' <=> Past(e)
      /\ Now' = Now /\ Past(f.of)
  BY <1>1 DEF Past, Now, ShownInv, EverythingPast
<1>4. /\ \/ shown'.snapshot = shown.snapshot
         \/ /\ shown'.snapshot = f.of /\ f.of # Null
            /\ f.type \in {"welcome", "tick"}
      /\ \/ shown'.prediction = shown.prediction
         \/ /\ shown'.prediction = f.of /\ f.of # Null
            /\ Sets(f) \/ f.type = "welcome"
         \/ shown'.prediction = Null
      /\ Ascends(shown'.history) /\ Ascends(shown'.rounds)
      /\ \A i \in 1..Len(shown'.history) :
           \/ shown'.history[i] = f.of /\ f.type = "prediction"
           \/ \E j \in 1..Len(shown.history) : shown'.history[i] = shown.history[j]
      /\ \A i \in 1..Len(shown'.rounds) :
           \/ shown'.rounds[i] = f.of /\ f.type = "round_end"
           \/ \E j \in 1..Len(shown.rounds) : shown'.rounds[i] = shown.rounds[j]
  BY <1>1, ReduceShows
<1> HIDE DEF pipe, rest, f, n
<1>5. InOrder(pipe) /\ Announced(pipe) /\ \A i \in 1..n : Ahead(pipe[i])
  BY DEF ShownInv, pipe, n
<1>6. EverythingPast'
  <2>1. /\ Past(shown.snapshot) /\ Past(shown.prediction) /\ Past(kept)
        /\ \A i \in 1..Len(shown.history) : Earlier(shown.history[i], Now)
        /\ \A i \in 1..Len(shown.rounds) : Earlier(shown.rounds[i], Now)
        /\ \A i \in 1..n : Past(pipe[i].of)
        /\ \A t \in Slots : Past(socket[t].held)
    BY DEF ShownInv, EverythingPast, n, pipe
  <2>2. Past(shown.snapshot)' /\ Past(shown.prediction)' /\ Past(kept)'
    BY <1>1, <1>3, <1>4, <2>1 DEF Past
  <2>3. /\ \A i \in 1..Len(shown'.history) : Earlier(shown'.history[i], Now')
        /\ \A i \in 1..Len(shown'.rounds) : Earlier(shown'.rounds[i], Now')
    BY <1>2, <1>3, <1>4, <2>1, FreeIsTyped DEF Past
  <2>4. ASSUME NEW t \in Slots
        PROVE  /\ Past(socket[t].held)'
               /\ \A i \in 1..Len(socket'[t].pipe) : Past(socket[t].pipe[i].of)'
    <3>1. Past(socket[t].held)'
      BY <1>1, <1>3, <2>1 DEF Past
    <3>2. \A i \in 1..(n - 1) : Past(rest[i].of)
      BY <1>1, <2>1
    <3>3. QED
      BY <1>1, <1>3, <3>1, <3>2 DEF Past, rest
  <2>5. QED
    BY <2>2, <2>3, <2>4 DEF EverythingPast
<1>7. NewestKept'
  <2>1. SUFFICES ASSUME ~late, kept # Null PROVE NewestKept'
    BY <1>1 DEF NewestKept
  <2>2. /\ UpTo(shown.snapshot, kept) /\ UpTo(shown.prediction, kept)
        /\ \A i \in 1..n : OfTick(pipe[i]) => UpTo(pipe[i].of, kept)
    BY <2>1 DEF ShownInv, NewestKept, n, pipe
  <2>3. Sets(f) \/ f.type \in {"welcome", "tick"} => UpTo(f.of, kept)
    BY <1>1, <2>2 DEF f, OfTick, Sets
  <2>4. UpTo(shown'.snapshot, kept) /\ UpTo(shown'.prediction, kept)
    BY <1>4, <2>2, <2>3 DEF UpTo
  <2>5. \A i \in 1..(n - 1) : OfTick(rest[i]) => UpTo(rest[i].of, kept)
    BY <1>1, <2>2
  <2>6. \A t \in Slots : \A i \in 1..Len(socket'[t].pipe) :
          OfTick(socket'[t].pipe[i]) => UpTo(socket'[t].pipe[i].of, kept)
    BY <1>1, <2>5 DEF rest
  <2>7. QED
    BY <1>1, <2>4, <2>6 DEF NewestKept, UpTo
<1>8. Gauge' => Sets(f) /\ shown'.prediction = f.of
  BY GaugeIsOfHead DEF f, pipe
<1>9. GaugeIsNew'
  <2>1. SUFFICES ASSUME Gauge'
                 PROVE  /\ UpTo(shown.snapshot, shown.prediction)'
                        /\ \A i \in 1..Len(shown'.rounds) : Earlier(shown'.rounds[i], shown'.prediction)
    BY DEF GaugeIsNew
  <2>2. Sets(f) /\ shown'.prediction = f.of /\ f.type \in {"tick", "prediction"}
    BY <1>8, <2>1 DEF Sets
  <2>3. /\ UpTo(shown.snapshot, f.of)
        /\ \A i \in 1..Len(shown.rounds) : Earlier(shown.rounds[i], f.of)
    BY <1>1, <2>2 DEF Ahead
  <2>4. f.of \in Moments /\ ~Earlier(f.of, f.of)
    BY <1>2, <2>2, EarlierOrder DEF Moments
  <2>5. UpTo(shown.snapshot, shown.prediction)'
    BY <1>4, <2>2, <2>3, <2>4 DEF UpTo
  <2>6. QED
    BY <1>4, <2>2, <2>3, <2>5
<1>10. InOrder(rest)
  <2>1. ASSUME NEW i \in 1..(n - 1), NEW j \in 1..(n - 1), i < j
        PROVE  /\ i + 1 \in 1..n /\ j + 1 \in 1..n /\ i + 1 < j + 1
               /\ rest[i] = pipe[i + 1] /\ rest[j] = pipe[j + 1]
    BY <1>1, <1>2, <2>1
  <2>2. ASSUME NEW i \in 1..(n - 1), NEW j \in 1..(n - 1), i < j
        PROVE  Follows(rest[j], rest[i])
    BY <1>5, <2>1, <2>2 DEF InOrder, n
  <2>3. QED
    BY <1>1, <2>2 DEF InOrder
<1>11. ASSUME NEW i \in 1..(n - 1), Dead(rest[i])
       PROVE  /\ \A j \in 1..(i - 1) : Sets(rest[j]) => \E k \in (j + 1)..(i - 1) : Settles(rest[k])
              /\ Gauge' => \E k \in 1..(i - 1) : Settles(rest[k])
  <2>1. i + 1 \in 1..n /\ Dead(pipe[i + 1])
    BY <1>1, <1>11
  <2>2. \A j \in 1..i : Sets(pipe[j]) => \E k \in (j + 1)..i : Settles(pipe[k])
    <3>1. \A j \in 1..((i + 1) - 1) : Sets(pipe[j]) =>
            \E k \in (j + 1)..((i + 1) - 1) : Settles(pipe[k])
      BY <1>5, <2>1 DEF Announced, n
    <3>2. (i + 1) - 1 = i
      BY <1>2
    <3>3. QED
      BY <3>1, <3>2
  <2>3. ASSUME NEW j \in 0..(i - 1), Sets(pipe[j + 1])
        PROVE  \E k \in (j + 1)..(i - 1) : Settles(rest[k])
    <3>1. j + 1 \in 1..i
      BY <1>2
    <3>2. PICK k \in ((j + 1) + 1)..i : Settles(pipe[k])
      BY <2>2, <2>3, <3>1
    <3>3. k - 1 \in (j + 1)..(i - 1) /\ k - 1 \in 1..(n - 1) /\ (k - 1) + 1 = k
      BY <1>2
    <3>4. Settles(rest[k - 1])
      BY <1>1, <3>2, <3>3
    <3>5. QED
      BY <3>3, <3>4
  <2>4. \A j \in 1..(i - 1) : j \in 0..(i - 1) /\ rest[j] = pipe[j + 1]
    BY <1>1, <1>2
  <2>5. Gauge' => \E k \in 1..(i - 1) : Settles(rest[k])
    <3>1. Gauge' => Sets(pipe[0 + 1]) /\ 0 \in 0..(i - 1)
      BY <1>2, <1>8 DEF f
    <3>2. Gauge' => \E k \in (0 + 1)..(i - 1) : Settles(rest[k])
      BY <2>3, <3>1
    <3>3. QED
      BY <3>2
  <2>6. QED
    BY <2>3, <2>4, <2>5
<1>12. ASSUME NEW m, Announcing(pipe, m), ~RoundIsLive(m)
       PROVE  /\ \A j \in 1..(n - 1) : Sets(rest[j]) => \E k \in (j + 1)..(n - 1) : Settles(rest[k])
              /\ Gauge' => \E k \in 1..(n - 1) : Settles(rest[k])
  <2>1. \A j \in 1..n : Sets(pipe[j]) => \E k \in (j + 1)..n : Settles(pipe[k])
    BY <1>12 DEF Announcing, n
  <2>2. ASSUME NEW j \in 0..(n - 1), Sets(pipe[j + 1])
        PROVE  \E k \in (j + 1)..(n - 1) : Settles(rest[k])
    <3>1. j + 1 \in 1..n
      BY <1>2
    <3>2. PICK k \in ((j + 1) + 1)..n : Settles(pipe[k])
      BY <2>1, <2>2, <3>1
    <3>3. k - 1 \in (j + 1)..(n - 1) /\ k - 1 \in 1..(n - 1) /\ (k - 1) + 1 = k
      BY <1>2
    <3>4. Settles(rest[k - 1])
      BY <1>1, <3>2, <3>3
    <3>5. QED
      BY <3>3, <3>4
  <2>3. \A j \in 1..(n - 1) : j \in 0..(n - 1) /\ rest[j] = pipe[j + 1]
    BY <1>1, <1>2
  <2>4. Gauge' => \E k \in 1..(n - 1) : Settles(rest[k])
    <3>1. Gauge' => Sets(pipe[0 + 1]) /\ 0 \in 0..(n - 1)
      BY <1>1, <1>2, <1>8 DEF f
    <3>2. Gauge' => \E k \in (0 + 1)..(n - 1) : Settles(rest[k])
      BY <2>2, <3>1
    <3>3. QED
      BY <3>2
  <2>5. QED
    BY <2>2, <2>3, <2>4
<1>13. ASSUME NEW i \in 1..(n - 1)
       PROVE  Ahead(socket[s].pipe[i])'
  <2> DEFINE g == rest[i]
  <2>1. /\ i + 1 \in 1..n /\ g = pipe[i + 1] /\ Ahead(g) /\ 1 < i + 1
        /\ g.of \in Moments \union {Null}
    <3>1. i + 1 \in 1..n /\ g = pipe[i + 1]
      BY <1>1
    <3>2. pipe[i + 1].of \in Moments \union {Null}
      BY <3>1, MembersTyped DEF pipe, n
    <3>3. QED
      BY <1>5, <3>1, <3>2
  <2>2. /\ g.type = "welcome" => late
        /\ g.type # "welcome" /\ f.of # Null =>
             \/ Earlier(f.of, g.of)
             \/ /\ f.type = "prediction" /\ g.type = "tick"
                /\ f.of = g.of
    BY <1>1, <1>5, <2>1 DEF InOrder, Follows, f, n
  <2> HIDE DEF g
  <2>3. CASE g.type = "welcome"
    BY <1>1, <2>2, <2>3 DEF Ahead, g, rest
  <2>4. CASE g.type # "welcome"
    <3>1. /\ g.of # Null /\ (g.type = "prediction" => g.of.live)
          /\ UpTo(shown.snapshot, g.of) /\ UpTo(shown.prediction, g.of)
          /\ \A k \in 1..Len(shown.history) :
               \/ Earlier(shown.history[k], g.of)
               \/ g.type = "tick" /\ shown.history[k] = g.of
          /\ \A k \in 1..Len(shown.rounds) : Earlier(shown.rounds[k], g.of)
      BY <2>1, <2>4 DEF Ahead
    <3>2. f.of # Null => Earlier(f.of, g.of) \/ (f.type = "prediction" /\ g.type = "tick" /\ f.of = g.of)
      BY <2>2, <2>4
    <3>3. f.of # Null => ~Earlier(g.of, f.of)
      BY <1>2, <2>1, <3>1, <3>2, EarlierOrder DEF Moments
    <3>4. UpTo(shown'.snapshot, g.of) /\ UpTo(shown'.prediction, g.of)
      BY <1>4, <3>1, <3>3 DEF UpTo
    <3>5. \A k \in 1..Len(shown'.history) :
            Earlier(shown'.history[k], g.of) \/ (g.type = "tick" /\ shown'.history[k] = g.of)
      BY <1>2, <1>4, <3>1, <3>2, FreeIsTyped
    <3>6. \A k \in 1..Len(shown'.rounds) : Earlier(shown'.rounds[k], g.of)
      BY <1>2, <1>4, <3>1, <3>2, FreeIsTyped
    <3>7. QED
      BY <2>4, <3>1, <3>4, <3>5, <3>6 DEF Ahead, UpTo, g, rest
  <2>5. QED
    BY <2>3, <2>4
<1>14. ASSUME NEW t \in Slots
       PROVE  /\ InOrder(socket[t].pipe)' /\ Announced(socket[t].pipe)'
              /\ \A i \in 1..Len(socket'[t].pipe) : Ahead(socket[t].pipe[i])'
              /\ socket'[t].state = "open" /\ ~socket'[t].lost => Announcing(socket[t].pipe, at)'
  <2>1. CASE t = s
    <3>1. InOrder(socket[t].pipe)'
      BY <1>1, <1>10, <2>1 DEF InOrder, Follows, rest
    <3>2. Announced(socket[t].pipe)'
      BY <1>1, <1>11, <2>1 DEF Announced, rest
    <3>3. \A i \in 1..Len(socket'[t].pipe) : Ahead(socket[t].pipe[i])'
      BY <1>1, <1>13, <2>1 DEF rest
    <3>4. ASSUME socket'[t].state = "open", ~socket'[t].lost
          PROVE  Announcing(socket[t].pipe, at)'
      <4>1. Announcing(pipe, at)
        BY <1>1, <2>1, <3>4 DEF ShownInv, pipe
      <4>2. RoundIsLive(at') <=> RoundIsLive(at)
        BY <1>1
      <4>3. QED
        BY <1>1, <1>12, <2>1, <4>1, <4>2 DEF Announcing, rest
    <3>5. QED
      BY <3>1, <3>2, <3>3, <3>4
  <2>2. CASE t # s
    <3>1. socket'[t].pipe = <<>> /\ socket'[t].state # "open"
      BY <1>1, <2>2
    <3>2. QED
      BY <3>1 DEF InOrder, Announced
  <2>3. QED
    BY <2>1, <2>2
<1>15. QED
  BY <1>4, <1>6, <1>7, <1>9, <1>14 DEF ShownInv

(***************************************************************************)
(* In a script the round is live after a scored tick, and it is not live   *)
(* before a tick that is not scored, or where a match begins.              *)
(***************************************************************************)
LEMMA RoundsOfScript ==
  ASSUME NEW n \in 1..Len(Script)
  PROVE  /\ Script[n].type = "tick" /\ ~Script[n].live => ~RoundIsLive(n)
         /\ Script[n].live => n < Len(Script) /\ RoundIsLive(n + 1)
<1>1. Len(Script) \in Nat /\ n \in Nat /\ 1 <= n /\ n <= Len(Script)
  BY ScriptAssumption
<1>2. ASSUME Script[n].type = "tick", ~Script[n].live, RoundIsLive(n)
      PROVE  FALSE
  <2>1. PICK i \in 1..(n - 1) :
          Script[i].live /\ \A j \in (i + 1)..(n - 1) : Script[j].type = "tick"
    BY <1>2 DEF RoundIsLive
  <2>2. i \in 1..Len(Script) /\ n \in (i + 1)..Len(Script)
    BY <1>1
  <2>3. \E j \in (i + 1)..(n - 1) : Script[j].type # "tick"
    BY <1>2, <2>1, <2>2, ScriptAssumption
  <2>4. QED
    BY <2>1, <2>3
<1>3. ASSUME Script[n].live
      PROVE  n < Len(Script) /\ RoundIsLive(n + 1)
  <2>1. \E j \in (n + 1)..Len(Script) : Script[j].type # "tick"
    BY <1>3, ScriptAssumption
  <2>2. n < Len(Script)
    BY <1>1, <2>1
  <2>3. n \in 1..((n + 1) - 1) /\ \A j \in (n + 1)..((n + 1) - 1) : FALSE
    BY <1>1
  <2>4. RoundIsLive(n + 1)
    BY <1>3, <2>3 DEF RoundIsLive
  <2>5. QED
    BY <2>2, <2>4
<1>4. QED
  BY <1>2, <1>3

(***************************************************************************)
(* The event that is played lies between what was sent and where the       *)
(* server is then.                                                         *)
(***************************************************************************)
LEMMA PlayedInOrder ==
  ASSUME DashInv, PlayEvent
  PROVE  /\ Moment \in Moments /\ Earlier(Moment, Now') /\ ~Earlier(Moment, Moment)
         /\ \A e \in Moments : Earlier(e, Now) =>
              Earlier(e, Now') /\ Earlier(e, Moment) /\ ~Earlier(Moment, e)
<1>1. /\ play \in Nat /\ at \in Nat /\ Moment \in Moments
      /\ at' = (IF at = Len(Script) THEN 1 ELSE at + 1)
      /\ play' = (IF at = Len(Script) THEN play + 1 ELSE play)
  BY PlayedToPipes, EventIsTyped DEF DashInv, DashTypeOK
<1>2. QED
  BY <1>1 DEF Earlier, Now, Moment, Moments

(***************************************************************************)
(* The frames of an event behind those of a pipe.                          *)
(***************************************************************************)
LEMMA JoinedPipe ==
  ASSUME NEW pipe \in Seq(Frames), NEW frames \in Seq(Frames)
  PROVE  /\ Len(pipe \o frames) = Len(pipe) + Len(frames)
         /\ \A i \in 1..Len(pipe) : (pipe \o frames)[i] = pipe[i]
         /\ \A i \in 1..Len(frames) :
              Len(pipe) + i \in 1..Len(pipe \o frames) /\ (pipe \o frames)[Len(pipe) + i] = frames[i]
         /\ \A i \in 1..Len(pipe \o frames) :
              i \in 1..Len(pipe) \/ \E k \in 1..Len(frames) : i = Len(pipe) + k
<1>1. Len(pipe \o frames) = Len(pipe) + Len(frames)
  OBVIOUS
<1>2. \A i \in 1..Len(pipe) : (pipe \o frames)[i] = pipe[i]
  OBVIOUS
<1>3. ASSUME NEW i \in 1..Len(frames)
      PROVE  Len(pipe) + i \in 1..Len(pipe \o frames) /\ (pipe \o frames)[Len(pipe) + i] = frames[i]
  BY <1>1
<1>4. ASSUME NEW i \in 1..Len(pipe \o frames), i \notin 1..Len(pipe)
      PROVE  \E k \in 1..Len(frames) : i = Len(pipe) + k
  <2>1. i - Len(pipe) \in 1..Len(frames) /\ i = Len(pipe) + (i - Len(pipe))
    BY <1>1, <1>4
  <2>2. QED
    BY <2>1
<1>5. QED
  BY <1>1, <1>2, <1>3, <1>4

(***************************************************************************)
(* The pipe of a socket that hears the event.                              *)
(***************************************************************************)
LEMMA PlayedPipe ==
  ASSUME DashInv, ShownInv, PlayEvent, NEW s \in Slots,
         socket[s].state = "open", ~socket[s].lost,
         NEW frames \in FramesOf(Script[at], Moment), NEW longer,
         longer = socket[s].pipe \o frames
  PROVE  /\ InOrder(longer) /\ Announced(longer)
         /\ ~RoundIsLive(at') =>
              /\ \A j \in 1..Len(longer) : Sets(longer[j]) =>
                   \E k \in (j + 1)..Len(longer) : Settles(longer[k])
              /\ Gauge => \E k \in 1..Len(longer) : Settles(longer[k])
         /\ \A i \in 1..Len(longer) : Ahead(longer[i])
         /\ \A i \in 1..Len(longer) :
              longer[i] \in {socket[s].pipe[j] : j \in 1..Len(socket[s].pipe)}
                \/ \E j \in 1..Len(frames) : longer[i] = frames[j]
<1> DEFINE pipe == socket[s].pipe
           n == Len(pipe)
           m == Len(frames)
<1>1. /\ pipe \in Seq(Frames) /\ n \in Nat
      /\ \A i \in 1..n : pipe[i].of \in Moments \union {Null}
  <2>1. pipe \in Seq(Frames)
    BY MembersTyped
  <2>2. \A i \in 1..n : pipe[i].of \in Moments \union {Null}
    BY MembersTyped
  <2>3. QED
    BY <2>1, <2>2
<1>2. /\ frames \in Seq(Frames) /\ m \in Nat
      /\ \A i \in 1..m :
           /\ frames[i].of = Moment
           /\ Script[at].type = "tick" => frames[i].type \in {"prediction", "tick"}
           /\ frames[i].type = "prediction" => Moment.live
           /\ frames[i].type # "welcome"
      /\ \A i, j \in 1..m : i < j => frames[i].type = "prediction" /\ frames[j].type = "tick"
      /\ Script[at].type # "tick" => frames = <<[type |-> Script[at].type, of |-> Moment]>>
  BY FramesOfEvent DEF DashInv
<1>3. /\ Len(longer) = n + m
      /\ \A i \in 1..n : longer[i] = pipe[i]
      /\ \A i \in 1..m : n + i \in 1..(n + m) /\ longer[n + i] = frames[i]
      /\ \A i \in 1..(n + m) : i \in 1..n \/ \E k \in 1..m : i = n + k
  BY <1>1, <1>2, JoinedPipe
<1>4. InOrder(pipe) /\ Announced(pipe) /\ Announcing(pipe, at) /\ \A i \in 1..n : Ahead(pipe[i])
  BY DEF ShownInv
<1>5. /\ Moment \in Moments /\ Moment # Null
      /\ \A e \in Moments \union {Null} : e # Null /\ Past(e) =>
           Earlier(e, Moment) /\ ~Earlier(Moment, e)
  BY PlayedInOrder, FreeIsTyped DEF Past
<1>6. Moment.live = Script[at].live /\ (Script[at].live => Script[at].type = "tick")
      /\ Script[at].type \in {"tick", "round_end", "match_end"} /\ at \in 1..Len(Script)
  BY EventIsTyped DEF Moment, DashInv, DashTypeOK
<1> HIDE DEF pipe, n, m
<1>7. InOrder(longer)
  <2>1. SUFFICES ASSUME NEW i \in 1..(n + m), NEW j \in 1..(n + m), i < j
                 PROVE  Follows(longer[j], longer[i])
    BY <1>3 DEF InOrder
  <2>2. CASE j \in 1..n
    <3>1. i \in 1..n
      BY <1>1, <1>2, <2>1, <2>2
    <3>2. QED
      BY <1>3, <1>4, <2>1, <2>2, <3>1 DEF InOrder, n
  <2>3. CASE j \notin 1..n
    <3>1. PICK k \in 1..m : j = n + k
      BY <1>3, <2>3
    <3>2. longer[j] = frames[k] /\ frames[k].of = Moment /\ frames[k].type # "welcome"
      BY <1>2, <1>3, <3>1
    <3>3. CASE i \in 1..n
      <4>1. longer[i] = pipe[i] /\ Past(pipe[i].of) /\ pipe[i].of \in Moments \union {Null}
        BY <1>1, <1>3, <3>3 DEF ShownInv, EverythingPast, pipe, n
      <4>2. QED
        BY <1>5, <3>2, <4>1 DEF Follows
    <3>4. CASE i \notin 1..n
      <4>1. PICK h \in 1..m : i = n + h
        BY <1>3, <3>4
      <4>2. h < k
        BY <1>1, <1>2, <2>1, <3>1, <4>1
      <4>3. longer[i] = frames[h] /\ frames[h].of = Moment
            /\ frames[h].type = "prediction" /\ frames[k].type = "tick"
        BY <1>2, <1>3, <4>1, <4>2
      <4>4. QED
        BY <3>2, <4>3 DEF Follows
    <3>5. QED
      BY <3>3, <3>4
  <2>4. QED
    BY <2>2, <2>3
<1>8. ~Script[at].live /\ Script[at].type = "tick" =>
        /\ \A j \in 1..n : Sets(longer[j]) => \E k \in (j + 1)..n : Settles(longer[k])
        /\ Gauge => \E k \in 1..n : Settles(longer[k])
  <2>1. SUFFICES ASSUME ~Script[at].live, Script[at].type = "tick"
                 PROVE  /\ \A j \in 1..n : Sets(longer[j]) => \E k \in (j + 1)..n : Settles(longer[k])
                        /\ Gauge => \E k \in 1..n : Settles(longer[k])
    OBVIOUS
  <2>2. ~RoundIsLive(at)
    BY <1>6, <2>1, RoundsOfScript
  <2>3. /\ \A j \in 1..n : Sets(pipe[j]) => \E k \in (j + 1)..n : Settles(pipe[k])
        /\ Gauge => \E k \in 1..n : Settles(pipe[k])
    BY <1>4, <2>2 DEF Announcing, n
  <2>4. \A j \in 1..n : \A k \in (j + 1)..n : k \in 1..n
    BY <1>1
  <2>5. QED
    BY <1>3, <2>3, <2>4
<1>9. Announced(longer)
  <2>1. SUFFICES ASSUME NEW i \in 1..(n + m), Dead(longer[i])
                 PROVE  /\ \A j \in 1..(i - 1) : Sets(longer[j]) =>
                             \E k \in (j + 1)..(i - 1) : Settles(longer[k])
                        /\ Gauge => \E k \in 1..(i - 1) : Settles(longer[k])
    BY <1>3 DEF Announced
  <2>2. CASE i \in 1..n
    <3>1. \A k \in 1..(i - 1) : k \in 1..n
      BY <1>1, <2>2
    <3>2. \A j \in 1..(i - 1) : \A k \in (j + 1)..(i - 1) : k \in 1..n
      BY <1>1, <2>2
    <3>3. Dead(pipe[i])
      BY <1>3, <2>1, <2>2
    <3>4. /\ \A j \in 1..(i - 1) : Sets(pipe[j]) => \E k \in (j + 1)..(i - 1) : Settles(pipe[k])
          /\ Gauge => \E k \in 1..(i - 1) : Settles(pipe[k])
      BY <1>4, <2>2, <3>3 DEF Announced, n
    <3>5. QED
      BY <1>3, <3>1, <3>2, <3>4
  <2>3. CASE i \notin 1..n
    <3>1. PICK h \in 1..m : i = n + h
      BY <1>3, <2>3
    <3>2. Dead(frames[h])
      BY <1>3, <2>1, <3>1
    <3>3. ~Script[at].live
      BY <1>2, <1>6, <3>1, <3>2 DEF Dead
    <3>4. Script[at].type = "tick"
      <4>1. SUFFICES ASSUME Script[at].type # "tick" PROVE FALSE
        OBVIOUS
      <4>2. frames = <<[type |-> Script[at].type, of |-> Moment]>>
        BY <1>2, <4>1
      <4>3. h = 1 /\ frames[1].type = Script[at].type
        BY <4>2 DEF m
      <4>4. QED
        BY <3>2, <4>1, <4>3 DEF Dead
    <3>5. h = 1
      <4>1. SUFFICES ASSUME h # 1 PROVE FALSE
        OBVIOUS
      <4>2. 1 \in 1..m /\ 1 < h
        BY <1>2, <4>1
      <4>3. frames[1].type = "prediction"
        BY <1>2, <4>2
      <4>4. QED
        BY <1>2, <1>6, <3>3, <4>2, <4>3
    <3>6. i - 1 = n
      BY <1>1, <3>1, <3>5
    <3>7. QED
      BY <1>8, <3>3, <3>4, <3>6
  <2>4. QED
    BY <2>2, <2>3
<1>10. ASSUME ~RoundIsLive(at')
       PROVE  /\ \A j \in 1..(n + m) : Sets(longer[j]) =>
                   \E k \in (j + 1)..(n + m) : Settles(longer[k])
              /\ Gauge => \E k \in 1..(n + m) : Settles(longer[k])
  <2>1. ~Script[at].live
    <3>1. SUFFICES ASSUME Script[at].live PROVE FALSE
      OBVIOUS
    <3>2. at < Len(Script) /\ RoundIsLive(at + 1)
      BY <1>6, <3>1, RoundsOfScript
    <3>3. at' = at + 1
      BY <3>2, PlayedToPipes
    <3>4. QED
      BY <1>10, <3>2, <3>3
  <2>2. CASE Script[at].type = "tick"
    <3>1. /\ \A j \in 1..n : Sets(longer[j]) => \E k \in (j + 1)..n : Settles(longer[k])
          /\ Gauge => \E k \in 1..n : Settles(longer[k])
      BY <1>8, <2>1, <2>2
    <3>2. \A h \in 1..m : ~Sets(frames[h])
      BY <1>2, <1>6, <2>1 DEF Sets
    <3>3. \A j \in 1..(n + m) : Sets(longer[j]) => j \in 1..n
      BY <1>3, <3>2
    <3>4. 1..n \subseteq 1..(n + m)
      BY <1>1, <1>2
    <3>5. \A j \in 1..n : (j + 1)..n \subseteq (j + 1)..(n + m)
      BY <1>1, <1>2
    <3>6. QED
      BY <3>1, <3>3, <3>4, <3>5
  <2>3. CASE Script[at].type # "tick"
    <3>1. frames = <<[type |-> Script[at].type, of |-> Moment]>>
      BY <1>2, <2>3
    <3>2. m = 1 /\ frames[1].type \in {"round_end", "match_end"} /\ 1 \in 1..m
      BY <1>6, <2>3, <3>1 DEF m
    <3>3. longer[n + 1] = frames[1] /\ n + 1 \in 1..(n + m)
      BY <1>3, <3>2
    <3>4. Settles(longer[n + 1]) /\ ~Sets(longer[n + 1])
      BY <3>2, <3>3 DEF Settles, Sets
    <3>5. \A j \in 1..(n + m) : j # n + 1 => n + 1 \in (j + 1)..(n + m)
      BY <1>1, <3>2
    <3>6. QED
      BY <3>3, <3>4, <3>5
  <2>4. QED
    BY <2>2, <2>3
<1>11. ASSUME NEW i \in 1..(n + m)
       PROVE  /\ Ahead(longer[i])
              /\ longer[i] \in {pipe[j] : j \in 1..n} \/ \E j \in 1..m : longer[i] = frames[j]
  <2>1. CASE i \in 1..n
    BY <1>3, <1>4, <2>1
  <2>2. CASE i \notin 1..n
    <3>1. PICK h \in 1..m : i = n + h
      BY <1>3, <2>2
    <3>2. longer[i] = frames[h] /\ frames[h].of = Moment /\ frames[h].type # "welcome"
          /\ (frames[h].type = "prediction" => Moment.live)
      BY <1>2, <1>3, <3>1
    <3>3. UpTo(shown.snapshot, Moment) /\ UpTo(shown.prediction, Moment)
      BY <1>5, MembersTyped DEF ShownInv, EverythingPast, UpTo
    <3>4. /\ \A k \in 1..Len(shown.history) : Earlier(shown.history[k], Moment)
          /\ \A k \in 1..Len(shown.rounds) : Earlier(shown.rounds[k], Moment)
      BY PlayedInOrder, MembersTyped DEF ShownInv, EverythingPast
    <3>5. QED
      BY <1>5, <3>2, <3>3, <3>4 DEF Ahead
  <2>3. QED
    BY <2>1, <2>2
<1>12. QED
  BY <1>3, <1>7, <1>9, <1>10, <1>11 DEF pipe, n, m

(***************************************************************************)
(* The server plays an event.                                              *)
(***************************************************************************)
LEMMA ShownPlayed ==
  ASSUME DashInv, ShownInv, PlayEvent
  PROVE  ShownInv'
<1> DEFINE Hears(s) == socket[s].state = "open" /\ ~socket[s].lost
<1>1. PICK frames \in FramesOf(Script[at], Moment) :
        \A s \in Slots : \E pipe \in Seq(Frames) :
          /\ socket'[s] = [socket[s] EXCEPT !.pipe = pipe]
          /\ pipe = IF Hears(s) THEN socket[s].pipe \o frames ELSE socket[s].pipe
  BY PlayedToPipes
<1>2. /\ UNCHANGED <<shown, late, fresh>>
      /\ kept' = (IF Script[at].type = "tick" THEN Moment ELSE kept)
  BY PlayedToPipes
<1>3. ASSUME NEW s \in Slots
      PROVE  /\ socket'[s].pipe = IF Hears(s) THEN socket[s].pipe \o frames ELSE socket[s].pipe
             /\ socket'[s].held = socket[s].held
             /\ socket'[s].state = socket[s].state /\ socket'[s].lost = socket[s].lost
  <2>1. PICK pipe \in Seq(Frames) :
          /\ socket'[s] = [socket[s] EXCEPT !.pipe = pipe]
          /\ pipe = IF Hears(s) THEN socket[s].pipe \o frames ELSE socket[s].pipe
    BY <1>1
  <2>2. socket[s] \in Sockets
    BY MembersTyped
  <2> HIDE DEF Hears
  <2>3. QED
    BY <2>1, <2>2 DEF Sockets
<1>4. Gauge' = Gauge
  BY <1>2 DEF Gauge
<1>5. /\ Moment \in Moments /\ Earlier(Moment, Now') /\ ~Earlier(Moment, Moment)
      /\ \A e \in Moments : Earlier(e, Now) => Earlier(e, Now') /\ ~Earlier(Moment, e)
  BY PlayedInOrder
<1>6. \A i \in 1..Len(frames) :
        /\ frames[i].of = Moment
        /\ Script[at].type # "tick" => ~OfTick(frames[i])
  <2>1. SUFFICES ASSUME NEW i \in 1..Len(frames), Script[at].type # "tick" PROVE ~OfTick(frames[i])
    BY FramesOfEvent DEF DashInv
  <2>2. frames = <<[type |-> Script[at].type, of |-> Moment]>>
    BY <2>1, FramesOfEvent DEF DashInv
  <2>3. i = 1 /\ frames[i].type = Script[at].type
    BY <2>2
  <2>4. Script[at].type \in {"round_end", "match_end"}
    BY <2>1, EventIsTyped DEF DashInv
  <2>5. QED
    BY <2>3, <2>4 DEF OfTick
<1>7. ASSUME NEW s \in Slots, NEW i \in 1..Len(socket'[s].pipe)
      PROVE  \/ \E j \in 1..Len(socket[s].pipe) : socket'[s].pipe[i] = socket[s].pipe[j]
             \/ \E j \in 1..Len(frames) : socket'[s].pipe[i] = frames[j]
  <2>1. CASE Hears(s)
    <3>1. socket'[s].pipe = socket[s].pipe \o frames
      BY <1>3, <2>1
    <3>2. socket'[s].pipe[i] \in {socket[s].pipe[j] : j \in 1..Len(socket[s].pipe)}
            \/ \E j \in 1..Len(frames) : socket'[s].pipe[i] = frames[j]
      BY <2>1, <3>1, PlayedPipe
    <3>3. QED
      BY <3>2
  <2>2. CASE ~Hears(s)
    BY <1>3, <1>7, <2>2
  <2>3. QED
    BY <2>1, <2>2
<1>8. EverythingPast'
  <2>1. /\ Past(shown.snapshot)' /\ Past(shown.prediction)'
        /\ \A i \in 1..Len(shown'.history) : Earlier(shown'.history[i], Now')
        /\ \A i \in 1..Len(shown'.rounds) : Earlier(shown'.rounds[i], Now')
    BY <1>2, <1>5, MembersTyped DEF ShownInv, EverythingPast, Past
  <2>2. Past(kept)'
    BY <1>2, <1>5, MembersTyped DEF ShownInv, EverythingPast, Past
  <2>3. ASSUME NEW s \in Slots
        PROVE  /\ Past(socket[s].held)'
               /\ \A i \in 1..Len(socket'[s].pipe) : Past(socket[s].pipe[i].of)'
    <3>1. Past(socket[s].held)'
      BY <1>3, <1>5, MembersTyped DEF ShownInv, EverythingPast, Past
    <3>2. \A j \in 1..Len(socket[s].pipe) :
            socket[s].pipe[j].of # Null => Earlier(socket[s].pipe[j].of, Now')
      <4>1. ASSUME NEW j \in 1..Len(socket[s].pipe), socket[s].pipe[j].of # Null
            PROVE  Earlier(socket[s].pipe[j].of, Now')
        <5>1. socket[s].pipe[j].of \in Moments
          BY <4>1, MembersTyped
        <5>2. Earlier(socket[s].pipe[j].of, Now)
          BY <4>1 DEF ShownInv, EverythingPast, Past
        <5>3. QED
          BY <1>5, <5>1, <5>2
      <4>2. QED
        BY <4>1
    <3>3. \A i \in 1..Len(socket'[s].pipe) :
            socket'[s].pipe[i].of # Null => Earlier(socket'[s].pipe[i].of, Now')
      <4>1. \A j \in 1..Len(frames) : Earlier(frames[j].of, Now')
        BY <1>5, <1>6
      <4>2. ASSUME NEW i \in 1..Len(socket'[s].pipe), socket'[s].pipe[i].of # Null
            PROVE  Earlier(socket'[s].pipe[i].of, Now')
        <5>1. CASE \E j \in 1..Len(socket[s].pipe) : socket'[s].pipe[i] = socket[s].pipe[j]
          BY <3>2, <4>2, <5>1
        <5>2. CASE \E j \in 1..Len(frames) : socket'[s].pipe[i] = frames[j]
          BY <4>1, <5>2
        <5>3. QED
          BY <1>7, <5>1, <5>2
      <4>3. QED
        BY <4>2
    <3>4. QED
      BY <3>1, <3>3 DEF Past
  <2>4. QED
    BY <2>1, <2>2, <2>3 DEF EverythingPast
<1>9. NewestKept'
  <2>1. CASE Script[at].type = "tick"
    <3>1. kept' = Moment
      BY <1>2, <2>1
    <3>2. UpTo(shown.snapshot, Moment) /\ UpTo(shown.prediction, Moment)
      BY <1>5, MembersTyped DEF ShownInv, EverythingPast, Past, UpTo
    <3>3. ASSUME NEW s \in Slots, NEW j \in 1..Len(socket[s].pipe)
          PROVE  UpTo(socket[s].pipe[j].of, Moment)
      <4>1. socket[s].pipe[j].of \in Moments \union {Null}
        BY MembersTyped
      <4>2. Past(socket[s].pipe[j].of)
        BY DEF ShownInv, EverythingPast
      <4>3. QED
        BY <1>5, <4>1, <4>2 DEF Past, UpTo
    <3>4. UpTo(Moment, Moment)
      BY <1>5 DEF UpTo
    <3>5. ASSUME NEW s \in Slots, NEW i \in 1..Len(socket'[s].pipe)
          PROVE  UpTo(socket'[s].pipe[i].of, Moment)
      <4>1. CASE \E j \in 1..Len(socket[s].pipe) : socket'[s].pipe[i] = socket[s].pipe[j]
        BY <3>3, <4>1
      <4>2. CASE \E j \in 1..Len(frames) : socket'[s].pipe[i] = frames[j]
        BY <1>6, <3>4, <4>2
      <4>3. QED
        BY <1>7, <4>1, <4>2
    <3>6. QED
      BY <1>2, <3>1, <3>2, <3>5 DEF NewestKept, UpTo
  <2>2. CASE Script[at].type # "tick"
    <3>1. kept' = kept
      BY <1>2, <2>2
    <3>2. SUFFICES ASSUME ~late, kept # Null PROVE NewestKept'
      BY <1>2, <3>1 DEF NewestKept
    <3>3. /\ UpTo(shown.snapshot, kept) /\ UpTo(shown.prediction, kept)
          /\ \A s \in Slots : \A i \in 1..Len(socket[s].pipe) :
               OfTick(socket[s].pipe[i]) => UpTo(socket[s].pipe[i].of, kept)
      BY <3>2 DEF ShownInv, NewestKept
    <3>4. ASSUME NEW s \in Slots, NEW i \in 1..Len(socket'[s].pipe), OfTick(socket'[s].pipe[i])
          PROVE  UpTo(socket'[s].pipe[i].of, kept)
      BY <1>6, <1>7, <2>2, <3>3, <3>4
    <3>5. QED
      BY <1>2, <3>1, <3>3, <3>4 DEF NewestKept, UpTo
  <2>3. QED
    BY <2>1, <2>2
<1>10. GaugeIsNew'
  BY <1>2, <1>4 DEF ShownInv, GaugeIsNew, UpTo
<1>11. ASSUME NEW s \in Slots
       PROVE  /\ InOrder(socket[s].pipe)' /\ Announced(socket[s].pipe)'
              /\ \A i \in 1..Len(socket'[s].pipe) : Ahead(socket[s].pipe[i])'
              /\ socket'[s].state = "open" /\ ~socket'[s].lost => Announcing(socket[s].pipe, at)'
  <2> DEFINE after == socket'[s].pipe
  <2>1. /\ InOrder(after) /\ Announced(after)
        /\ \A i \in 1..Len(after) : Ahead(after[i])
    <3>1. CASE Hears(s)
      <4>1. after = socket[s].pipe \o frames
        BY <1>3, <3>1
      <4>2. QED
        BY <3>1, <4>1, PlayedPipe
    <3>2. CASE ~Hears(s)
      <4>1. after = socket[s].pipe
        BY <1>3, <3>2
      <4>2. QED
        BY <4>1 DEF ShownInv
    <3>3. QED
      BY <3>1, <3>2
  <2>2. Hears(s) /\ ~RoundIsLive(at') =>
          /\ \A j \in 1..Len(after) : Sets(after[j]) =>
               \E k \in (j + 1)..Len(after) : Settles(after[k])
          /\ Gauge => \E k \in 1..Len(after) : Settles(after[k])
    <3>1. SUFFICES ASSUME Hears(s), ~RoundIsLive(at')
                   PROVE  /\ \A j \in 1..Len(after) : Sets(after[j]) =>
                               \E k \in (j + 1)..Len(after) : Settles(after[k])
                          /\ Gauge => \E k \in 1..Len(after) : Settles(after[k])
      OBVIOUS
    <3>2. after = socket[s].pipe \o frames
      BY <1>3, <3>1
    <3>3. QED
      BY <3>1, <3>2, PlayedPipe
  <2>3. InOrder(socket[s].pipe)'
    BY <1>2, <2>1 DEF InOrder, Follows
  <2>4. Announced(socket[s].pipe)'
    BY <1>4, <2>1 DEF Announced
  <2>5. \A i \in 1..Len(socket'[s].pipe) : Ahead(socket[s].pipe[i])'
    <3>1. SUFFICES ASSUME NEW i \in 1..Len(after) PROVE Ahead(socket[s].pipe[i])'
      OBVIOUS
    <3>2. Ahead(after[i])
      BY <2>1
    <3>3. QED
      BY <1>2, <3>2 DEF Ahead, UpTo
  <2>6. socket'[s].state = "open" /\ ~socket'[s].lost => Announcing(socket[s].pipe, at)'
    BY <1>3, <1>4, <2>2 DEF Announcing, RoundIsLive
  <2>7. QED
    BY <2>3, <2>4, <2>5, <2>6
<1>12. QED
  BY <1>2, <1>8, <1>9, <1>10, <1>11 DEF ShownInv

-----------------------------------------------------------------------------
LEMMA DashStepInv ==
  ASSUME DashInv, ShownInv, [DashNext]_dashVars
  PROVE  DashInv' /\ ShownInv'
<1>1. CASE \E s \in Slots : Receive(s) \/ SendWelcome(s)
  BY <1>1, ConnectionFrames, ShownReceive, ShownWelcome
<1>2. CASE \E s \in Slots : Opened(s) \/ Closed(s) \/ ClosedLate(s) \/ Break(s) \/ ReadSnapshot(s)
  BY <1>2, ConnectionSocket, ShownOpened, QuietSteps
<1>3. CASE PlayEvent \/ ServerStarts
  BY <1>3, ConnectionServer, ShownPlayed, ShownStarts
<1>4. CASE ServerStops
  <2>1. DashInv'
    BY <1>4, ConnectionServer
  <2>2. ShownInv'
    <3>1. CASE Slots = {}
      BY <1>4, <3>1 DEF ServerStops, ShownInv, EverythingPast, Past, Now, NewestKept, UpTo, GaugeIsNew, Gauge
    <3>2. CASE Slots # {}
      BY <1>4, <3>2, QuietSteps
    <3>3. QED
      BY <3>1, <3>2
  <2>3. QED
    BY <2>1, <2>2
<1>5. CASE Enable \/ Disable \/ Reconnect \/ Retry
  <2>1. DashInv'
    BY <1>5, ConnectionHook
  <2>2. ShownInv'
    <3>1. CASE Slots = {}
      <4>1. /\ UNCHANGED <<shown, late, play, at, kept>> /\ (fresh' => fresh)
        BY <1>5 DEF Enable, Disable, Reconnect, Retry, serverVars
      <4>2. QED
        BY <3>1, <4>1, ShownQuiet
    <3>2. CASE Slots # {}
      BY <1>5, <3>2, QuietSteps
    <3>3. QED
      BY <3>1, <3>2
  <2>3. QED
    BY <2>1, <2>2
<1>6. CASE UNCHANGED dashVars
  <2>1. UNCHANGED <<wanted, socket, current, timer, status, shown, late, up, play, at, kept, fresh>>
    BY <1>6 DEF dashVars, hookVars, serverVars
  <2>2. DashInv'
    BY <2>1 DEF DashInv, DashTypeOK, OneConnection, QuietUnlessOpen, FreshIsOpen
  <2>3. QED
    BY <2>1, <2>2, ShownQuiet
<1>7. QED
  BY <1>1, <1>2, <1>3, <1>4, <1>5, <1>6 DEF DashNext, Hook, Server

(***************************************************************************)
(* One connection at a time, and what is shown and in flight is in order.  *)
(***************************************************************************)
THEOREM DashInvariant == DashSpec => [](DashInv /\ ShownInv)
<1>1. DashInv /\ ShownInv /\ [DashNext]_dashVars => (DashInv /\ ShownInv)'
  BY DashStepInv
<1>2. QED
  BY <1>1, DashInitInv, PTL DEF DashSpec

(***************************************************************************)
(* useWebSocket.ts: reconnect(), the retry timer, late closes and toggles  *)
(* leave one socket, which is the current one, or one retry to come.       *)
(***************************************************************************)
THEOREM OneConnectionAlways == DashSpec => []OneConnection
<1>1. DashInv /\ ShownInv => OneConnection
  BY DEF DashInv
<1>2. QED
  BY <1>1, DashInvariant, PTL

(***************************************************************************)
(* What is shown changes with a frame only, and not to something earlier.  *)
(***************************************************************************)
LEMMA StepsForward ==
  ASSUME DashInv, ShownInv, [DashNext]_dashVars
  PROVE  [NoStepBack]_dashVars
<1>1. CASE \E s \in Slots : Receive(s)
  <2>1. PICK s \in Slots : Receive(s)
    BY <1>1
  <2> DEFINE f == socket[s].pipe[1]
  <2>2. f \in Frames /\ Ahead(f) /\ shown' = Reduce(f)
    BY <2>1, HeadIsShown
  <2>3. f.of \in Moments \union {Null}
    BY <2>2 DEF Frames
  <2>4. /\ shown'.snapshot \in {shown.snapshot, f.of}
        /\ shown'.prediction \in {shown.prediction, f.of, Null}
    BY <2>2, ReduceShows
  <2>5. ~late /\ f.of # Null => UpTo(shown.snapshot, f.of) /\ UpTo(shown.prediction, f.of)
    BY <2>2 DEF Ahead
  <2>6. \A e \in Moments : ~Earlier(e, e)
    BY EarlierOrder DEF Moments
  <2>7. QED
    BY <2>3, <2>4, <2>5, <2>6, MembersTyped DEF NoStepBack, UpTo
<1>2. CASE ~\E s \in Slots : Receive(s)
  <2>1. shown' = shown
    BY <1>2 DEF DashNext, Hook, Server, Enable, Disable, Reconnect, Retry, Opened, Closed, ClosedLate,
                PlayEvent, ServerStops, ServerStarts, ReadSnapshot, SendWelcome, Break, dashVars
  <2>2. \A e \in Moments : ~Earlier(e, e)
    BY EarlierOrder DEF Moments
  <2>3. QED
    BY <2>1, <2>2, MembersTyped DEF NoStepBack
<1>3. QED
  BY <1>1, <1>2

(***************************************************************************)
(* useMatchStream.ts: readings and rounds ascend over any number of        *)
(* connections, a fresh gauge is of the round that goes on, and nothing    *)
(* that is shown steps back.                                               *)
(***************************************************************************)
THEOREM FramesShownInOrder == DashSpec => ShownInOrder
<1>1. DashInv /\ ShownInv => Ascends(shown.history) /\ Ascends(shown.rounds)
  BY DEF ShownInv
<1>2. DashInv /\ ShownInv =>
        (fresh /\ shown.prediction # Null =>
           /\ shown.snapshot # Null => ~Earlier(shown.prediction, shown.snapshot)
           /\ \A i \in 1..Len(shown.rounds) : Earlier(shown.rounds[i], shown.prediction))
  BY DEF ShownInv, GaugeIsNew, Gauge, UpTo
<1>3. DashInv /\ ShownInv /\ [DashNext]_dashVars => [NoStepBack]_dashVars
  BY StepsForward
<1>4. QED
  BY <1>1, <1>2, <1>3, DashInvariant, PTL DEF DashSpec, ShownInOrder

=============================================================================
