---------------------------- MODULE WebSocketHub ----------------------------
(***************************************************************************)
(* The push side of the API in one event loop: the connection registry     *)
(* (api/connections.py), one task per socket (routes/stream.py, _serve),   *)
(* and the demo task (app.py, _run_simulation) that hands every event      *)
(* first to the tracker, which stores a snapshot, and then to the          *)
(* broadcaster (api/broadcaster.py), which sends frames.                   *)
(*                                                                         *)
(* A socket's task is                                                      *)
(*   none        the client did not connect yet                            *)
(*   reading     registered, and suspended in get_snapshot()               *)
(*   welcoming   about to send the opening frame                           *)
(*   open        suspended in receive_text()                               *)
(*   closed      the finally block has run                                 *)
(***************************************************************************)
EXTENDS Integers, Sequences, FiniteSets

CONSTANTS
  Clients,
  Audiences,   \* per client, the match id in its URL, or AllMatches
  AllMatches,  \* ALL_MATCHES
  Match,       \* the match the demo plays
  Topic,       \* the events of one play, in order
  MaxFailures  \* bound on failing store writes

\* A simulator numbers its events upwards.
ASSUME HubAssumption ==
  /\ AllMatches # Match
  /\ MaxFailures \in Nat
  /\ Topic \in Seq([type : STRING, seq : Nat])
  /\ \A i, j \in DOMAIN Topic : i < j => Topic[i].seq <= Topic[j].seq

VARIABLES
  suspends,   \* store calls suspend (Redis); the other stores do not
  watch,      \* the audience of this behaviour
  serving,    \* per client, where its task is
  subscribed, \* per client, whether _subscribers holds its socket
  gone,       \* per client, whether it has left, or the server closed its socket
  inbox,      \* per client, the frames written to its socket
  snapshot,   \* per client, the sequence of the snapshot it is welcomed with
  opened, closed, sent, failed, \* ConnectionStats
  step,       \* the demo task: track, handle, push, await, dead
  pos,        \* index of the event it is at
  stored,     \* sequence of the stored snapshot; 0 when there is none
  todo,       \* frames of this event still to be broadcast
  waiting,    \* sockets whose send was not awaited yet
  targets,    \* the sockets of the broadcast under way
  delivered,  \* of those, the ones whose send succeeded
  failures,   \* failing store writes so far
  broadcasts, \* history: every frame that was broadcast
  since       \* history: per client, Len(broadcasts) when it subscribed

setup == <<suspends, watch>>
clientVars == <<serving, subscribed, gone, inbox, snapshot, opened, closed, since>>
demoVars == <<step, pos, stored, todo, waiting, targets, delivered, sent, failed,
              failures, broadcasts>>
hubVars == <<setup, clientVars, demoVars>>

HubInit ==
  /\ suspends \in BOOLEAN /\ watch \in Audiences
  /\ serving = [c \in Clients |-> "none"]
  /\ subscribed = [c \in Clients |-> FALSE]
  /\ gone = [c \in Clients |-> FALSE]
  /\ inbox = [c \in Clients |-> <<>>]
  /\ snapshot = [c \in Clients |-> 0]
  /\ opened = 0 /\ closed = 0 /\ sent = 0 /\ failed = 0
  /\ step = "track" /\ pos = 1 /\ stored = 0
  /\ todo = <<>> /\ waiting = {} /\ targets = {} /\ delivered = {}
  /\ failures = 0
  /\ broadcasts = <<>>
  /\ since = [c \in Clients |-> 0]

-----------------------------------------------------------------------------
Welcome(seq) == [type |-> "welcome", seq |-> seq]

\* Those who watch the match, or every match.
Targets == {c \in Clients : subscribed[c] /\ watch[c] \in {Match, AllMatches}}

\* The snapshot a client is welcomed with.
SnapshotFor(c) == IF watch[c] = Match THEN stored ELSE 0

\* connect(), and _welcome() up to its first suspension.
Connect(c) ==
  /\ serving[c] = "none"
  /\ subscribed' = [subscribed EXCEPT ![c] = TRUE]
  /\ opened' = opened + 1
  /\ since' = [since EXCEPT ![c] = Len(broadcasts)]
  /\ \/ /\ suspends /\ watch[c] # AllMatches
        /\ serving' = [serving EXCEPT ![c] = "reading"]
        /\ UNCHANGED <<inbox, snapshot>>
     \/ /\ ~suspends \/ watch[c] = AllMatches
        /\ snapshot' = [snapshot EXCEPT ![c] = SnapshotFor(c)]
        /\ inbox' = [inbox EXCEPT ![c] = Append(@, Welcome(SnapshotFor(c)))]
        /\ serving' = [serving EXCEPT ![c] = "open"]
  /\ UNCHANGED <<setup, gone, closed, demoVars>>

\* connect(), and get_snapshot() or to_snapshot() raises in a store that does
\* not suspend: the finally block runs in the same step, and the server closes
\* the socket of a task that is over.
ConnectFails(c) ==
  /\ serving[c] = "none" /\ ~suspends /\ watch[c] # AllMatches
  /\ serving' = [serving EXCEPT ![c] = "closed"]
  /\ gone' = [gone EXCEPT ![c] = TRUE]
  /\ opened' = opened + 1 /\ closed' = closed + 1
  /\ UNCHANGED <<setup, subscribed, inbox, snapshot, since, demoVars>>

\* The store answers; the reply is received in a later step.
ReadSnapshot(c) ==
  /\ serving[c] = "reading"
  /\ snapshot' = [snapshot EXCEPT ![c] = SnapshotFor(c)]
  /\ serving' = [serving EXCEPT ![c] = "welcoming"]
  /\ UNCHANGED <<setup, subscribed, gone, inbox, opened, closed, since, demoVars>>

SendWelcome(c) ==
  /\ serving[c] = "welcoming" /\ ~gone[c]
  /\ inbox' = [inbox EXCEPT ![c] = Append(@, Welcome(snapshot[c]))]
  /\ serving' = [serving EXCEPT ![c] = "open"]
  /\ UNCHANGED <<setup, subscribed, gone, snapshot, opened, closed, since, demoVars>>

ClientLeaves(c) ==
  /\ serving[c] \in {"reading", "welcoming", "open"} /\ ~gone[c]
  /\ gone' = [gone EXCEPT ![c] = TRUE]
  /\ UNCHANGED <<setup, serving, subscribed, inbox, snapshot, opened, closed, since, demoVars>>

\* Mutant: the socket is left to be pruned.
DisconnectLater(c) ==
  /\ serving[c] \in {"welcoming", "open"} /\ gone[c]
  /\ serving' = [serving EXCEPT ![c] = "closed"]
  /\ closed' = closed + 1
  /\ UNCHANGED <<setup, subscribed, gone, inbox, snapshot, opened, since, demoVars>>

\* The send or the receive raises: disconnect() in the finally block.
Disconnect(c) ==
  /\ serving[c] \in {"welcoming", "open"} /\ gone[c]
  /\ serving' = [serving EXCEPT ![c] = "closed"]
  /\ subscribed' = [subscribed EXCEPT ![c] = FALSE]
  /\ closed' = closed + 1
  /\ UNCHANGED <<setup, gone, inbox, snapshot, opened, since, demoVars>>

\* get_snapshot() or to_snapshot() raises: disconnect(), though the client is
\* still there; its frames under way, if any, meet a closed socket.
WelcomeFails(c) ==
  /\ serving[c] \in {"reading", "welcoming"}
  /\ serving' = [serving EXCEPT ![c] = "closed"]
  /\ subscribed' = [subscribed EXCEPT ![c] = FALSE]
  /\ gone' = [gone EXCEPT ![c] = TRUE]
  /\ closed' = closed + 1
  /\ UNCHANGED <<setup, inbox, snapshot, opened, since, demoVars>>

-----------------------------------------------------------------------------
Event == Topic[pos]

\* A tick is followed by a sleep, and everything by the next event.
NextEvent == step' = "track" /\ pos' = pos + 1

\* tracker.handle(): a tick overwrites the stored snapshot.
Track ==
  /\ step = "track" /\ pos <= Len(Topic)
  /\ step' = "handle"
  /\ stored' = IF Event.type = "tick" THEN Event.seq ELSE stored
  /\ UNCHANGED <<setup, clientVars, pos, todo, waiting, targets, delivered, sent, failed,
                 failures, broadcasts>>

\* The store raises; nothing catches it.
TrackFails ==
  /\ step = "track" /\ pos <= Len(Topic)
  /\ failures < MaxFailures
  /\ failures' = failures + 1
  /\ step' = "dead"
  /\ UNCHANGED <<setup, clientVars, pos, stored, todo, waiting, targets, delivered, sent,
                 failed, broadcasts>>

\* What a tick may be worth: a prediction if the model scored it, a state
\* frame unless the interval throttles it.
FramesOfTick == {<<>>, <<"prediction">>, <<"tick">>, <<"prediction", "tick">>}

\* broadcaster.handle() up to the first broadcast.
HandleEvent ==
  /\ step = "handle"
  /\ \/ Event.type = "tick" /\ Targets # {} /\ todo' \in FramesOfTick
     \/ Event.type = "tick" /\ Targets = {} /\ todo' = <<>>
     \/ Event.type \in {"round_end", "match_end"} /\ todo' = <<Event.type>>
     \/ Event.type \notin {"tick", "round_end", "match_end"} /\ todo' = <<>>
  /\ step' = "push"
  /\ UNCHANGED <<setup, clientVars, pos, stored, waiting, targets, delivered, sent, failed,
                 failures, broadcasts>>

Frame == [type |-> Head(todo), seq |-> Event.seq]

\* broadcast() up to gather(); without targets it returns 0.
StartBroadcast ==
  /\ step = "push" /\ todo # <<>>
  /\ targets' = Targets /\ waiting' = Targets /\ delivered' = {}
  /\ broadcasts' = Append(broadcasts, Frame)
  /\ step' = "await"
  /\ UNCHANGED <<setup, clientVars, pos, stored, todo, sent, failed, failures>>

EventDone ==
  /\ step = "push" /\ todo = <<>>
  /\ NextEvent
  /\ UNCHANGED <<setup, clientVars, stored, todo, waiting, targets, delivered, sent, failed,
                 failures, broadcasts>>

\* Mutant: whatever is left of the broadcast is cancelled by one that fails.
SendAborting(c) ==
  /\ c \in waiting
  /\ \/ /\ ~gone[c]
        /\ inbox' = [inbox EXCEPT ![c] = Append(@, Frame)]
        /\ delivered' = delivered \union {c}
        /\ waiting' = waiting \ {c}
     \/ /\ gone[c]
        /\ waiting' = {}
        /\ UNCHANGED <<inbox, delivered>>
  /\ UNCHANGED <<setup, serving, subscribed, gone, snapshot, opened, closed, since, step, pos,
                 stored, todo, targets, sent, failed, failures, broadcasts>>

\* Mutant: what a send raises is not caught.
SendRaising(c) ==
  /\ c \in waiting
  /\ waiting' = waiting \ {c}
  /\ \/ /\ ~gone[c]
        /\ inbox' = [inbox EXCEPT ![c] = Append(@, Frame)]
        /\ delivered' = delivered \union {c}
        /\ UNCHANGED step
     \/ /\ gone[c]
        /\ step' = "dead"
        /\ UNCHANGED <<inbox, delivered>>
  /\ UNCHANGED <<setup, serving, subscribed, gone, snapshot, opened, closed, since, pos,
                 stored, todo, targets, sent, failed, failures, broadcasts>>

\* _send() of one target: it succeeds while the client is there.
Send(c) ==
  /\ c \in waiting
  /\ waiting' = waiting \ {c}
  /\ \/ /\ ~gone[c]
        /\ inbox' = [inbox EXCEPT ![c] = Append(@, Frame)]
        /\ delivered' = delivered \union {c}
     \/ /\ gone[c]
        /\ UNCHANGED <<inbox, delivered>>
  /\ UNCHANGED <<setup, serving, subscribed, gone, snapshot, opened, closed, since, step, pos,
                 stored, todo, targets, sent, failed, failures, broadcasts>>

\* The rest of broadcast(), once every send was awaited.
FinishBroadcast ==
  /\ step = "await" /\ waiting = {}
  /\ subscribed' = [c \in Clients |-> subscribed[c] /\ c \notin targets \ delivered]
  /\ sent' = sent + Cardinality(delivered)
  /\ failed' = failed + Cardinality(targets) - Cardinality(delivered)
  /\ todo' = Tail(todo)
  /\ step' = "push"
  /\ UNCHANGED <<setup, serving, gone, inbox, snapshot, opened, closed, since, pos, stored,
                 waiting, targets, delivered, failures, broadcasts>>

Demo ==
  \/ Track \/ TrackFails \/ HandleEvent \/ StartBroadcast \/ EventDone \/ FinishBroadcast

Serve(c) == ReadSnapshot(c) \/ WelcomeFails(c) \/ SendWelcome(c) \/ Disconnect(c)

HubNext ==
  \/ Demo
  \/ \E c \in Clients :
       Connect(c) \/ ConnectFails(c) \/ Serve(c) \/ ClientLeaves(c) \/ Send(c)

HubSpec == HubInit /\ [][HubNext]_hubVars

-----------------------------------------------------------------------------
Serving(c) == serving[c] \in {"reading", "welcoming", "open"}

RegistryMatchesTasks ==
  /\ \A c \in Clients : subscribed[c] => Serving(c)
  /\ \A c \in Clients : Serving(c) /\ ~gone[c] => subscribed[c]
  /\ opened - closed = Cardinality({c \in Clients : Serving(c)})

\* The frames broadcast to a client since it subscribed, without one whose
\* send was not awaited yet.
DueTo(c) ==
  IF watch[c] \in {Match, AllMatches}
    THEN SubSeq(broadcasts, since[c] + 1, Len(broadcasts) - IF c \in waiting THEN 1 ELSE 0)
    ELSE <<>>

\* `frames` with one more as number w.
WithFrame(frames, w, frame) ==
  [i \in 1..Len(frames) + 1 |->
     IF i < w THEN frames[i] ELSE IF i = w THEN frame ELSE frames[i - 1]]

\* A client is sent what is due to it, and once its welcome.
StayersGetEveryFrame ==
  \A c \in Clients :
    Serving(c) /\ ~gone[c] =>
      IF serving[c] = "open"
        THEN \E w \in 1..Len(DueTo(c)) + 1 :
               inbox[c] = WithFrame(DueTo(c), w, Welcome(snapshot[c]))
        ELSE inbox[c] = DueTo(c)

WelcomeThenForward ==
  ~suspends => \A c \in Clients :
    /\ inbox[c] # <<>> => inbox[c][1].type = "welcome"
    /\ \A i, j \in 1..Len(inbox[c]) :
         i < j /\ inbox[c][j].seq # 0 => inbox[c][i].seq <= inbox[c][j].seq

(***************************************************************************)
(* A client that stays receives every frame of its match broadcast since   *)
(* it subscribed, once and in order, and no other, whoever else leaves: a  *)
(* broken socket does not cost another one a frame.  The registry holds    *)
(* sockets of running tasks only, and every one of a client that is still  *)
(* there, however connecting, leaving, pruning and disconnecting           *)
(* interleave with a broadcast; the counters agree.  With a store that     *)
(* does not suspend, the welcome is the first frame of a connection        *)
(* ("First frame after a successful connection", ws_schemas.py), and the   *)
(* sequence numbers a client sees never go back, its welcome included.     *)
(* With Redis neither holds: the demo stores and broadcasts while the      *)
(* welcome is being read.  (Numbers start again with the next play.)       *)
(***************************************************************************)
StreamKept == StayersGetEveryFrame /\ RegistryMatchesTasks /\ WelcomeThenForward

(***************************************************************************)
(* A client that vanished is unregistered, also in a match so quiet that   *)
(* nothing is sent to it.                                                  *)
(***************************************************************************)
VanishedIsPruned ==
  \A c \in Clients : gone[c] ~> (serving[c] = "closed" /\ ~subscribed[c])
=============================================================================
