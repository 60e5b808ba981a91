------------------------- MODULE ApiLifecycleProofs -------------------------
(***************************************************************************)
(* The API process for any clients, topic and bounds: the registry and the  *)
(* tasks agree however sockets come and go, nothing is left running when   *)
(* the state is released, and whoever stays connected is sent every frame  *)
(* of its match, once and in order.                                        *)
(***************************************************************************)
EXTENDS ApiLifecycle, FiniteSetTheorems, SequenceTheorems, TLAPS

Tasks == {"none", "reading", "welcoming", "open", "closed"}
Steps == {"track", "handle", "push", "await", "dead", "off", "cancelled"}
Phases == {"starting", "serving", "draining", "releasing", "stopped", "crashed"}

ServingClients == {c \in Clients : Serving(c)}

ApiTypeOK ==
  /\ serving \in [Clients -> Tasks]
  /\ subscribed \in [Clients -> BOOLEAN] /\ gone \in [Clients -> BOOLEAN]
  /\ step \in Steps /\ phase \in Phases
  /\ opened \in Int /\ closed \in Int
  /\ IsFiniteSet(ServingClients)

\* Sends are pending only while a broadcast awaits them.
SendsAreAwaited == waiting # {} => step = "await" /\ phase # "starting"

\* A send that was awaited in vain had lost its client.
LostHadLeft ==
  step = "await" => \A c \in Clients : c \in targets \ (delivered \union waiting) => gone[c]

ApiInv ==
  /\ ApiTypeOK
  /\ SendsAreAwaited
  /\ LostHadLeft
  /\ RegistryMatchesTasks
  /\ ReleasedUnderNobody

-----------------------------------------------------------------------------
LEMMA ApiInitInv == ApiInit => ApiInv
<1> SUFFICES ASSUME ApiInit PROVE ApiInv
  OBVIOUS
<1> USE DEF ApiInit, HubInit, NotAsked
<1>1. \A c \in Clients : ~Serving(c) /\ ~subscribed[c]
  BY DEF Serving
<1>2. ServingClients = {}
  BY <1>1 DEF ServingClients
<1>3. IsFiniteSet(ServingClients) /\ Cardinality(ServingClients) = 0
  BY <1>2, FS_EmptySet
<1>4. ApiTypeOK
  BY <1>3 DEF ApiTypeOK, Tasks, Steps, Phases
<1>5. RegistryMatchesTasks
  BY <1>1, <1>3 DEF RegistryMatchesTasks, ServingClients
<1> QED
  BY <1>4, <1>5 DEF ApiInv, SendsAreAwaited, LostHadLeft, ReleasedUnderNobody

\* Who is served decides the last part of RegistryMatchesTasks.
LEMMA SameTasks ==
  ASSUME ApiTypeOK, RegistryMatchesTasks,
         \A c \in Clients : Serving(c)' <=> Serving(c),
         opened' = opened, closed' = closed
  PROVE  /\ IsFiniteSet(ServingClients')
         /\ (opened - closed = Cardinality({c \in Clients : Serving(c)}))'
<1>1. ServingClients' = ServingClients
  BY DEF ServingClients
<1>2. {c \in Clients : Serving(c)}' = {c \in Clients : Serving(c)}
  BY <1>1 DEF ServingClients
<1> QED
  BY <1>1, <1>2 DEF ApiTypeOK, RegistryMatchesTasks

\* A socket is accepted: it is registered, counted, and its task runs.
LEMMA ConnectKeeps ==
  ASSUME ApiInv, phase = "serving", NEW c \in Clients, Connect(c), UNCHANGED apiVars
  PROVE  ApiInv'
<1> USE DEF ApiInv
<1>1. /\ serving' \in [Clients -> Tasks]
      /\ serving'[c] \in {"reading", "open"}
      /\ \A d \in Clients \ {c} : serving'[d] = serving[d]
      /\ subscribed' = [subscribed EXCEPT ![c] = TRUE]
      /\ serving[c] = "none" /\ opened' = opened + 1 /\ closed' = closed /\ gone' = gone
      /\ UNCHANGED demoVars
  BY DEF Connect, ApiTypeOK, Tasks
<1>2. ServingClients' = ServingClients \union {c} /\ c \notin ServingClients
  BY <1>1 DEF ServingClients, Serving
<1>3. /\ IsFiniteSet(ServingClients')
      /\ Cardinality(ServingClients') = Cardinality(ServingClients) + 1
  BY <1>2, FS_AddElement DEF ApiTypeOK
<1>4. ApiTypeOK'
  BY <1>1, <1>3 DEF ApiTypeOK, demoVars, apiVars
<1>5. (opened - closed = Cardinality({d \in Clients : Serving(d)}))'
  <2>1. opened - closed = Cardinality(ServingClients)
    BY DEF RegistryMatchesTasks, ServingClients
  <2>2. IsFiniteSet(ServingClients) /\ Cardinality(ServingClients) \in Nat
    BY FS_CardinalityType DEF ApiTypeOK
  <2>3. opened' - closed' = Cardinality(ServingClients')
    BY <1>1, <1>3, <2>1, <2>2 DEF ApiTypeOK
  <2> QED
    BY <2>3 DEF ServingClients
<1>6. RegistryMatchesTasks'
  BY <1>1, <1>5 DEF RegistryMatchesTasks, Serving, ApiTypeOK
<1> QED
  BY <1>1, <1>4, <1>6
  DEF SendsAreAwaited, LostHadLeft, ReleasedUnderNobody, demoVars, apiVars

\* A socket whose first read raises: counted twice and registered no more.
LEMMA ConnectFailsKeeps ==
  ASSUME ApiInv, phase = "serving", NEW c \in Clients, ConnectFails(c), UNCHANGED apiVars
  PROVE  ApiInv'
<1> USE DEF ApiInv
<1>1. /\ serving' \in [Clients -> Tasks]
      /\ \A d \in Clients : Serving(d)' <=> Serving(d)
      /\ gone' \in [Clients -> BOOLEAN]
      /\ \A d \in Clients : gone[d] => gone'[d]
      /\ opened' = opened + 1 /\ closed' = closed + 1
      /\ UNCHANGED <<demoVars, subscribed>>
  BY DEF ConnectFails, ApiTypeOK, Tasks, Serving
<1>2. ServingClients' = ServingClients
  BY <1>1 DEF ServingClients
<1>3. /\ IsFiniteSet(ServingClients')
      /\ (opened - closed = Cardinality({d \in Clients : Serving(d)}))'
  <2>1. opened - closed = Cardinality(ServingClients)
    BY DEF RegistryMatchesTasks, ServingClients
  <2>2. opened' - closed' = opened - closed
    BY <1>1 DEF ApiTypeOK
  <2> QED
    BY <1>2, <2>1, <2>2 DEF ServingClients, ApiTypeOK
<1>4. ApiTypeOK'
  BY <1>1, <1>3 DEF ApiTypeOK, demoVars, apiVars
<1>5. RegistryMatchesTasks'
  BY <1>1, <1>3 DEF RegistryMatchesTasks
<1> QED
  BY <1>1, <1>4, <1>5
  DEF SendsAreAwaited, LostHadLeft, ReleasedUnderNobody, demoVars, apiVars

\* The finally block of a task: unregistered and counted.
LEMMA DisconnectKeeps ==
  ASSUME ApiInv, phase \in {"serving", "draining"}, NEW c \in Clients,
         Disconnect(c) \/ WelcomeFails(c), UNCHANGED apiVars
  PROVE  ApiInv'
<1> USE DEF ApiInv
<1>1. /\ serving' \in [Clients -> Tasks]
      /\ serving[c] \in {"reading", "welcoming", "open"} /\ serving'[c] = "closed"
      /\ \A d \in Clients \ {c} : serving'[d] = serving[d]
      /\ subscribed' = [subscribed EXCEPT ![c] = FALSE]
      /\ opened' = opened /\ closed' = closed + 1
      /\ gone' \in [Clients -> BOOLEAN] /\ \A d \in Clients : gone[d] => gone'[d]
      /\ UNCHANGED demoVars
  BY DEF Disconnect, WelcomeFails, ApiTypeOK, Tasks
<1>2. ServingClients' = ServingClients \ {c} /\ c \in ServingClients
  BY <1>1 DEF ServingClients, Serving
<1>3. /\ IsFiniteSet(ServingClients')
      /\ Cardinality(ServingClients') = Cardinality(ServingClients) - 1
  BY <1>2, FS_RemoveElement DEF ApiTypeOK
<1>4. ApiTypeOK'
  BY <1>1, <1>3 DEF ApiTypeOK, demoVars, apiVars
<1>5. (opened - closed = Cardinality({d \in Clients : Serving(d)}))'
  <2>1. opened - closed = Cardinality(ServingClients)
    BY DEF RegistryMatchesTasks, ServingClients
  <2>2. IsFiniteSet(ServingClients) /\ Cardinality(ServingClients) \in Nat
    BY FS_CardinalityType DEF ApiTypeOK
  <2>3. opened' - closed' = Cardinality(ServingClients')
    BY <1>1, <1>3, <2>1, <2>2 DEF ApiTypeOK
  <2> QED
    BY <2>3 DEF ServingClients
<1>6. RegistryMatchesTasks'
  BY <1>1, <1>5 DEF RegistryMatchesTasks, Serving, ApiTypeOK
<1> QED
  BY <1>1, <1>4, <1>6
  DEF SendsAreAwaited, LostHadLeft, ReleasedUnderNobody, demoVars, apiVars

\* The other steps of a socket's task, and of its client.
LEMMA SocketKeeps ==
  ASSUME ApiInv, phase \in {"serving", "draining"}, NEW c \in Clients,
         ReadSnapshot(c) \/ SendWelcome(c) \/ ClientLeaves(c), UNCHANGED apiVars
  PROVE  ApiInv'
<1> USE DEF ApiInv
<1>1. /\ serving' \in [Clients -> Tasks]
      /\ \A d \in Clients : Serving(d)' <=> Serving(d)
      /\ gone' \in [Clients -> BOOLEAN]
      /\ \A d \in Clients : gone[d] => gone'[d]
      /\ UNCHANGED <<demoVars, subscribed, opened, closed>>
  BY DEF ReadSnapshot, SendWelcome, ClientLeaves, ApiTypeOK, Tasks, Serving
<1>2. /\ IsFiniteSet(ServingClients')
      /\ (opened - closed = Cardinality({d \in Clients : Serving(d)}))'
  BY <1>1, SameTasks
<1>3. ApiTypeOK'
  BY <1>1, <1>2 DEF ApiTypeOK, demoVars, apiVars
<1>4. RegistryMatchesTasks'
  BY <1>1, <1>2 DEF RegistryMatchesTasks
<1> QED
  BY <1>1, <1>3, <1>4
  DEF SendsAreAwaited, LostHadLeft, ReleasedUnderNobody, demoVars, apiVars

\* A send of a broadcast succeeds, or its client had left.
LEMMA SendKeeps ==
  ASSUME ApiInv, phase \in {"serving", "draining"}, NEW c \in Clients,
         Send(c), UNCHANGED apiVars
  PROVE  ApiInv'
<1> USE DEF ApiInv
<1>1. /\ waiting' = waiting \ {c}
      /\ \/ delivered' = delivered \union {c}
         \/ delivered' = delivered /\ gone[c]
      /\ UNCHANGED <<serving, subscribed, gone, opened, closed, step, targets>>
  BY DEF Send
<1>2. /\ IsFiniteSet(ServingClients')
      /\ (opened - closed = Cardinality({d \in Clients : Serving(d)}))'
  <2>1. \A d \in Clients : Serving(d)' <=> Serving(d)
    BY <1>1 DEF Serving
  <2> QED
    BY <1>1, <2>1, SameTasks
<1>3. ApiTypeOK'
  BY <1>1, <1>2 DEF ApiTypeOK, apiVars
<1>4. RegistryMatchesTasks'
  BY <1>1, <1>2 DEF RegistryMatchesTasks, Serving
<1>5. SendsAreAwaited' /\ LostHadLeft' /\ ReleasedUnderNobody'
  BY <1>1 DEF SendsAreAwaited, LostHadLeft, ReleasedUnderNobody, apiVars
<1> QED
  BY <1>3, <1>4, <1>5

\* The demo unregisters only clients that left.
LEMMA DemoKeeps ==
  ASSUME ApiInv, phase \in {"serving", "draining"}, Demo, UNCHANGED apiVars
  PROVE  ApiInv'
<1> USE DEF ApiInv
<1>1. UNCHANGED <<serving, gone, opened, closed>>
  BY DEF Demo, Track, TrackFails, HandleEvent, StartBroadcast, EventDone,
         FinishBroadcast, clientVars
<1>2. step' \in Steps
  BY DEF Demo, Track, TrackFails, HandleEvent, StartBroadcast, EventDone,
         FinishBroadcast, NextEvent, Steps
<1>3. /\ IsFiniteSet(ServingClients')
      /\ (opened - closed = Cardinality({d \in Clients : Serving(d)}))'
  <2>1. \A d \in Clients : Serving(d)' <=> Serving(d)
    BY <1>1 DEF Serving
  <2> QED
    BY <1>1, <2>1, SameTasks
<1>4. CASE FinishBroadcast
  <2>1. /\ subscribed' \in [Clients -> BOOLEAN]
        /\ \A c \in Clients :
             subscribed'[c] <=> subscribed[c] /\ c \notin targets \ delivered
        /\ step = "await" /\ waiting = {} /\ waiting' = {} /\ step' = "push"
    BY <1>4 DEF FinishBroadcast, ApiTypeOK
  <2>2. \A c \in Clients : Serving(c) /\ ~gone[c] => subscribed'[c]
    BY <2>1 DEF LostHadLeft, RegistryMatchesTasks
  <2>3. RegistryMatchesTasks'
    BY <1>1, <1>3, <2>1, <2>2 DEF RegistryMatchesTasks, Serving
  <2>4. ApiTypeOK'
    BY <1>1, <1>2, <1>3, <2>1 DEF ApiTypeOK, apiVars
  <2> QED
    BY <2>1, <2>3, <2>4 DEF SendsAreAwaited, LostHadLeft, ReleasedUnderNobody, apiVars
<1>5. CASE Track \/ TrackFails \/ HandleEvent \/ StartBroadcast \/ EventDone
  <2>1. subscribed' = subscribed
    BY <1>5 DEF Track, TrackFails, HandleEvent, StartBroadcast, EventDone, clientVars
  <2>2. ApiTypeOK' /\ RegistryMatchesTasks'
    BY <1>1, <1>2, <1>3, <2>1 DEF ApiTypeOK, RegistryMatchesTasks, Serving, apiVars
  <2>3. CASE StartBroadcast
    BY <2>2, <2>3 DEF StartBroadcast, SendsAreAwaited, LostHadLeft, ReleasedUnderNobody, apiVars
  <2>4. CASE Track \/ TrackFails \/ HandleEvent \/ EventDone
    <3>1. step # "await" /\ step' # "await" /\ waiting' = waiting
      BY <2>4 DEF Track, TrackFails, HandleEvent, EventDone, NextEvent
    <3> QED
      BY <2>2, <3>1 DEF SendsAreAwaited, LostHadLeft, ReleasedUnderNobody, apiVars
  <2> QED
    BY <1>5, <2>3, <2>4
<1> QED
  BY <1>4, <1>5 DEF Demo

LEMMA HubKeeps == ApiInv /\ Hub => ApiInv'
<1> SUFFICES ASSUME ApiInv, Hub PROVE ApiInv'
  OBVIOUS
<1>1. CASE Accept
  BY <1>1, ConnectKeeps, ConnectFailsKeeps DEF Accept, Hub
<1>2. CASE Sockets
  BY <1>2, DisconnectKeeps, SocketKeeps, SendKeeps DEF Sockets, Serve, Hub
<1>3. CASE Simulation
  BY <1>3, DemoKeeps DEF Simulation, Hub
<1> QED
  BY <1>1, <1>2, <1>3 DEF Hub

-----------------------------------------------------------------------------
\* The lifespan, the probe and the signal.
LEMMA LifespanKeeps == ApiInv /\ Lifespan => ApiInv'
<1> SUFFICES ASSUME ApiInv, Lifespan PROVE ApiInv'
  OBVIOUS
<1> USE DEF ApiInv
<1>1. /\ UNCHANGED <<serving, gone, opened, closed>>
      /\ step' \in Steps /\ phase' \in Phases
  BY DEF Lifespan, Startup, StartupFails, EndLifespan, Shutdown, hubVars, clientVars,
         demoVars, ApiTypeOK, Steps, Phases
<1>2. /\ IsFiniteSet(ServingClients')
      /\ (opened - closed = Cardinality({d \in Clients : Serving(d)}))'
  <2>1. \A d \in Clients : Serving(d)' <=> Serving(d)
    BY <1>1 DEF Serving
  <2> QED
    BY <1>1, <2>1, SameTasks
<1>3. CASE Startup \/ StartupFails \/ EndLifespan
  <2>1. subscribed' = subscribed /\ probe' = probe
    BY <1>3 DEF Startup, StartupFails, EndLifespan, hubVars, clientVars
  <2>2. ApiTypeOK' /\ RegistryMatchesTasks'
    BY <1>1, <1>2, <2>1 DEF ApiTypeOK, RegistryMatchesTasks, Serving
  <2>3. CASE Startup
    <3>1. waiting' = {} /\ step' # "await" /\ phase' = "serving"
      BY <2>3 DEF Startup, SendsAreAwaited
    <3> QED
      BY <2>2, <3>1 DEF SendsAreAwaited, LostHadLeft, ReleasedUnderNobody
  <2>4. CASE StartupFails
    BY <2>2, <2>4
    DEF StartupFails, SendsAreAwaited, LostHadLeft, ReleasedUnderNobody, hubVars, clientVars,
        demoVars
  <2>5. CASE EndLifespan
    <3>1. \A c \in Clients : ~Serving(c) /\ ~subscribed[c]
      BY <2>5 DEF EndLifespan, Drained, RegistryMatchesTasks
    <3>2. \/ step = "dead" /\ phase' = "crashed" /\ step' = step /\ waiting' = waiting
          \/ phase' = "releasing" /\ step' \in {"off", "cancelled"} /\ waiting' = {}
      BY <2>5 DEF EndLifespan
    <3>3. ReleasedUnderNobody'
      BY <1>1, <2>1, <2>5, <3>1, <3>2 DEF ReleasedUnderNobody, EndLifespan, Drained, Serving
    <3>4. SendsAreAwaited' /\ LostHadLeft'
      BY <3>2 DEF SendsAreAwaited, LostHadLeft
    <3> QED
      BY <2>2, <3>3, <3>4
  <2> QED
    BY <1>3, <2>3, <2>4, <2>5
<1>4. CASE Shutdown
  <2>1. /\ subscribed' = [c \in Clients |-> FALSE]
        /\ UNCHANGED demoVars /\ probe' = probe
        /\ phase = "releasing" /\ phase' = "stopped"
    BY <1>4 DEF Shutdown
  <2>2. ApiTypeOK'
    BY <1>1, <1>2, <2>1 DEF ApiTypeOK
  <2>3. RegistryMatchesTasks'
    BY <1>1, <1>2, <2>1 DEF RegistryMatchesTasks, ReleasedUnderNobody, Serving
  <2> QED
    BY <1>1, <2>1, <2>2, <2>3
    DEF SendsAreAwaited, LostHadLeft, ReleasedUnderNobody, Serving, demoVars
<1> QED
  BY <1>3, <1>4 DEF Lifespan

LEMMA SignalKeeps == ApiInv /\ Signal => ApiInv'
<1> SUFFICES ASSUME ApiInv, Signal PROVE ApiInv'
  OBVIOUS
<1> USE DEF ApiInv
<1>1. /\ UNCHANGED <<serving, subscribed, opened, closed, probe, demoVars>>
      /\ gone' \in [Clients -> BOOLEAN]
      /\ \A c \in Clients : gone'[c] <=> gone[c] \/ Serving(c)
      /\ phase' = "draining"
  BY DEF Signal, ApiTypeOK, Serving
<1>2. /\ IsFiniteSet(ServingClients')
      /\ (opened - closed = Cardinality({d \in Clients : Serving(d)}))'
  <2>1. \A d \in Clients : Serving(d)' <=> Serving(d)
    BY <1>1 DEF Serving
  <2> QED
    BY <1>1, <2>1, SameTasks
<1>3. ApiTypeOK'
  BY <1>1, <1>2 DEF ApiTypeOK, demoVars, Phases
<1>4. RegistryMatchesTasks'
  BY <1>1, <1>2 DEF RegistryMatchesTasks, Serving
<1> QED
  BY <1>1, <1>3, <1>4 DEF SendsAreAwaited, LostHadLeft, ReleasedUnderNobody, demoVars

LEMMA ProbeKeeps == ApiInv /\ (Ask \/ Answer) => ApiInv'
<1> SUFFICES ASSUME ApiInv, Ask \/ Answer PROVE ApiInv'
  OBVIOUS
<1> USE DEF ApiInv
<1>1. /\ UNCHANGED <<hubVars, phase>>
      /\ Ask => phase = "serving"
      /\ Answer => probe.route \in {"health", "ready"}
  BY DEF Ask, Answer
<1>2. \A d \in Clients : Serving(d)' <=> Serving(d)
  BY <1>1 DEF Serving, hubVars, clientVars
<1>3. /\ IsFiniteSet(ServingClients')
      /\ (opened - closed = Cardinality({d \in Clients : Serving(d)}))'
  BY <1>1, <1>2, SameTasks DEF hubVars, clientVars
<1>4. ApiTypeOK' /\ RegistryMatchesTasks'
  BY <1>1, <1>2, <1>3 DEF ApiTypeOK, RegistryMatchesTasks, hubVars, clientVars, demoVars
<1>5. ReleasedUnderNobody'
  BY <1>1 DEF ReleasedUnderNobody
<1> QED
  BY <1>1, <1>4, <1>5 DEF SendsAreAwaited, LostHadLeft, hubVars, clientVars, demoVars

LEMMA StutterKeeps == ApiInv /\ UNCHANGED processVars => ApiInv'
<1> SUFFICES ASSUME ApiInv, UNCHANGED processVars PROVE ApiInv'
  OBVIOUS
<1> USE DEF processVars, hubVars, setup, clientVars, demoVars, apiVars, ApiInv
<1>1. \A d \in Clients : Serving(d)' <=> Serving(d)
  BY DEF Serving
<1>2. /\ IsFiniteSet(ServingClients')
      /\ (opened - closed = Cardinality({d \in Clients : Serving(d)}))'
  BY <1>1, SameTasks
<1>3. ApiTypeOK' /\ RegistryMatchesTasks'
  BY <1>1, <1>2 DEF ApiTypeOK, RegistryMatchesTasks
<1> QED
  BY <1>1, <1>3 DEF SendsAreAwaited, LostHadLeft, ReleasedUnderNobody

-----------------------------------------------------------------------------
(***************************************************************************)
(* The inductive invariant: the registry and the running tasks agree, a    *)
(* send awaited in vain had lost its client, and nothing runs once the     *)
(* state is being released.                                                *)
(***************************************************************************)
THEOREM ApiInvariant == ApiSpec => []ApiInv
<1>1. ApiInv /\ [ApiNext]_processVars => ApiInv'
  BY HubKeeps, LifespanKeeps, SignalKeeps, ProbeKeeps, StutterKeeps DEF ApiNext
<1> QED
  BY <1>1, ApiInitInv, PTL DEF ApiSpec

(***************************************************************************)
(* However connecting, leaving, pruning, disconnecting and the broadcasts  *)
(* of the demo interleave, from startup to shutdown(), the registry holds  *)
(* exactly the sockets of running tasks whose client is still there, save  *)
(* leavers not yet noticed, and the counters agree with it.                *)
(***************************************************************************)
THEOREM RegistryAlwaysMatches == ApiSpec => []RegistryMatchesTasks
<1>1. ApiInv => RegistryMatchesTasks
  BY DEF ApiInv
<1> QED
  BY <1>1, ApiInvariant, PTL

(***************************************************************************)
(* When shutdown() closes the registry and stops the store, no task of a   *)
(* socket, no probe and no step of the demo can use either any more.       *)
(***************************************************************************)
THEOREM NothingOutlivesTheState == ApiSpec => []ReleasedUnderNobody
<1>1. ApiInv => ReleasedUnderNobody
  BY DEF ApiInv
<1> QED
  BY <1>1, ApiInvariant, PTL

-----------------------------------------------------------------------------
(***************************************************************************)
(* The frames a client is sent.                                            *)
(***************************************************************************)
FrameTypes == {"welcome", "tick", "prediction", "round_end", "match_end"}

Frames == [type : FrameTypes, seq : Nat]

StreamTypeOK ==
  /\ broadcasts \in Seq(Frames) /\ todo \in Seq(FrameTypes)
  /\ inbox \in [Clients -> Seq(Frames)]
  /\ since \in [Clients -> Nat] /\ snapshot \in [Clients -> Nat]
  /\ pos \in Nat \ {0} /\ stored \in Nat

\* A send is awaited of sockets that watch the match, since before the frame.
AwaitedWatch ==
  /\ \A c \in waiting :
       c \in Clients /\ serving[c] # "none" /\ watch[c] \in {Match, AllMatches}
         /\ since[c] < Len(broadcasts)
  /\ \A c \in Clients : since[c] <= Len(broadcasts)

\* The frame being sent is the newest one, and of the event at pos.
SendingNewest ==
  /\ step \in {"handle", "push", "await"} => pos \in DOMAIN Topic
  /\ step = "await" => /\ todo # <<>> /\ broadcasts # <<>>
                       /\ broadcasts[Len(broadcasts)] = Frame

\* Nothing is sent before a client is accepted.
NothingEarly == \A c \in Clients : serving[c] = "none" => inbox[c] = <<>>

\* Without suspensions the welcome is sent by connect() itself, or the socket
\* is gone.
WelcomedAtOnce ==
  ~suspends => \A c \in Clients :
    /\ serving[c] \notin {"reading", "welcoming"}
    /\ serving[c] # "none" /\ ~gone[c] => inbox[c] # <<>> /\ inbox[c][1].type = "welcome"

\* Nothing stored or sent is newer than the event at pos.
NothingNewer ==
  \A i \in DOMAIN Topic : i >= pos =>
    /\ stored <= Topic[i].seq
    /\ \A c \in Clients : \A k \in 1..Len(inbox[c]) :
         ~suspends => inbox[c][k].seq <= Topic[i].seq

StreamInv ==
  /\ StreamTypeOK /\ AwaitedWatch /\ SendingNewest
  /\ NothingEarly /\ WelcomedAtOnce /\ NothingNewer
  /\ StayersGetEveryFrame /\ WelcomeThenForward

LEMMA WithFrameFacts ==
  ASSUME NEW frames \in Seq(Frames), NEW x \in Frames, NEW w \in 1..Len(frames) + 1
  PROVE  /\ WithFrame(frames, w, x) \in Seq(Frames)
         /\ Len(WithFrame(frames, w, x)) = Len(frames) + 1
         /\ \A f \in Frames :
              Append(WithFrame(frames, w, x), f) = WithFrame(Append(frames, f), w, x)
         /\ Append(frames, x) = WithFrame(frames, Len(frames) + 1, x)
<1>1. /\ WithFrame(frames, w, x) \in Seq(Frames)
      /\ Len(WithFrame(frames, w, x)) = Len(frames) + 1
      /\ \A i \in 1..Len(frames) + 1 : WithFrame(frames, w, x)[i] =
           IF i < w THEN frames[i] ELSE IF i = w THEN x ELSE frames[i - 1]
  BY DEF WithFrame
<1>2. ASSUME NEW f \in Frames
      PROVE  Append(WithFrame(frames, w, x), f) = WithFrame(Append(frames, f), w, x)
  <2> DEFINE left == Append(WithFrame(frames, w, x), f)
             more == Append(frames, f)
             right == WithFrame(more, w, x)
  <2>1. /\ more \in Seq(Frames) /\ Len(more) = Len(frames) + 1
        /\ \A i \in 1..Len(frames) : more[i] = frames[i]
        /\ more[Len(frames) + 1] = f
    OBVIOUS
  <2>2. /\ left \in Seq(Frames) /\ Len(left) = Len(frames) + 2
        /\ \A i \in 1..Len(frames) + 1 : left[i] = WithFrame(frames, w, x)[i]
        /\ left[Len(frames) + 2] = f
    BY <1>1
  <2>3. /\ right \in Seq(Frames) /\ Len(right) = Len(frames) + 2
        /\ \A i \in 1..Len(frames) + 2 :
             right[i] = IF i < w THEN more[i] ELSE IF i = w THEN x ELSE more[i - 1]
    <3>1. w \in 1..Len(more) + 1
      BY <2>1
    <3> HIDE DEF more
    <3> QED
      BY <2>1, <3>1 DEF WithFrame
  <2> HIDE DEF left, more, right
  <2>4. \A i \in 1..Len(left) : left[i] = right[i]
    <3> SUFFICES ASSUME NEW i \in 1..Len(left) PROVE left[i] = right[i]
      OBVIOUS
    <3>1. CASE i = Len(frames) + 2
      BY <2>1, <2>2, <2>3, <3>1
    <3>2. CASE i \in 1..Len(frames) + 1
      <4>1. i < w => more[i] = frames[i]
        BY <2>1, <3>2
      <4>2. i > w => more[i - 1] = frames[i - 1]
        BY <2>1, <3>2
      <4>3. left[i] = IF i < w THEN frames[i] ELSE IF i = w THEN x ELSE frames[i - 1]
        BY <1>1, <2>2, <3>2
      <4>4. right[i] = IF i < w THEN more[i] ELSE IF i = w THEN x ELSE more[i - 1]
        BY <2>3, <3>2
      <4> QED
        BY <3>2, <4>1, <4>2, <4>3, <4>4
    <3> QED
      BY <2>2, <3>1, <3>2
  <2>5. left = right
    BY <2>2, <2>3, <2>4, SeqEqual
  <2> QED
    BY <2>5 DEF left, right, more
<1>3. Append(frames, x) = WithFrame(frames, Len(frames) + 1, x)
  <2> DEFINE left == Append(frames, x)
             right == WithFrame(frames, Len(frames) + 1, x)
  <2>1. /\ left \in Seq(Frames) /\ Len(left) = Len(frames) + 1
        /\ \A i \in 1..Len(frames) : left[i] = frames[i]
        /\ left[Len(frames) + 1] = x
    OBVIOUS
  <2>2. /\ right \in Seq(Frames) /\ Len(right) = Len(frames) + 1
        /\ \A i \in 1..Len(frames) : right[i] = frames[i]
        /\ right[Len(frames) + 1] = x
    BY DEF WithFrame
  <2> HIDE DEF left, right
  <2>3. left = right
    <3>1. \A i \in 1..Len(left) : left[i] = right[i]
      BY <2>1, <2>2
    <3> QED
      BY <2>1, <2>2, <3>1, SeqEqual
  <2> QED
    BY <2>3 DEF left, right
<1> QED
  BY <1>1, <1>2, <1>3

\* The sequence from a place on, as the newest frame is added.
LEMMA DueGrows ==
  ASSUME NEW b \in Seq(Frames), NEW s \in Nat, s < Len(b)
  PROVE  /\ SubSeq(b, s + 1, Len(b) - 1) \in Seq(Frames)
         /\ SubSeq(b, s + 1, Len(b)) = Append(SubSeq(b, s + 1, Len(b) - 1), b[Len(b)])
<1> DEFINE old == SubSeq(b, s + 1, Len(b) - 1)
           new == SubSeq(b, s + 1, Len(b))
<1>1. /\ old \in Seq(Frames) /\ Len(old) = Len(b) - 1 - s
      /\ \A i \in 1..Len(b) - 1 - s : old[i] = b[s + i]
  OBVIOUS
<1>2. /\ new \in Seq(Frames) /\ Len(new) = Len(b) - s
      /\ \A i \in 1..Len(b) - s : new[i] = b[s + i]
  OBVIOUS
<1>3. b[Len(b)] \in Frames
  OBVIOUS
<1> DEFINE more == Append(old, b[Len(b)])
<1> HIDE DEF old, new
<1>4. /\ more \in Seq(Frames) /\ Len(more) = Len(b) - s
      /\ \A i \in 1..Len(b) - 1 - s : more[i] = old[i]
      /\ more[Len(b) - s] = b[Len(b)]
  BY <1>1, <1>3, AppendProperties
<1> HIDE DEF more
<1>5. \A i \in 1..Len(new) : new[i] = more[i]
  <2> SUFFICES ASSUME NEW i \in 1..Len(new) PROVE new[i] = more[i]
    OBVIOUS
  <2>1. CASE i = Len(b) - s
    <3>1. s + i = Len(b)
      BY <2>1
    <3> QED
      BY <1>2, <1>4, <2>1, <3>1
  <2>2. CASE i \in 1..Len(b) - 1 - s
    BY <1>1, <1>2, <1>4, <2>2
  <2>3. Len(b) \in Nat /\ i \in Nat /\ 1 <= i /\ i <= Len(b) - s
    BY <1>2
  <2>4. i = Len(b) - s \/ i \in 1..Len(b) - 1 - s
    BY <2>3
  <2> QED
    BY <2>1, <2>2, <2>4
<1>6. new = more
  BY <1>2, <1>4, <1>5, SeqEqual
<1> QED
  BY <1>1, <1>6 DEF old, new, more

LEMMA SameDue ==
  ASSUME NEW b \in Seq(Frames), NEW f \in Frames, NEW s \in Nat, s <= Len(b)
  PROVE  SubSeq(Append(b, f), s + 1, Len(Append(b, f)) - 1) = SubSeq(b, s + 1, Len(b))
<1> DEFINE longer == Append(b, f)
           old == SubSeq(b, s + 1, Len(b))
           new == SubSeq(longer, s + 1, Len(longer) - 1)
<1>1. /\ longer \in Seq(Frames) /\ Len(longer) = Len(b) + 1
      /\ \A i \in 1..Len(b) : longer[i] = b[i]
  OBVIOUS
<1>2. /\ old \in Seq(Frames) /\ Len(old) = Len(b) - s
      /\ \A i \in 1..Len(b) - s : old[i] = b[s + i]
  OBVIOUS
<1> HIDE DEF longer
<1>3. /\ new \in Seq(Frames) /\ Len(new) = Len(b) - s
      /\ \A i \in 1..Len(b) - s : new[i] = longer[s + i]
  BY <1>1
<1> HIDE DEF old, new
<1>4. \A i \in 1..Len(new) : new[i] = old[i]
  BY <1>1, <1>2, <1>3
<1>5. new = old
  BY <1>2, <1>3, <1>4, SeqEqual
<1> QED
  BY <1>5 DEF old, new, longer

LEMMA WelcomeIsFrame ==
  ASSUME NEW n \in Nat
  PROVE  /\ Welcome(n) \in Frames
         /\ Welcome(n).type = "welcome" /\ Welcome(n).seq = n
<1>1. "welcome" \in FrameTypes
  BY DEF FrameTypes
<1>2. Welcome(n) = [type |-> "welcome", seq |-> n]
  BY DEF Welcome
<1>3. Welcome(n) \in [type : FrameTypes, seq : Nat]
  BY <1>1, <1>2
<1>4. Welcome(n).type = "welcome" /\ Welcome(n).seq = n
  BY <1>2
<1> QED
  BY <1>3, <1>4 DEF Frames

LEMMA EventsNumbered ==
  /\ DOMAIN Topic = 1..Len(Topic) /\ Len(Topic) \in Nat
  /\ \A i \in DOMAIN Topic : Topic[i].type \in STRING /\ Topic[i].seq \in Nat
<1>1. Topic \in Seq([type : STRING, seq : Nat])
  BY HubAssumption
<1>2. DOMAIN Topic = 1..Len(Topic) /\ Len(Topic) \in Nat
  BY <1>1
<1>3. \A i \in 1..Len(Topic) : Topic[i] \in [type : STRING, seq : Nat]
  BY <1>1, ElementOfSeq
<1> QED
  BY <1>2, <1>3

LEMMA StreamInitInv == ApiInit => StreamInv
<1> SUFFICES ASSUME ApiInit PROVE StreamInv
  OBVIOUS
<1> USE DEF ApiInit, HubInit
<1>1. StreamTypeOK
  BY DEF StreamTypeOK
<1>2. \A c \in Clients : ~Serving(c) /\ serving[c] = "none" /\ inbox[c] = <<>>
  BY DEF Serving
<1>3. NothingNewer
  <2>1. \A i \in DOMAIN Topic : Topic[i].seq \in Nat
    BY EventsNumbered
  <2>2. \A c \in Clients : Len(inbox[c]) = 0
    OBVIOUS
  <2> QED
    BY <2>1, <2>2 DEF NothingNewer
<1>4. StayersGetEveryFrame /\ WelcomeThenForward
  BY <1>2 DEF StayersGetEveryFrame, WelcomeThenForward
<1>5. AwaitedWatch /\ SendingNewest /\ NothingEarly /\ WelcomedAtOnce
  BY <1>2 DEF AwaitedWatch, SendingNewest, NothingEarly, WelcomedAtOnce
<1> QED
  BY <1>1, <1>3, <1>4, <1>5 DEF StreamInv

\* A step that sends nothing and begins no broadcast.
LEMMA QuietStep ==
  ASSUME StreamInv, UNCHANGED <<setup, inbox, snapshot, since, broadcasts>>,
         \A c \in Clients : gone[c] => gone'[c],
         \A c \in Clients :
           serving'[c] = serving[c]
             \/ ((serving[c] # "none" \/ gone'[c]) /\ serving'[c] = "closed"),
         waiting' = waiting \/ (waiting' = {} /\ \A c \in Clients : ~Serving(c)),
         todo' \in Seq(FrameTypes), pos' \in Nat, pos' >= pos, stored' \in Nat,
         \A i \in DOMAIN Topic : i >= pos' => stored' <= Topic[i].seq,
         step' \in {"handle", "push", "await"} => pos' \in DOMAIN Topic,
         step' = "await" => step = "await" /\ todo' = todo /\ pos' = pos
  PROVE  StreamInv'
<1> USE DEF StreamInv, setup
<1>1. StreamTypeOK'
  BY DEF StreamTypeOK
<1>2. AwaitedWatch' /\ NothingEarly' /\ WelcomedAtOnce'
  BY DEF AwaitedWatch, NothingEarly, WelcomedAtOnce
<1>3. SendingNewest'
  <2>1. pos' = pos /\ todo' = todo => Frame' = Frame
    BY DEF Frame, Event
  <2> QED
    BY <2>1 DEF SendingNewest
<1>4. NothingNewer'
  <2>1. \A i \in DOMAIN Topic : i >= pos' => i >= pos
    BY HubAssumption DEF StreamTypeOK
  <2> QED
    BY <2>1 DEF NothingNewer
<1>5. WelcomeThenForward'
  BY DEF WelcomeThenForward
<1>6. StayersGetEveryFrame'
  <2> SUFFICES ASSUME NEW c \in Clients, Serving(c)', ~gone'[c]
               PROVE  IF serving'[c] = "open"
                        THEN \E w \in 1..Len(DueTo(c)') + 1 :
                               inbox'[c] = WithFrame(DueTo(c)', w, Welcome(snapshot'[c]))
                        ELSE inbox'[c] = DueTo(c)'
    BY DEF StayersGetEveryFrame
  <2>1. serving'[c] = serving[c] /\ Serving(c) /\ ~gone[c] /\ waiting' = waiting
    BY DEF Serving
  <2>2. DueTo(c)' = DueTo(c)
    BY <2>1 DEF DueTo
  <2> QED
    BY <2>1, <2>2 DEF StayersGetEveryFrame
<1> QED
  BY <1>1, <1>2, <1>3, <1>4, <1>5, <1>6

\* A socket is accepted, and without a suspension welcomed at once.
LEMMA ConnectStreams ==
  ASSUME ApiInv, StreamInv, NEW c \in Clients, Connect(c)
  PROVE  StreamInv'
<1> USE DEF ApiInv, StreamInv
<1> DEFINE greeting == Welcome(SnapshotFor(c))
<1>1. /\ serving[c] = "none" /\ inbox[c] = <<>> /\ c \notin waiting
      /\ since' = [since EXCEPT ![c] = Len(broadcasts)]
      /\ UNCHANGED <<setup, gone, demoVars>>
  BY DEF Connect, NothingEarly, AwaitedWatch
<1>2. \/ /\ suspends /\ serving' = [serving EXCEPT ![c] = "reading"]
         /\ UNCHANGED <<inbox, snapshot>>
      \/ /\ snapshot' = [snapshot EXCEPT ![c] = SnapshotFor(c)]
         /\ inbox' = [inbox EXCEPT ![c] = Append(@, greeting)]
         /\ serving' = [serving EXCEPT ![c] = "open"]
  BY DEF Connect
<1>3. SnapshotFor(c) \in Nat /\ SnapshotFor(c) <= stored
  BY DEF SnapshotFor, StreamTypeOK
<1>4. /\ greeting \in Frames
      /\ greeting.type = "welcome" /\ greeting.seq = SnapshotFor(c)
  BY <1>3, WelcomeIsFrame
<1> HIDE DEF greeting
<1>14. /\ Append(<<>>, greeting) = <<greeting>> /\ <<greeting>>[1] = greeting
       /\ Len(<<greeting>>) = 1 /\ <<greeting>> # <<>> /\ Len(<<>>) = 0
  OBVIOUS
<1>5. /\ \A d \in Clients \ {c} : inbox'[d] = inbox[d] /\ snapshot'[d] = snapshot[d]
           /\ since'[d] = since[d] /\ serving'[d] = serving[d]
      /\ since'[c] = Len(broadcasts)
      /\ \/ suspends /\ serving'[c] = "reading" /\ inbox'[c] = <<>>
         \/ serving'[c] = "open" /\ inbox'[c] = <<greeting>> /\ snapshot'[c] = SnapshotFor(c)
  BY <1>1, <1>2, <1>14 DEF StreamTypeOK, ApiTypeOK
<1>6. StreamTypeOK'
  <2>1. <<greeting>> \in Seq(Frames) /\ Append(inbox[c], greeting) = <<greeting>>
    BY <1>1, <1>4, <1>14
  <2>2. inbox' \in [Clients -> Seq(Frames)] /\ snapshot' \in [Clients -> Nat]
    <3>1. inbox \in [Clients -> Seq(Frames)] /\ snapshot \in [Clients -> Nat]
      BY DEF StreamTypeOK
    <3>2. [inbox EXCEPT ![c] = Append(@, greeting)] \in [Clients -> Seq(Frames)]
      BY <2>1, <3>1
    <3>3. [snapshot EXCEPT ![c] = SnapshotFor(c)] \in [Clients -> Nat]
      BY <1>3, <3>1
    <3> QED
      BY <1>2, <3>1, <3>2, <3>3
  <2>3. since' \in [Clients -> Nat]
    BY <1>1 DEF StreamTypeOK
  <2> QED
    BY <1>1, <2>2, <2>3 DEF StreamTypeOK, demoVars
<1>7. \A d \in Clients : Len(inbox'[d]) \in Nat
  BY <1>6 DEF StreamTypeOK
<1>8. AwaitedWatch'
  <2>1. Len(broadcasts) \in Nat
    BY DEF StreamTypeOK
  <2> QED
    BY <1>1, <1>5, <2>1 DEF AwaitedWatch, demoVars, setup
<1>9. SendingNewest'
  BY <1>1 DEF SendingNewest, demoVars, Frame, Event
<1>10. NothingEarly' /\ WelcomedAtOnce'
  BY <1>1, <1>4, <1>5, <1>14 DEF NothingEarly, WelcomedAtOnce, setup
<1>11. NothingNewer'
  <2> SUFFICES ASSUME NEW i \in DOMAIN Topic, i >= pos
               PROVE  /\ stored <= Topic[i].seq
                      /\ \A d \in Clients : \A k \in 1..Len(inbox'[d]) :
                           ~suspends => inbox'[d][k].seq <= Topic[i].seq
    BY <1>1 DEF NothingNewer, demoVars, setup
  <2>1. stored <= Topic[i].seq /\ stored \in Nat /\ Topic[i].seq \in Nat
    BY EventsNumbered DEF NothingNewer, StreamTypeOK
  <2>2. \A k \in 1..Len(inbox'[c]) : inbox'[c][k].seq <= Topic[i].seq
    BY <1>3, <1>4, <1>5, <1>14, <2>1
  <2> QED
    BY <1>5, <2>1, <2>2 DEF NothingNewer
<1>12. WelcomeThenForward'
  <2>1. inbox'[c] # <<>> => inbox'[c][1].type = "welcome"
    BY <1>4, <1>5, <1>14
  <2>2. Len(inbox'[c]) = 0 \/ Len(inbox'[c]) = 1
    BY <1>5, <1>14
  <2>3. \A i, j \in 1..Len(inbox'[c]) : ~(i < j)
    <3> TAKE i, j \in 1..Len(inbox'[c])
    <3>1. CASE Len(inbox'[c]) = 0
      BY <3>1
    <3>2. CASE Len(inbox'[c]) = 1
      <4>1. i \in 1..1 /\ j \in 1..1
        BY <3>2
      <4> QED
        BY <4>1
    <3> QED
      BY <2>2, <3>1, <3>2
  <2> QED
    BY <1>1, <1>5, <2>1, <2>3 DEF WelcomeThenForward, setup
<1>13. StayersGetEveryFrame'
  <2> SUFFICES ASSUME NEW d \in Clients, Serving(d)', ~gone'[d]
               PROVE  IF serving'[d] = "open"
                        THEN \E w \in 1..Len(DueTo(d)') + 1 :
                               inbox'[d] = WithFrame(DueTo(d)', w, Welcome(snapshot'[d]))
                        ELSE inbox'[d] = DueTo(d)'
    BY DEF StayersGetEveryFrame
  <2>1. CASE d = c
    <3>1. DueTo(c)' = <<>>
      BY <1>1, <1>5 DEF DueTo, demoVars, StreamTypeOK
    <3>2. <<greeting>> = WithFrame(<<>>, 1, greeting)
      BY DEF WithFrame
    <3> QED
      BY <1>5, <2>1, <3>1, <3>2 DEF greeting
  <2>2. CASE d # c
    <3>1. DueTo(d)' = DueTo(d)
      BY <1>1, <1>5, <2>2 DEF DueTo, demoVars, setup
    <3>2. Serving(d) /\ ~gone[d] /\ serving'[d] = serving[d]
      BY <1>1, <1>5, <2>2 DEF Serving
    <3> QED
      BY <1>5, <2>2, <3>1, <3>2 DEF StayersGetEveryFrame
  <2> QED
    BY <2>1, <2>2
<1> QED
  BY <1>6, <1>8, <1>9, <1>10, <1>11, <1>12, <1>13

\* With Redis the snapshot is read after the socket was registered.
LEMMA ReadStreams ==
  ASSUME ApiInv, StreamInv, NEW c \in Clients, ReadSnapshot(c)
  PROVE  StreamInv'
<1> USE DEF ApiInv, StreamInv
<1>1. /\ serving[c] = "reading" /\ serving'[c] = "welcoming" /\ suspends
      /\ \A d \in Clients \ {c} : serving'[d] = serving[d] /\ snapshot'[d] = snapshot[d]
      /\ snapshot' \in [Clients -> Nat]
      /\ UNCHANGED <<setup, inbox, since, gone, demoVars>>
  BY DEF ReadSnapshot, WelcomedAtOnce, StreamTypeOK, ApiTypeOK, SnapshotFor
<1>2. /\ StreamTypeOK' /\ AwaitedWatch' /\ NothingEarly' /\ WelcomedAtOnce'
      /\ NothingNewer' /\ WelcomeThenForward'
  BY <1>1 DEF StreamTypeOK, AwaitedWatch, NothingEarly, WelcomedAtOnce, NothingNewer,
              WelcomeThenForward, demoVars, setup
<1>3. SendingNewest'
  BY <1>1 DEF SendingNewest, demoVars, Frame, Event
<1>4. StayersGetEveryFrame'
  <2>1. \A d \in Clients : DueTo(d)' = DueTo(d)
    BY <1>1 DEF DueTo, demoVars, setup
  <2> QED
    BY <1>1, <2>1 DEF StayersGetEveryFrame, Serving
<1> QED
  BY <1>2, <1>3, <1>4

\* The welcome follows what was broadcast while it was being read.
LEMMA WelcomeStreams ==
  ASSUME ApiInv, StreamInv, NEW c \in Clients, SendWelcome(c)
  PROVE  StreamInv'
<1> USE DEF ApiInv, StreamInv
<1> DEFINE greeting == Welcome(snapshot[c])
<1>1. /\ serving[c] = "welcoming" /\ ~gone[c] /\ serving'[c] = "open" /\ suspends
      /\ inbox' = [inbox EXCEPT ![c] = Append(@, greeting)]
      /\ \A d \in Clients \ {c} : serving'[d] = serving[d]
      /\ UNCHANGED <<setup, snapshot, since, gone, demoVars>>
  BY DEF SendWelcome, WelcomedAtOnce, ApiTypeOK
<1>2. greeting \in Frames /\ inbox[c] \in Seq(Frames)
  BY WelcomeIsFrame DEF StreamTypeOK
<1> HIDE DEF greeting
<1>3. /\ inbox' \in [Clients -> Seq(Frames)]
      /\ inbox'[c] = Append(inbox[c], greeting)
      /\ \A d \in Clients \ {c} : inbox'[d] = inbox[d]
  <2>1. Append(inbox[c], greeting) \in Seq(Frames)
    BY <1>2
  <2> QED
    BY <1>1, <2>1 DEF StreamTypeOK
<1>4. /\ StreamTypeOK' /\ AwaitedWatch' /\ NothingEarly' /\ WelcomedAtOnce'
      /\ NothingNewer' /\ WelcomeThenForward'
  BY <1>1, <1>3 DEF StreamTypeOK, AwaitedWatch, NothingEarly, WelcomedAtOnce, NothingNewer,
                    WelcomeThenForward, demoVars, setup
<1>5. SendingNewest'
  BY <1>1 DEF SendingNewest, demoVars, Frame, Event
<1>6. StayersGetEveryFrame'
  <2>1. \A d \in Clients : DueTo(d)' = DueTo(d)
    BY <1>1 DEF DueTo, demoVars, setup
  <2>2. inbox[c] = DueTo(c) /\ DueTo(c) \in Seq(Frames)
    BY <1>1, <1>2 DEF StayersGetEveryFrame, Serving
  <2>3. inbox'[c] = WithFrame(DueTo(c), Len(DueTo(c)) + 1, greeting)
    BY <1>2, <1>3, <2>2, WithFrameFacts
  <2>4. \E w \in 1..Len(DueTo(c)) + 1 :
          inbox'[c] = WithFrame(DueTo(c), w, Welcome(snapshot[c]))
    BY <2>2, <2>3 DEF greeting
  <2> QED
    BY <1>1, <1>3, <2>1, <2>4 DEF StayersGetEveryFrame, Serving
<1> QED
  BY <1>4, <1>5, <1>6

\* The frame under way reaches a client that is there.
LEMMA SendStreams ==
  ASSUME ApiInv, StreamInv, NEW c \in Clients, Send(c)
  PROVE  StreamInv'
<1> USE DEF ApiInv, StreamInv
<1>1. /\ c \in waiting /\ waiting' = waiting \ {c} /\ step = "await"
      /\ \/ ~gone[c] /\ inbox' = [inbox EXCEPT ![c] = Append(@, Frame)]
         \/ gone[c] /\ inbox' = inbox
      /\ UNCHANGED <<setup, serving, gone, snapshot, since, step, pos, stored, todo, broadcasts>>
  BY DEF Send, SendsAreAwaited
<1>2. /\ serving[c] # "none" /\ watch[c] \in {Match, AllMatches} /\ since[c] < Len(broadcasts)
      /\ pos \in DOMAIN Topic /\ broadcasts[Len(broadcasts)] = Frame /\ Frame \in Frames
      /\ broadcasts \in Seq(Frames) /\ since[c] \in Nat /\ inbox[c] \in Seq(Frames)
  <2>1. broadcasts # <<>> /\ broadcasts[Len(broadcasts)] = Frame /\ pos \in DOMAIN Topic
    BY <1>1 DEF SendingNewest
  <2>2. broadcasts[Len(broadcasts)] \in Frames
    BY <2>1 DEF StreamTypeOK
  <2> QED
    BY <1>1, <2>1, <2>2 DEF AwaitedWatch, StreamTypeOK
<1>3. Frame.seq = Topic[pos].seq
  BY DEF Frame, Event
<1>4. CASE gone[c]
  <2>1. inbox' = inbox
    BY <1>1, <1>4
  <2>2. /\ StreamTypeOK' /\ AwaitedWatch' /\ NothingEarly' /\ WelcomedAtOnce'
        /\ NothingNewer' /\ WelcomeThenForward'
    BY <1>1, <2>1 DEF StreamTypeOK, AwaitedWatch, NothingEarly, WelcomedAtOnce, NothingNewer,
                      WelcomeThenForward, setup
  <2>3. SendingNewest'
    BY <1>1 DEF SendingNewest, Frame, Event
  <2>4. \A d \in Clients \ {c} : DueTo(d)' = DueTo(d)
    BY <1>1 DEF DueTo, setup
  <2>5. StayersGetEveryFrame'
    BY <1>1, <1>4, <2>1, <2>4 DEF StayersGetEveryFrame, Serving
  <2> QED
    BY <2>2, <2>3, <2>5
<1>5. CASE ~gone[c]
  <2>1. /\ inbox' \in [Clients -> Seq(Frames)]
        /\ inbox'[c] = Append(inbox[c], Frame)
        /\ \A d \in Clients \ {c} : inbox'[d] = inbox[d]
    <3>1. Append(inbox[c], Frame) \in Seq(Frames)
      BY <1>2
    <3> QED
      BY <1>1, <1>5, <3>1 DEF StreamTypeOK
  <2>2. /\ Len(inbox[c]) \in Nat /\ Len(inbox'[c]) = Len(inbox[c]) + 1
        /\ \A k \in 1..Len(inbox[c]) : inbox'[c][k] = inbox[c][k]
        /\ inbox'[c][Len(inbox[c]) + 1] = Frame
    BY <1>2, <2>1, AppendProperties
  <2>3. StreamTypeOK' /\ AwaitedWatch' /\ NothingEarly'
    BY <1>1, <1>2, <2>1 DEF StreamTypeOK, AwaitedWatch, NothingEarly, setup
  <2>4. SendingNewest'
    BY <1>1 DEF SendingNewest, Frame, Event
  <2>5. WelcomedAtOnce'
    <3> SUFFICES ASSUME ~suspends, NEW d \in Clients
                 PROVE  /\ serving[d] \notin {"reading", "welcoming"}
                        /\ serving[d] # "none" /\ ~gone[d] =>
                             inbox'[d] # <<>> /\ inbox'[d][1].type = "welcome"
      BY <1>1 DEF WelcomedAtOnce, setup
    <3>1. CASE d = c
      <4>1. inbox[c] # <<>> /\ inbox[c][1].type = "welcome"
        BY <1>2, <1>5, <3>1 DEF WelcomedAtOnce
      <4>2. 1 \in 1..Len(inbox[c]) /\ inbox'[c] # <<>>
        BY <1>2, <2>1, <4>1
      <4> QED
        BY <2>2, <3>1, <4>1, <4>2 DEF WelcomedAtOnce
    <3>2. CASE d # c
      BY <2>1, <3>2 DEF WelcomedAtOnce
    <3> QED
      BY <3>1, <3>2
  <2>6. NothingNewer'
    <3> SUFFICES ASSUME NEW i \in DOMAIN Topic, i >= pos, NEW d \in Clients,
                        NEW k \in 1..Len(inbox'[d]), ~suspends
                 PROVE  inbox'[d][k].seq <= Topic[i].seq
      BY <1>1 DEF NothingNewer, setup
    <3>1. Topic[pos].seq <= Topic[i].seq
      <4>1. pos \in Nat /\ i \in Nat /\ Topic[i].seq \in Nat /\ Topic[pos].seq \in Nat
        BY <1>2, EventsNumbered
      <4>2. pos < i => Topic[pos].seq <= Topic[i].seq
        BY <1>2, HubAssumption
      <4> QED
        BY <4>1, <4>2
    <3>2. CASE d = c /\ k = Len(inbox[c]) + 1
      BY <1>3, <2>2, <3>1, <3>2
    <3>3. CASE d = c /\ k \in 1..Len(inbox[c])
      BY <2>2, <3>3 DEF NothingNewer
    <3>4. CASE d # c
      BY <2>1, <3>4 DEF NothingNewer
    <3> QED
      BY <2>2, <3>2, <3>3, <3>4
  <2>7. WelcomeThenForward'
    <3> SUFFICES ASSUME ~suspends, NEW d \in Clients
                 PROVE  /\ inbox'[d] # <<>> => inbox'[d][1].type = "welcome"
                        /\ \A i, j \in 1..Len(inbox'[d]) :
                             i < j /\ inbox'[d][j].seq # 0 => inbox'[d][i].seq <= inbox'[d][j].seq
      BY <1>1 DEF WelcomeThenForward, setup
    <3>1. CASE d # c
      BY <2>1, <3>1 DEF WelcomeThenForward
    <3>2. CASE d = c
      <4>1. inbox'[c][1].type = "welcome"
        BY <1>1, <1>2, <1>5, <2>5 DEF WelcomedAtOnce, setup
      <4>2. ASSUME NEW i \in 1..Len(inbox'[c]), NEW j \in 1..Len(inbox'[c]),
                   i < j, inbox'[c][j].seq # 0
            PROVE  inbox'[c][i].seq <= inbox'[c][j].seq
        <5>1. i \in 1..Len(inbox[c])
          BY <2>2, <4>2
        <5>2. CASE j = Len(inbox[c]) + 1
          <6>1. inbox[c][i].seq <= Topic[pos].seq
            BY <1>2, <5>1, EventsNumbered DEF NothingNewer
          <6> QED
            BY <1>3, <2>2, <5>1, <5>2, <6>1
        <5>3. CASE j \in 1..Len(inbox[c])
          BY <2>2, <4>2, <5>1, <5>3 DEF WelcomeThenForward
        <5> QED
          BY <2>2, <5>2, <5>3
      <4> QED
        BY <3>2, <4>1, <4>2
    <3> QED
      BY <3>1, <3>2
  <2>8. StayersGetEveryFrame'
    <3> SUFFICES ASSUME NEW d \in Clients, Serving(d)', ~gone'[d]
                 PROVE  IF serving'[d] = "open"
                          THEN \E w \in 1..Len(DueTo(d)') + 1 :
                                 inbox'[d] = WithFrame(DueTo(d)', w, Welcome(snapshot'[d]))
                          ELSE inbox'[d] = DueTo(d)'
      BY DEF StayersGetEveryFrame
    <3>1. Serving(d) /\ ~gone[d]
      BY <1>1 DEF Serving
    <3>2. CASE d # c
      <4>1. DueTo(d)' = DueTo(d)
        BY <1>1, <3>2 DEF DueTo, setup
      <4> QED
        BY <1>1, <2>1, <3>1, <3>2, <4>1 DEF StayersGetEveryFrame
    <3>3. CASE d = c
      <4>1. DueTo(c) \in Seq(Frames) /\ DueTo(c)' = Append(DueTo(c), Frame)
        <5>1. DueTo(c) = SubSeq(broadcasts, since[c] + 1, Len(broadcasts) - 1)
          BY <1>1, <1>2 DEF DueTo
        <5>2. DueTo(c)' = SubSeq(broadcasts, since[c] + 1, Len(broadcasts))
          BY <1>1, <1>2 DEF DueTo, setup
        <5> QED
          BY <1>2, <5>1, <5>2, DueGrows
      <4>2. CASE serving[c] = "open"
        <5>1. PICK w \in 1..Len(DueTo(c)) + 1 :
                inbox[c] = WithFrame(DueTo(c), w, Welcome(snapshot[c]))
          BY <3>1, <3>3, <4>2 DEF StayersGetEveryFrame
        <5>2. Welcome(snapshot[c]) \in Frames
          BY WelcomeIsFrame DEF StreamTypeOK
        <5>3. inbox'[c] = WithFrame(DueTo(c)', w, Welcome(snapshot[c]))
          BY <1>2, <2>1, <4>1, <5>1, <5>2, WithFrameFacts
        <5>4. w \in 1..Len(DueTo(c)') + 1
          BY <1>2, <4>1
        <5> QED
          BY <1>1, <3>3, <4>2, <5>3, <5>4
      <4>3. CASE serving[c] # "open"
        <5>1. inbox[c] = DueTo(c)
          BY <3>1, <3>3, <4>3 DEF StayersGetEveryFrame
        <5> QED
          BY <1>1, <2>1, <3>3, <4>1, <4>3, <5>1
      <4> QED
        BY <4>2, <4>3
    <3> QED
      BY <3>2, <3>3
  <2> QED
    BY <2>3, <2>4, <2>5, <2>6, <2>7, <2>8
<1> QED
  BY <1>4, <1>5

\* A broadcast begins: the frame is due to every socket that watches.
LEMMA BroadcastStreams ==
  ASSUME ApiInv, StreamInv, StartBroadcast
  PROVE  StreamInv'
<1> USE DEF ApiInv, StreamInv
<1>1. /\ step = "push" /\ step' = "await" /\ todo # <<>> /\ waiting = {}
      /\ waiting' = Targets /\ broadcasts' = Append(broadcasts, Frame)
      /\ UNCHANGED <<setup, clientVars, pos, stored, todo>>
  BY DEF StartBroadcast, SendsAreAwaited
<1>2. pos \in DOMAIN Topic /\ Frame \in Frames
  <2>1. pos \in DOMAIN Topic
    BY <1>1 DEF SendingNewest
  <2>2. Head(todo) \in FrameTypes
    BY <1>1 DEF StreamTypeOK
  <2>3. Topic[pos].seq \in Nat
    BY <2>1, EventsNumbered
  <2> QED
    BY <2>1, <2>2, <2>3 DEF Frame, Event, Frames
<1>3. /\ broadcasts' \in Seq(Frames) /\ broadcasts' # <<>> /\ Len(broadcasts) \in Nat
      /\ Len(broadcasts') = Len(broadcasts) + 1 /\ broadcasts'[Len(broadcasts')] = Frame
  <2>1. broadcasts \in Seq(Frames)
    BY DEF StreamTypeOK
  <2>2. Len(broadcasts) \in Nat
    BY <2>1
  <2>3. /\ broadcasts' \in Seq(Frames) /\ broadcasts' # <<>>
        /\ Len(broadcasts') = Len(broadcasts) + 1
        /\ broadcasts'[Len(broadcasts) + 1] = Frame
    BY <1>1, <1>2, <2>1, AppendProperties
  <2> QED
    BY <2>2, <2>3
<1>4. /\ StreamTypeOK' /\ NothingEarly' /\ WelcomedAtOnce' /\ NothingNewer'
      /\ WelcomeThenForward'
  BY <1>1, <1>3 DEF StreamTypeOK, NothingEarly, WelcomedAtOnce, NothingNewer,
                    WelcomeThenForward, clientVars, setup
<1>5. SendingNewest'
  <2>1. Frame' = Frame
    BY <1>1 DEF Frame, Event
  <2> QED
    BY <1>1, <1>2, <1>3, <2>1 DEF SendingNewest
<1>6. \A c \in Targets : c \in Clients /\ Serving(c) /\ watch[c] \in {Match, AllMatches}
  BY DEF Targets, RegistryMatchesTasks
<1>7. AwaitedWatch'
  <2>1. \A c \in Clients : since[c] < Len(broadcasts')
    BY <1>3 DEF AwaitedWatch, StreamTypeOK
  <2>2. \A c \in Clients : since[c] <= Len(broadcasts')
    BY <1>3, <2>1 DEF StreamTypeOK
  <2>3. \A c \in waiting' : serving[c] # "none"
    BY <1>1, <1>6 DEF Serving
  <2> QED
    BY <1>1, <1>6, <2>1, <2>2, <2>3 DEF AwaitedWatch, clientVars, setup
<1>8. StayersGetEveryFrame'
  <2> SUFFICES ASSUME NEW c \in Clients, Serving(c)', ~gone'[c]
               PROVE  IF serving'[c] = "open"
                        THEN \E w \in 1..Len(DueTo(c)') + 1 :
                               inbox'[c] = WithFrame(DueTo(c)', w, Welcome(snapshot'[c]))
                        ELSE inbox'[c] = DueTo(c)'
    BY DEF StayersGetEveryFrame
  <2>1. Serving(c) /\ ~gone[c] /\ subscribed[c]
    BY <1>1 DEF Serving, clientVars, RegistryMatchesTasks
  <2>2. DueTo(c)' = DueTo(c)
    <3>1. CASE watch[c] \in {Match, AllMatches}
      <4>1. c \in Targets /\ c \notin waiting
        BY <1>1, <2>1, <3>1 DEF Targets
      <4>2. since[c] \in Nat /\ since[c] <= Len(broadcasts) /\ broadcasts \in Seq(Frames)
        BY DEF AwaitedWatch, StreamTypeOK
      <4>3. DueTo(c) = SubSeq(broadcasts, since[c] + 1, Len(broadcasts))
        <5>1. DueTo(c) = SubSeq(broadcasts, since[c] + 1, Len(broadcasts) - 0)
          BY <3>1, <4>1 DEF DueTo
        <5>2. Len(broadcasts) - 0 = Len(broadcasts)
          BY <1>3
        <5> QED
          BY <5>1, <5>2
      <4>4. DueTo(c)' = SubSeq(broadcasts', since[c] + 1, Len(broadcasts') - 1)
        BY <1>1, <3>1, <4>1 DEF DueTo, setup, clientVars
      <4> QED
        BY <1>1, <1>2, <4>2, <4>3, <4>4, SameDue
    <3>2. CASE watch[c] \notin {Match, AllMatches}
      BY <1>1, <3>2 DEF DueTo, setup
    <3> QED
      BY <3>1, <3>2
  <2> QED
    BY <1>1, <2>1, <2>2 DEF StayersGetEveryFrame, clientVars
<1> QED
  BY <1>4, <1>5, <1>7, <1>8

\* The other steps of the demo send nothing.
LEMMA DemoStreams ==
  ASSUME ApiInv, StreamInv, Demo
  PROVE  StreamInv'
<1> USE DEF ApiInv
<1>1. /\ UNCHANGED <<setup, serving, gone>> /\ pos \in Nat \ {0}
      /\ pos \in DOMAIN Topic <=> pos <= Len(Topic)
      /\ todo \in Seq(FrameTypes) /\ stored \in Nat
  BY EventsNumbered
  DEF Demo, Track, TrackFails, HandleEvent, StartBroadcast, EventDone, FinishBroadcast,
      clientVars, StreamInv, StreamTypeOK
<1>2. \A i \in DOMAIN Topic : i >= pos => stored <= Topic[i].seq
  BY DEF StreamInv, NothingNewer
<1>3. CASE StartBroadcast
  BY <1>3, BroadcastStreams
<1>4. CASE Track
  <2>1. /\ pos \in DOMAIN Topic /\ stored' \in {stored, Topic[pos].seq} /\ step' = "handle"
        /\ UNCHANGED <<setup, clientVars, pos, todo, waiting, broadcasts>>
    BY <1>1, <1>4 DEF Track, Event
  <2>2. \A i \in DOMAIN Topic : i >= pos => Topic[pos].seq <= Topic[i].seq
    <3> SUFFICES ASSUME NEW i \in DOMAIN Topic, i >= pos PROVE Topic[pos].seq <= Topic[i].seq
      OBVIOUS
    <3>1. pos \in Nat /\ i \in Nat /\ Topic[i].seq \in Nat /\ Topic[pos].seq \in Nat
      BY <2>1, EventsNumbered
    <3>2. pos < i => Topic[pos].seq <= Topic[i].seq
      BY <2>1, HubAssumption
    <3> QED
      BY <3>1, <3>2
  <2>3. stored' \in Nat /\ \A i \in DOMAIN Topic : i >= pos => stored' <= Topic[i].seq
    BY <1>1, <1>2, <2>1, <2>2, EventsNumbered
  <2> QED
    BY <1>1, <2>1, <2>3, QuietStep DEF clientVars
<1>5. CASE TrackFails
  BY <1>1, <1>2, <1>5, QuietStep DEF TrackFails, clientVars
<1>6. CASE HandleEvent
  <2>1. /\ step = "handle" /\ step' = "push" /\ todo' \in Seq(FrameTypes)
        /\ UNCHANGED <<setup, clientVars, pos, stored, waiting, broadcasts>>
    <3>1. /\ <<>> \in Seq(FrameTypes)
          /\ <<"prediction">> \in Seq(FrameTypes) /\ <<"tick">> \in Seq(FrameTypes)
          /\ <<"prediction", "tick">> \in Seq(FrameTypes)
      BY DEF FrameTypes
    <3>2. FramesOfTick \subseteq Seq(FrameTypes)
      BY <3>1 DEF FramesOfTick
    <3>3. Event.type \in FrameTypes => <<Event.type>> \in Seq(FrameTypes)
      OBVIOUS
    <3>4. todo' \in Seq(FrameTypes)
      BY <1>6, <3>1, <3>2, <3>3 DEF HandleEvent, FrameTypes
    <3> QED
      BY <1>6, <3>4 DEF HandleEvent
  <2>2. pos \in DOMAIN Topic
    BY <2>1 DEF StreamInv, SendingNewest
  <2> QED
    BY <1>1, <1>2, <2>1, <2>2, QuietStep DEF clientVars
<1>7. CASE EventDone
  <2>1. /\ pos' = pos + 1 /\ step' = "track"
        /\ UNCHANGED <<setup, clientVars, stored, todo, waiting, broadcasts>>
    BY <1>7 DEF EventDone, NextEvent
  <2>2. pos' \in Nat /\ pos' >= pos /\ \A i \in DOMAIN Topic : i >= pos' => i >= pos
    BY <1>1, <2>1, EventsNumbered
  <2> QED
    BY <1>1, <1>2, <2>1, <2>2, QuietStep DEF clientVars
<1>8. CASE FinishBroadcast
  <2>1. /\ step = "await" /\ step' = "push" /\ todo' = Tail(todo)
        /\ UNCHANGED <<setup, serving, gone, inbox, snapshot, since, pos, stored, waiting,
                       broadcasts>>
    BY <1>8 DEF FinishBroadcast
  <2>2. pos \in DOMAIN Topic /\ todo # <<>>
    BY <2>1 DEF StreamInv, SendingNewest
  <2>3. todo' \in Seq(FrameTypes)
    BY <1>1, <2>1, <2>2
  <2> QED
    BY <1>1, <1>2, <2>1, <2>2, <2>3, QuietStep
<1> QED
  BY <1>3, <1>4, <1>5, <1>6, <1>7, <1>8 DEF Demo

\* A step that leaves the demo and what sockets were sent alone.
LEMMA AsideStreams ==
  ASSUME StreamInv, UNCHANGED <<setup, inbox, snapshot, since, broadcasts, todo, pos, stored>>,
         \A c \in Clients : gone[c] => gone'[c],
         \A c \in Clients :
           serving'[c] = serving[c]
             \/ ((serving[c] # "none" \/ gone'[c]) /\ serving'[c] = "closed"),
         waiting' = waiting \/ (waiting' = {} /\ \A c \in Clients : ~Serving(c)),
         step' = step \/ step' \in {"track", "off", "cancelled"}
  PROVE  StreamInv'
<1>1. /\ todo' \in Seq(FrameTypes) /\ pos' \in Nat /\ pos' >= pos /\ stored' \in Nat
      /\ \A i \in DOMAIN Topic : i >= pos' => stored' <= Topic[i].seq
      /\ step' \in {"handle", "push", "await"} => pos' \in DOMAIN Topic
  BY DEF StreamInv, StreamTypeOK, NothingNewer, SendingNewest
<1> QED
  BY <1>1, QuietStep

LEMMA ApiStreams == ApiInv /\ StreamInv /\ [ApiNext]_processVars => StreamInv'
<1> SUFFICES ASSUME ApiInv, StreamInv, [ApiNext]_processVars PROVE StreamInv'
  OBVIOUS
<1> USE DEF ApiInv
<1>1. CASE Hub
  <2>1. ASSUME NEW c \in Clients,
               ClientLeaves(c) \/ Disconnect(c) \/ WelcomeFails(c) \/ ConnectFails(c)
        PROVE  StreamInv'
    <3>1. /\ UNCHANGED <<setup, inbox, snapshot, since, broadcasts, todo, pos, stored>>
          /\ \A d \in Clients : gone[d] => gone'[d]
          /\ \A d \in Clients :
               serving'[d] = serving[d]
                 \/ ((serving[d] # "none" \/ gone'[d]) /\ serving'[d] = "closed")
          /\ waiting' = waiting /\ step' = step
      BY <2>1 DEF ClientLeaves, Disconnect, WelcomeFails, ConnectFails, demoVars, ApiTypeOK
    <3> QED
      BY <3>1, AsideStreams
  <2>2. CASE Accept
    BY <2>1, <2>2, ConnectStreams DEF Accept
  <2>3. CASE Sockets
    BY <2>1, <2>3, ReadStreams, WelcomeStreams, SendStreams DEF Sockets, Serve
  <2>4. CASE Simulation
    BY <2>4, DemoStreams DEF Simulation
  <2> QED
    BY <1>1, <2>2, <2>3, <2>4 DEF Hub
<1>2. CASE Lifespan
  <2>1. /\ UNCHANGED <<setup, inbox, snapshot, since, broadcasts, todo, pos, stored, gone,
                       serving>>
        /\ waiting' = waiting \/ (waiting' = {} /\ \A c \in Clients : ~Serving(c))
        /\ step' = step \/ step' \in {"track", "off", "cancelled"}
    BY <1>2
    DEF Lifespan, Startup, StartupFails, EndLifespan, Shutdown, Drained, hubVars, clientVars,
        demoVars
  <2> QED
    BY <2>1, AsideStreams
<1>3. CASE Signal
  <2>1. /\ UNCHANGED <<setup, inbox, snapshot, since, broadcasts, todo, pos, stored, waiting,
                       step, serving>>
        /\ \A c \in Clients : gone[c] => gone'[c]
    BY <1>3 DEF Signal, demoVars
  <2> QED
    BY <2>1, AsideStreams
<1>4. CASE Ask \/ Answer \/ UNCHANGED processVars
  <2>1. UNCHANGED <<setup, inbox, snapshot, since, broadcasts, todo, pos, stored, waiting,
                    step, serving, gone>>
    BY <1>4 DEF Ask, Answer, processVars, hubVars, clientVars, demoVars
  <2> QED
    BY <2>1, AsideStreams
<1> QED
  BY <1>1, <1>2, <1>3, <1>4 DEF ApiNext

(***************************************************************************)
(* Whoever stays connected is sent every frame of its match, once and in   *)
(* order, and one welcome, however sockets come, go and are pruned and     *)
(* whenever the process ends; if store calls do not suspend the welcome is *)
(* the first frame and sequence numbers do not go back.  It holds for any  *)
(* clients, any topic of ascending events and any number of failures.      *)
(***************************************************************************)
THEOREM StreamsAlwaysKept == ApiSpec => []StreamKept
<1>1. ApiInit => ApiInv /\ StreamInv
  BY ApiInitInv, StreamInitInv
<1>2. ApiInv /\ StreamInv /\ [ApiNext]_processVars => (ApiInv /\ StreamInv)'
  BY ApiStreams, HubKeeps, LifespanKeeps, SignalKeeps, ProbeKeeps, StutterKeeps DEF ApiNext
<1>3. ApiInv /\ StreamInv => StreamKept
  BY DEF ApiInv, StreamInv, StreamKept
<1> QED
  BY <1>1, <1>2, <1>3, PTL DEF ApiSpec
=============================================================================
