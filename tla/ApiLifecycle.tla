---------------------------- MODULE ApiLifecycle ----------------------------
(***************************************************************************)
(* One process of the API from start to end: AppState (api/dependencies.py)*)
(* and the lifespan of the application (api/app.py) around the sockets and *)
(* the demo of WebSocketHub, with a probe of /health or /ready             *)
(* (routes/health.py) that is answered somewhere in between.               *)
(*                                                                         *)
(* The server, uvicorn as `serve` runs it, is external: it calls the       *)
(* lifespan, and on a signal it closes the sockets, waits for the tasks of *)
(* sockets and requests, and only then resumes the lifespan.               *)
(*                                                                         *)
(*   starting   before startup()                                           *)
(*   serving    the lifespan is suspended at `yield`                       *)
(*   draining   the server closes sockets and waits for their tasks        *)
(*   releasing  the demo is cancelled, shutdown() is next                  *)
(*   stopped    shutdown() has run                                         *)
(*   crashed    startup or the end of the lifespan raised                  *)
(***************************************************************************)
EXTENDS WebSocketHub

VARIABLES
  phase,
  store,   \* state.store: "none", "open" or "stopped"
  manager, \* state.manager is set
  engine,  \* state.engine is set
  probe    \* the probe: none, health or ready while it pings, or its answer

apiVars == <<phase, store, manager, engine, probe>>
processVars == <<hubVars, apiVars>>

NotAsked == [route |-> "none", ok |-> FALSE]

ApiInit ==
  /\ HubInit
  /\ phase = "starting" /\ store = "none" /\ manager = FALSE /\ engine = FALSE
  /\ probe = NotAsked

-----------------------------------------------------------------------------
\* startup(): a missing or broken checkpoint leaves the engine unset.  The
\* demo is started with --simulate only.
Startup ==
  /\ phase = "starting" /\ phase' = "serving"
  /\ store' = "open" /\ manager' = TRUE /\ engine' \in BOOLEAN
  /\ step' \in {"track", "off"}
  /\ UNCHANGED <<setup, clientVars, pos, stored, todo, waiting, targets, delivered, sent,
                 failed, failures, broadcasts, probe>>

\* The store does not start: the exception ends the process.
StartupFails ==
  /\ phase = "starting" /\ phase' = "crashed"
  /\ UNCHANGED <<hubVars, store, manager, engine, probe>>

\* Sockets are accepted while the server is up; what runs goes on while it drains.
Accept == phase = "serving" /\ \E c \in Clients : Connect(c) \/ ConnectFails(c)

Sockets ==
  /\ phase \in {"serving", "draining"}
  /\ \E c \in Clients : Serve(c) \/ ClientLeaves(c) \/ Send(c)

\* The demo predicts only with an engine.
Simulation ==
  /\ phase \in {"serving", "draining"}
  /\ Demo
  /\ ~engine => \A i \in 1..Len(todo') : todo'[i] # "prediction"

Hub ==
  /\ Accept \/ Sockets \/ Simulation
  /\ UNCHANGED apiVars

\* A probe finds the store started and suspends in ping().
Ask ==
  /\ phase = "serving" /\ probe = NotAsked
  /\ \E route \in {"health", "ready"} : probe' = [route |-> route, ok |-> FALSE]
  /\ UNCHANGED <<hubVars, phase, store, manager, engine>>

\* ping() answers, does not, or raises; health also wants the model.
Answer ==
  /\ probe.route \in {"health", "ready"}
  /\ \E pong \in BOOLEAN :
       probe' = [route |-> "answered", ok |-> pong /\ (probe.route = "health" => engine)]
  /\ UNCHANGED <<hubVars, phase, store, manager, engine>>

\* A signal: the server closes every socket.
Signal ==
  /\ phase = "serving" /\ phase' = "draining"
  /\ gone' = [c \in Clients |-> gone[c] \/ Serving(c)]
  /\ UNCHANGED <<setup, serving, subscribed, inbox, snapshot, opened, closed, since,
                 demoVars, store, manager, engine, probe>>

Drained ==
  /\ \A c \in Clients : ~Serving(c)
  /\ probe.route \notin {"health", "ready"}

\* Mutant: the demo is not cancelled before the state is released.
EndLifespanOnly ==
  /\ phase = "draining" /\ Drained
  /\ phase' = "releasing"
  /\ UNCHANGED <<hubVars, store, manager, engine, probe>>

\* Mutant: the demo is awaited and not cancelled.
EndLifespanAwaiting ==
  /\ phase = "draining" /\ Drained
  /\ step \in {"dead", "off"}
  /\ phase' = IF step = "dead" THEN "crashed" ELSE "releasing"
  /\ UNCHANGED <<hubVars, store, manager, engine, probe>>

\* The lifespan resumes: the demo is cancelled wherever it is suspended, and
\* awaited.  If it had died of an exception, that is raised here.
EndLifespan ==
  /\ phase = "draining" /\ Drained
  /\ \/ /\ step = "dead" /\ phase' = "crashed"
        /\ UNCHANGED <<step, waiting>>
     \/ /\ step # "dead" /\ phase' = "releasing"
        /\ step' = IF step = "off" THEN "off" ELSE "cancelled"
        /\ waiting' = {}
  /\ UNCHANGED <<setup, clientVars, pos, stored, todo, targets, delivered, sent, failed,
                 failures, broadcasts, store, manager, engine, probe>>

\* shutdown(): close_all(), then the store.
Shutdown ==
  /\ phase = "releasing" /\ phase' = "stopped"
  /\ subscribed' = [c \in Clients |-> FALSE]
  /\ store' = "stopped" /\ manager' = FALSE /\ engine' = FALSE
  /\ UNCHANGED <<setup, serving, gone, inbox, snapshot, opened, closed, since, demoVars, probe>>

Lifespan == Startup \/ StartupFails \/ EndLifespan \/ Shutdown

ApiNext == Lifespan \/ Hub \/ Ask \/ Answer \/ Signal

ApiSpec == ApiInit /\ [][ApiNext]_processVars

\* Every task runs when it can, the lifespan's included; a send ends: it
\* succeeds, or the server closes the socket of a peer that no longer answers
\* its pings; and ping() returns.  Nobody has to connect, ask or send a signal.
ApiFairness ==
  /\ WF_processVars(Lifespan) /\ WF_processVars(Answer)
  /\ WF_processVars(Simulation /\ UNCHANGED apiVars)
  /\ \A c \in Clients :
       /\ WF_processVars(Serve(c) /\ UNCHANGED apiVars)
       /\ WF_processVars(Send(c) /\ UNCHANGED apiVars)

ApiFairSpec == ApiSpec /\ ApiFairness

-----------------------------------------------------------------------------
(***************************************************************************)
(* Nothing uses the state after it is released, and none is left behind:   *)
(* while shutdown() is due or done no socket's task runs, no probe waits   *)
(* for the store and the demo is over, so close_all() finds an empty       *)
(* registry and the store is stopped under nobody.                         *)
(***************************************************************************)
ReleasedUnderNobody ==
  phase \in {"releasing", "stopped"} =>
    /\ step \in {"cancelled", "off"} /\ waiting = {}
    /\ \A c \in Clients : ~Serving(c) /\ ~subscribed[c]
    /\ probe.route \notin {"health", "ready"}

(***************************************************************************)
(* A signal ends the process, whatever the sockets, the probe and the demo *)
(* were in the middle of.                                                  *)
(***************************************************************************)
SignalEndsProcess == phase = "draining" ~> phase \in {"stopped", "crashed"}

(***************************************************************************)
(* "Release resources held for the process lifetime" (dependencies.py):    *)
(* at the end of a process that started, the store is stopped.             *)
(***************************************************************************)
ReleasedAtTheEnd ==
  phase \in {"stopped", "crashed"} => store # "open"

(***************************************************************************)
(* The demo plays on ("Loops, so a demo left open does not run dry",       *)
(* app.py) until the process ends, as long as the store takes every write: *)
(* no socket holds it up, and one that vanished is pruned, also in a match *)
(* so quiet that nothing is sent to it.                                    *)
(***************************************************************************)
DemoPlaysOn ==
  /\ VanishedIsPruned
  /\ <>(pos > Len(Topic) \/ failures > 0 \/ step = "off" \/ phase \notin {"starting", "serving"})
=============================================================================
