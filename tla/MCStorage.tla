------------------------------ MODULE MCStorage ------------------------------
(***************************************************************************)
(* Everything that is kept of a match, one part per behaviour: the tracker *)
(* over one or two matches; a state store, alone or shared by two          *)
(* processes; the directory of the keys of two matches; the sink with two  *)
(* matches of two rounds.  A part that is not looked at stays in its       *)
(* initial state.                                                          *)
(***************************************************************************)
EXTENDS MCMatchTracker, StateStore, MatchDirectory, DuckDBSink

CONSTANTS p1, p2, k1, k2, v1, v2

VARIABLES part

\* A process alone with its memory or its SQLite file; the consumer and the
\* API on one SQLite file or one Redis server.
MCDeployments ==
  {[backend |-> "memory", procs |-> {p1}],
   [backend |-> "sqlite", procs |-> {p1}],
   [backend |-> "sqlite", procs |-> {p1, p2}],
   [backend |-> "redis", procs |-> {p1, p2}]}

\* Ids as the simulator and the demo make them.  An id with a colon, which the
\* schema of an event admits, is left out: match_id_from_key() takes its
\* snapshot key for a round history.
MCIds == {<<"apex-001">>, <<"apex-demo">>}

SinkTick(m, p, r, s, inPhase) ==
  [type |-> "tick", match |-> m, play |-> p, round |-> r, seq |-> s, phase |-> inPhase]

SinkEvent(type, m, p, r, s) ==
  [type |-> type, match |-> m, play |-> p, round |-> r, seq |-> s]

Play(m, p) ==
  <<SinkEvent("round_start", m, p, 1, 1), SinkTick(m, p, 1, 2, "freezetime"),
    SinkTick(m, p, 1, 3, "live"), SinkTick(m, p, 1, 4, "live"),
    SinkEvent("round_end", m, p, 1, 5), SinkTick(m, p, 2, 6, "live"),
    SinkEvent("round_end", m, p, 2, 7), SinkEvent("match_end", m, p, 0, 8)>>

\* `dataset` gives each seed its own id.
MCFeeds == {Play("apex-0000", 1) \o Play("apex-0001", 2)}

-----------------------------------------------------------------------------
storageVars == <<part, trackerVars, storeVars, directoryVars, sinkVars>>

MCInit ==
  /\ part \in {"tracker", "store", "directory", "sink"}
  /\ TrackerInit /\ (part # "tracker" => topic = Match(m1, 1))
  /\ StoreInit /\ (part # "store" => deployment.backend = "memory")
  /\ DirectoryInit
  /\ SinkInit

MCNext ==
  \/ part = "tracker" /\ TrackerNext /\ UNCHANGED <<part, storeVars, directoryVars, sinkVars>>
  \/ part = "store" /\ StoreNext /\ UNCHANGED <<part, trackerVars, directoryVars, sinkVars>>
  \/ /\ part = "directory" /\ DirectoryNext
     /\ UNCHANGED <<part, trackerVars, storeVars, sinkVars>>
  \/ part = "sink" /\ SinkNext /\ UNCHANGED <<part, trackerVars, storeVars, directoryVars>>

MCSpec == MCInit /\ [][MCNext]_storageVars
=============================================================================
