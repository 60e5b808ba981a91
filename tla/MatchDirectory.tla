--------------------------- MODULE MatchDirectory ---------------------------
(***************************************************************************)
(* storage/match_state.py over storage/keys.py: the entries of all matches *)
(* share one key space, and discovery is a scan of it.  Reading the live   *)
(* snapshots takes one store call for the keys and one per match; entries  *)
(* are written, dropped and expire in between.                             *)
(*                                                                         *)
(* An id is the sequence of its parts between colons, and so is a key      *)
(* below the match prefix.                                                 *)
(***************************************************************************)
EXTENDS Integers, Sequences, FiniteSets

CONSTANTS
  Ids,       \* match ids, each a sequence of parts
  MaxWrites, \* bound on the writes of a behaviour
  Nothing    \* no entry, or a reader that is not scanning

ASSUME DirectoryAssumption ==
  /\ \A id \in Ids : id \in Seq(STRING) /\ id # <<>>
  /\ MaxWrites \in Nat
  /\ Nothing \notin Ids /\ \A live \in SUBSET Ids : live # Nothing
  /\ Nothing \notin [kind : {"snapshot", "history"}, id : Ids, write : Nat]

VARIABLES
  entries,  \* key -> the entry stored, or Nothing
  writes,   \* writes so far
  dropping, \* the id drop() is half through with, or Nothing
  removed,  \* what the first delete of drop() returned
  answer,   \* the call that returned last
  scan,     \* ids live_snapshots() still has to read, or Nothing
  found,    \* the snapshots it has read
  current,  \* history: per match, its snapshot, or Nothing
  seen      \* history: snapshots that were current at a time during the scan

directoryVars == <<entries, writes, dropping, removed, answer, scan, found, current, seen>>

MatchKey(id) == id

RoundsKey(id) == Append(id, "rounds")

AllKeys == {MatchKey(id) : id \in Ids} \union {RoundsKey(id) : id \in Ids}

NoAnswer == [op |-> "none"]

DirectoryInit ==
  /\ entries = [k \in AllKeys |-> Nothing]
  /\ writes = 0
  /\ dropping = Nothing /\ removed = FALSE
  /\ answer = NoAnswer
  /\ scan = Nothing /\ found = {}
  /\ current = [id \in Ids |-> Nothing]
  /\ seen = {}

-----------------------------------------------------------------------------
\* Mutant: facet keys are taken for match ids.
IdFromAnyKey(key) == {key}

\* match_id_from_key: a key with a further colon is not a match.
IdFromKey(key) == IF Len(key) = 1 THEN {key} ELSE {}

\* live_match_ids: every key below the prefix is asked for its id.
LiveIds == UNION {IdFromKey(k) : k \in {k \in AllKeys : entries[k] # Nothing}}

\* What get_snapshot makes of an entry: a history does not parse as one.
Parsed(key, kind) ==
  IF entries[key] # Nothing /\ entries[key].kind = kind THEN entries[key] ELSE Nothing

Snapshot(id, n) == [kind |-> "snapshot", id |-> id, write |-> n]

PublishSnapshot(id) ==
  /\ writes < MaxWrites
  /\ writes' = writes + 1
  /\ entries' = [entries EXCEPT ![MatchKey(id)] = Snapshot(id, writes')]
  /\ current' = [current EXCEPT ![id] = Snapshot(id, writes')]
  /\ seen' = IF scan = Nothing THEN seen ELSE seen \union {Snapshot(id, writes')}
  /\ answer' = NoAnswer
  /\ UNCHANGED <<dropping, removed, scan, found>>

\* append_round, as one write (MatchTracker has its read and its write).
AppendHistory(id) ==
  /\ writes < MaxWrites
  /\ writes' = writes + 1
  /\ entries' = [entries EXCEPT ![RoundsKey(id)] =
                   [kind |-> "history", id |-> id, write |-> writes']]
  /\ answer' = NoAnswer
  /\ UNCHANGED <<dropping, removed, scan, found, current, seen>>

\* An entry reaches its TTL.
Expire(id) ==
  \/ /\ entries[MatchKey(id)] # Nothing
     /\ entries' = [entries EXCEPT ![MatchKey(id)] = Nothing]
     /\ current' = [current EXCEPT ![id] = Nothing]
     /\ answer' = NoAnswer
     /\ UNCHANGED <<writes, dropping, removed, scan, found, seen>>
  \/ /\ entries[RoundsKey(id)] # Nothing
     /\ entries' = [entries EXCEPT ![RoundsKey(id)] = Nothing]
     /\ answer' = NoAnswer
     /\ UNCHANGED <<writes, dropping, removed, scan, found, current, seen>>

\* drop(): the first delete ...
DropSnapshot(id) ==
  /\ dropping = Nothing
  /\ dropping' = id
  /\ removed' = (entries[MatchKey(id)] # Nothing)
  /\ entries' = [entries EXCEPT ![MatchKey(id)] = Nothing]
  /\ current' = [current EXCEPT ![id] = Nothing]
  /\ answer' = NoAnswer
  /\ UNCHANGED <<writes, scan, found, seen>>

\* ... and the second.
DropHistory ==
  /\ dropping # Nothing
  /\ entries' = [entries EXCEPT ![RoundsKey(dropping)] = Nothing]
  /\ answer' = [op |-> "drop", removed |-> removed \/ entries[RoundsKey(dropping)] # Nothing]
  /\ dropping' = Nothing
  /\ UNCHANGED <<writes, removed, scan, found, current, seen>>

ListIds ==
  /\ answer' = [op |-> "ids", ids |-> LiveIds]
  /\ UNCHANGED <<entries, writes, dropping, removed, scan, found, current, seen>>

\* live_snapshots(): the keys ...
ScanKeys ==
  /\ scan = Nothing
  /\ scan' = LiveIds
  /\ found' = {}
  /\ seen' = {current[id] : id \in Ids} \ {Nothing}
  /\ answer' = NoAnswer
  /\ UNCHANGED <<entries, writes, dropping, removed, current>>

\* ... then one snapshot after the other, skipping what is gone.
ScanRead ==
  /\ scan \notin {Nothing, {}}
  /\ \E id \in scan :
       /\ scan' = scan \ {id}
       /\ found' = found \union ({Parsed(MatchKey(id), "snapshot")} \ {Nothing})
  /\ answer' = NoAnswer
  /\ UNCHANGED <<entries, writes, dropping, removed, current, seen>>

ScanReturns ==
  /\ scan = {}
  /\ scan' = Nothing
  /\ answer' = [op |-> "snapshots", snapshots |-> found]
  /\ UNCHANGED <<entries, writes, dropping, removed, found, current, seen>>

DirectoryNext ==
  \/ \E id \in Ids :
       PublishSnapshot(id) \/ AppendHistory(id) \/ Expire(id) \/ DropSnapshot(id)
  \/ DropHistory \/ ListIds \/ ScanKeys \/ ScanRead \/ ScanReturns

DirectorySpec == DirectoryInit /\ [][DirectoryNext]_directoryVars

-----------------------------------------------------------------------------
IdsExact ==
  answer.op = "ids" => answer.ids = {id \in Ids : current[id] # Nothing}

OwnSnapshot == \A id \in Ids : Parsed(MatchKey(id), "snapshot") = current[id]

ScanReturnsCurrent ==
  answer.op = "snapshots" =>
    /\ answer.snapshots \subseteq seen
    /\ \A s, t \in answer.snapshots : s.id = t.id => s = t

(***************************************************************************)
(* Discovery returns the ids of the matches that hold a live snapshot      *)
(* ("Return the ids of every match holding a live snapshot"), and nothing  *)
(* else: no facet of a match is taken for another match.  Each match reads *)
(* back its own snapshot, the one published last, however many matches and *)
(* facets share the key space.  A scan returns at most one snapshot per    *)
(* match, each of which was the current one at some time during the scan,  *)
(* although every read is a call of its own.                               *)
(***************************************************************************)
DiscoveryExact == IdsExact /\ OwnSnapshot /\ ScanReturnsCurrent
=============================================================================
