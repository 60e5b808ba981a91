----------------------------- MODULE StateStore -----------------------------
(***************************************************************************)
(* storage/state.py: the key/value store with per-key expiry, on its three *)
(* backends.  The memory store lives in one process; a SQLite file and a   *)
(* Redis server may be shared by processes that interleave between two     *)
(* statements.  Time is a clock that advances by whole units.              *)
(*                                                                         *)
(* A call is one step, except get() of SqliteStateStore: when the row it   *)
(* selected has expired it deletes the key in a second transaction.        *)
(***************************************************************************)
EXTENDS Integers, FiniteSets

CONSTANTS
  Deployments, \* what the behaviours start from: a backend, and the processes
               \* that opened it
  Keys,
  Values,
  TTLs,        \* values of ttl; 0 stands for None
  MaxTime,     \* bound on the clock
  Missing       \* no row, or None returned

ASSUME StoreAssumption ==
  /\ \A d \in Deployments :
       /\ d.backend \in {"memory", "sqlite", "redis"}
       /\ IsFiniteSet(d.procs)
       /\ d.backend = "memory" => Cardinality(d.procs) = 1
  /\ TTLs \subseteq Nat
  /\ MaxTime \in Nat
  /\ Missing \notin Keys /\ Missing \notin Values
  /\ Missing \notin [value : Values, expires : Nat]

VARIABLES
  deployment, \* the backend and the processes of this behaviour
  now,      \* time.time()
  table,    \* key -> row, or Missing
  deleting, \* per process, the key get() is about to delete, or Missing
  reply,    \* the call that returned last, with what it returned
  written,  \* history: key -> row of the last set() not undone by delete()
  robbed    \* history: keys whose unexpired row a late DELETE took

storeVars == <<deployment, now, table, deleting, reply, written, robbed>>

Forever == MaxTime + 1

Row(v, ttl) == [value |-> v, expires |-> IF ttl = 0 THEN Forever ELSE now + ttl]

NoReply == [op |-> "none"]

Backend == deployment.backend

Procs == deployment.procs

StoreInit ==
  /\ deployment \in Deployments
  /\ now = 0
  /\ table = [k \in Keys |-> Missing]
  /\ deleting = [p \in Procs |-> Missing]
  /\ reply = NoReply
  /\ written = [k \in Keys |-> Missing]
  /\ robbed = {}

-----------------------------------------------------------------------------
Live(row) == row # Missing /\ now < row.expires

Expired(row) == row # Missing /\ now >= row.expires

Ready(p) == deleting[p] = Missing

\* Mutant: the sweep also takes the rows that expire later.
SweepAll(rows) ==
  [k \in Keys |-> IF rows[k] # Missing /\ rows[k].expires # Forever THEN Missing ELSE rows[k]]

\* The DELETE of set(): rows that expired before now.
Sweep(rows) ==
  [k \in Keys |-> IF rows[k] # Missing /\ rows[k].expires < now THEN Missing ELSE rows[k]]

Set(p, k, v, ttl) ==
  /\ Ready(p)
  /\ table' = LET rows == [table EXCEPT ![k] = Row(v, ttl)]
              IN IF Backend = "sqlite" THEN Sweep(rows) ELSE rows
  /\ written' = [written EXCEPT ![k] = Row(v, ttl)]
  /\ robbed' = robbed \ {k}
  /\ reply' = NoReply
  /\ UNCHANGED <<deployment, now, deleting>>

\* Mutant: expiry is left to the sweep.
GetAnyRow(p, k) ==
  /\ Ready(p)
  /\ reply' = [op |-> "get", key |-> k,
               value |-> IF table[k] = Missing THEN Missing ELSE table[k].value]
  /\ UNCHANGED <<deployment, now, table, written, robbed, deleting>>

\* get(): what an expired row leaves behind depends on the backend.
Get(p, k) ==
  /\ Ready(p)
  /\ reply' = [op |-> "get", key |-> k,
               value |-> IF Live(table[k]) THEN table[k].value ELSE Missing]
  /\ \/ /\ Expired(table[k]) /\ Backend = "memory"
        /\ table' = [table EXCEPT ![k] = Missing]
        /\ UNCHANGED deleting
     \/ /\ Expired(table[k]) /\ Backend = "sqlite"
        /\ deleting' = [deleting EXCEPT ![p] = k]
        /\ UNCHANGED table
     \/ /\ ~Expired(table[k]) \/ Backend = "redis"
        /\ UNCHANGED <<table, deleting>>
  /\ UNCHANGED <<deployment, now, written, robbed>>

\* The second transaction of get(): DELETE ... WHERE key = ?  By then the row
\* may be one that another process has just set.
DeleteExpired(p) ==
  /\ deleting[p] # Missing
  /\ table' = [table EXCEPT ![deleting[p]] = Missing]
  /\ deleting' = [deleting EXCEPT ![p] = Missing]
  /\ robbed' = IF Live(table[deleting[p]]) THEN robbed \union {deleting[p]} ELSE robbed
  /\ reply' = NoReply
  /\ UNCHANGED <<deployment, now, written>>

Delete(p, k) ==
  /\ Ready(p)
  /\ table' = [table EXCEPT ![k] = Missing]
  /\ written' = [written EXCEPT ![k] = Missing]
  /\ robbed' = robbed \ {k}
  /\ reply' = NoReply
  /\ UNCHANGED <<deployment, now, deleting>>

\* What keys("*") selects: SQLite still lists a row in its last instant.
Listed(k) ==
  \/ Live(table[k])
  \/ Backend = "sqlite" /\ table[k] # Missing /\ table[k].expires = now

ListKeys(p) ==
  /\ Ready(p)
  /\ reply' = [op |-> "keys", listed |-> {k \in Keys : Listed(k)}]
  /\ UNCHANGED <<deployment, now, table, deleting, written, robbed>>

\* Mutant: SQLite would not survive a restart.
StopDropping(p) ==
  /\ table' = [k \in Keys |-> Missing]
  /\ deleting' = [deleting EXCEPT ![p] = Missing]
  /\ reply' = NoReply
  /\ UNCHANGED <<deployment, now, written, robbed>>

\* The process ends, between two statements if it crashes, and opens its
\* store again.
Reopen(p) ==
  /\ deleting' = [deleting EXCEPT ![p] = Missing]
  /\ \/ /\ Backend = "memory"
        /\ table' = [k \in Keys |-> Missing]
        /\ written' = [k \in Keys |-> Missing]
     \/ /\ Backend # "memory"
        /\ UNCHANGED <<table, written>>
  /\ reply' = NoReply
  /\ UNCHANGED <<deployment, now, robbed>>

\* Redis drops a row as it expires.
ClockTick ==
  /\ now < MaxTime
  /\ now' = now + 1
  /\ table' = IF Backend # "redis" THEN table
              ELSE [k \in Keys |-> IF table[k] # Missing /\ table[k].expires <= now'
                                     THEN Missing ELSE table[k]]
  /\ reply' = NoReply
  /\ UNCHANGED <<deployment, deleting, written, robbed>>

StoreNext ==
  \/ \E p \in Procs, k \in Keys :
       Get(p, k) \/ Delete(p, k) \/ \E v \in Values, ttl \in TTLs : Set(p, k, v, ttl)
  \/ \E p \in Procs : DeleteExpired(p) \/ ListKeys(p) \/ Reopen(p)
  \/ ClockTick

StoreSpec == StoreInit /\ [][StoreNext]_storeVars

-----------------------------------------------------------------------------
Rows == [value : Values, expires : Nat] \union {Missing}

StoreTypeOK ==
  /\ now \in 0..MaxTime
  /\ table \in [Keys -> Rows]
  /\ deployment \in Deployments
  /\ deleting \in [Procs -> Keys \union {Missing}]
  /\ written \in [Keys -> Rows]
  /\ robbed \subseteq Keys

(***************************************************************************)
(* A value that was set is in the store until it expires or is deleted by  *)
(* a caller: no read, sweep, restart of a durable backend or other process *)
(* removes it.  The one exception is a SQLite file that several processes  *)
(* opened: the delete of an expired row in get() goes by key alone, and    *)
(* can take the value that another process has set meanwhile.              *)
(***************************************************************************)
UnexpiredSurvives ==
  /\ \A k \in Keys \ robbed : Live(written[k]) => table[k] = written[k]
  /\ robbed # {} => Backend = "sqlite" /\ Cardinality(Procs) > 1

GetReturnsLatest ==
  reply.op = "get" /\ reply.key \notin robbed =>
    reply.value = (IF Live(written[reply.key]) THEN written[reply.key].value ELSE Missing)

KeysAgreeWithGet ==
  reply.op = "keys" =>
    LET readable == {k \in Keys : Live(table[k])}
        expiring == {k \in Keys : table[k] # Missing /\ table[k].expires = now}
    IN /\ readable \subseteq reply.listed
       /\ reply.listed \subseteq readable \union
            (IF Backend = "sqlite" THEN expiring ELSE {})

(***************************************************************************)
(* get() returns the value that was set last, and None once that expired   *)
(* ("Return the value for key, or None if absent or expired"), with the    *)
(* same exception.  keys() lists exactly the keys get() would return a     *)
(* value for, on every backend ("swapping backends changes nothing",       *)
(* test_match_state.py), except that SQLite still lists a row at the very  *)
(* instant it expires.                                                     *)
(***************************************************************************)
RepliesExact == StoreTypeOK /\ GetReturnsLatest /\ KeysAgreeWithGet

(***************************************************************************)
(* A store loses nothing that has not expired and answers with what was    *)
(* set last: UnexpiredSurvives and RepliesExact.                           *)
(***************************************************************************)
StoreExact == UnexpiredSurvives /\ RepliesExact
=============================================================================
