---------------------------- MODULE StorageProofs ----------------------------
(***************************************************************************)
(* What is kept of a match.  The three stores for any keys, values,        *)
(* deployments and clock: nothing that has not expired is lost, and every  *)
(* answer is exact, with the one exception of a SQLite file that several   *)
(* processes share.  The directory for any ids without a colon: discovery  *)
(* and scans return the live snapshots.  The sink for any feeds and batch  *)
(* size: no tick goes astray, and every label is that of its own round.    *)
(* The round histories for any topics: they are the last rounds recorded.  *)
(* The momentum of a snapshot for any topics of whole rounds: the counters *)
(* kept while samples come and go are those of the samples within a span   *)
(* of the last one of their kind.                                          *)
(***************************************************************************)
EXTENDS StateStore, MatchDirectory, DuckDBSink, MatchTracker, FiniteSetTheorems, TLAPS

Alone == \A p, q \in Procs : p = q

\* A row is the last one set, or gone; gone early only when it was robbed.
RowsAreWritten ==
  \A k \in Keys :
    /\ table[k] \in {Missing, written[k]}
    /\ k \notin robbed /\ Live(written[k]) => table[k] = written[k]

\* What one process alone is about to delete has expired.
DeletesAreLate ==
  /\ \A p \in Procs : deleting[p] # Missing => Backend = "sqlite"
  /\ Alone => \A p \in Procs : deleting[p] # Missing => Expired(table[deleting[p]])
  /\ robbed # {} => Backend = "sqlite" /\ ~Alone

StoreInv ==
  /\ StoreTypeOK /\ RowsAreWritten /\ DeletesAreLate
  /\ GetReturnsLatest /\ KeysAgreeWithGet

-----------------------------------------------------------------------------
LEMMA AloneIsOne ==
  ASSUME deployment \in Deployments
  PROVE  /\ IsFiniteSet(Procs)
         /\ ~Alone => Cardinality(Procs) > 1
         /\ Backend = "memory" => Alone
<1>1. IsFiniteSet(Procs)
  BY StoreAssumption DEF Procs
<1>2. Cardinality(Procs) \in Nat
  BY <1>1, FS_CardinalityType
<1>3. Cardinality(Procs) = 1 => Alone
  BY <1>1, FS_Singleton DEF Alone
<1>4. Cardinality(Procs) = 0 => Alone
  BY <1>1, FS_EmptySet DEF Alone
<1>5. Backend = "memory" => Cardinality(Procs) = 1
  BY StoreAssumption DEF Backend, Procs
<1> QED
  BY <1>1, <1>2, <1>3, <1>4, <1>5

LEMMA RowIsTyped ==
  ASSUME StoreTypeOK, NEW v \in Values, NEW ttl \in TTLs
  PROVE  Row(v, ttl) \in Rows /\ Row(v, ttl) # Missing
<1>1. ttl \in Nat /\ now \in Nat /\ MaxTime \in Nat
  BY StoreAssumption DEF StoreTypeOK
<1>2. Row(v, ttl).expires \in Nat
  BY <1>1 DEF Row, Forever
<1> QED
  BY <1>2, StoreAssumption DEF Row, Rows

LEMMA StoreInitInv == StoreInit => StoreInv
<1> SUFFICES ASSUME StoreInit PROVE StoreInv
  OBVIOUS
<1>1. StoreTypeOK
  BY StoreAssumption DEF StoreInit, StoreTypeOK, Rows
<1> QED
  BY <1>1 DEF StoreInit, StoreInv, RowsAreWritten, DeletesAreLate, GetReturnsLatest,
              KeysAgreeWithGet, Live, NoReply
-----------------------------------------------------------------------------
\* Nobody's reply to read and no listing: what most calls leave behind.
LEMMA NoReplyIsExact ==
  ASSUME reply' = NoReply PROVE GetReturnsLatest' /\ KeysAgreeWithGet'
BY DEF NoReply, GetReturnsLatest, KeysAgreeWithGet

\* set(), with the sweep of SQLite: the clock stands still, so what is live
\* stays.
LEMMA SetKeeps ==
  ASSUME StoreInv, NEW p \in Procs, NEW k \in Keys, NEW v \in Values, NEW ttl \in TTLs,
         Set(p, k, v, ttl)
  PROVE  StoreInv'
<1> USE DEF StoreInv
<1> DEFINE rows == [table EXCEPT ![k] = Row(v, ttl)]
<1>1. /\ UNCHANGED <<deployment, now, deleting>> /\ Ready(p)
      /\ written' = [written EXCEPT ![k] = Row(v, ttl)]
      /\ robbed' = robbed \ {k} /\ reply' = NoReply
      /\ table' = IF Backend = "sqlite" THEN Sweep(rows) ELSE rows
  BY DEF Set
<1>2. Row(v, ttl) \in Rows /\ Row(v, ttl) # Missing
  BY RowIsTyped
<1>3. rows \in [Keys -> Rows] /\ written' \in [Keys -> Rows]
  BY <1>1, <1>2 DEF StoreTypeOK
<1>4. now \in Nat /\ \A r \in Rows : r # Missing => r.expires \in Nat
  BY StoreAssumption DEF StoreTypeOK, Rows
<1>5. /\ table' \in [Keys -> Rows]
      /\ \A j \in Keys : /\ table'[j] \in {Missing, rows[j]}
                         /\ rows[j] # Missing /\ now < rows[j].expires => table'[j] = rows[j]
  <2> HIDE DEF rows
  <2>1. CASE Backend = "sqlite"
    <3>1. \A j \in Keys : rows[j] \in Rows /\ (rows[j] # Missing => rows[j].expires \in Nat)
      BY <1>3, <1>4
    <3>2. table' = Sweep(rows) /\ Missing \in Rows
      BY <1>1, <2>1 DEF Rows
    <3> QED
      BY <1>4, <3>1, <3>2 DEF Sweep
  <2>2. CASE Backend # "sqlite"
    BY <1>1, <1>3, <2>2
  <2> QED
    BY <2>1, <2>2
<1>6. StoreTypeOK'
  BY <1>1, <1>3, <1>5 DEF StoreTypeOK, Procs
<1>7. \A j \in Keys : rows[j] \in {Missing, written'[j]}
  BY <1>1 DEF RowsAreWritten, StoreTypeOK
<1>8. RowsAreWritten'
  <2> SUFFICES ASSUME NEW j \in Keys
               PROVE  /\ table'[j] \in {Missing, written'[j]}
                      /\ j \notin robbed' /\ Live(written[j])' => table'[j] = written'[j]
    BY DEF RowsAreWritten
  <2>1. j \notin robbed' /\ Live(written[j])' => rows[j] = written'[j]
    BY <1>1 DEF RowsAreWritten, StoreTypeOK, Live
  <2> QED
    BY <1>1, <1>5, <1>7, <2>1 DEF Live
<1>9. DeletesAreLate'
  <2>1. Alone => \A q \in Procs : deleting[q] = Missing
    BY <1>1 DEF Alone, Ready
  <2> QED
    BY <1>1, <2>1 DEF DeletesAreLate, Alone, Procs, Backend
<1> QED
  BY <1>1, <1>6, <1>8, <1>9, NoReplyIsExact

\* get(): what it returns is the live row, and what it removes has expired.
LEMMA GetKeeps ==
  ASSUME StoreInv, NEW p \in Procs, NEW k \in Keys, Get(p, k)
  PROVE  StoreInv'
<1> USE DEF StoreInv
<1>1. /\ UNCHANGED <<deployment, now, written, robbed>> /\ Ready(p)
      /\ reply' = [op |-> "get", key |-> k,
                   value |-> IF Live(table[k]) THEN table[k].value ELSE Missing]
  BY DEF Get
<1>2. \/ Expired(table[k]) /\ table' = [table EXCEPT ![k] = Missing] /\ deleting' = deleting
      \/ table' = table /\ deleting' = deleting
      \/ /\ Expired(table[k]) /\ Backend = "sqlite" /\ table' = table
         /\ deleting' = [deleting EXCEPT ![p] = k]
  BY DEF Get
<1>3. StoreTypeOK'
  <2>1. table' \in [Keys -> Rows] /\ deleting' \in [Procs -> Keys \union {Missing}]
    BY <1>2 DEF StoreTypeOK, Rows
  <2> QED
    BY <1>1, <2>1 DEF StoreTypeOK, Procs
<1>4. ~(Live(table[k]) /\ Expired(table[k]))
  BY StoreAssumption DEF Live, Expired, StoreTypeOK, Rows
<1>5. RowsAreWritten' /\ GetReturnsLatest'
  <2>1. k \notin robbed /\ Live(written[k]) => table[k] = written[k]
    BY DEF RowsAreWritten
  <2>2. \A j \in Keys \ {k} : table'[j] = table[j]
    BY <1>2 DEF StoreTypeOK
  <2>3. table'[k] \in {Missing, table[k]} /\ (Live(table[k]) => table'[k] = table[k])
    BY <1>2, <1>4 DEF StoreTypeOK
  <2>4. RowsAreWritten'
    BY <1>1, <2>1, <2>2, <2>3 DEF RowsAreWritten, Live
  <2>5. k \notin robbed =>
          (IF Live(table[k]) THEN table[k].value ELSE Missing)
            = (IF Live(written[k]) THEN written[k].value ELSE Missing)
    <3>1. table[k] \in {Missing, written[k]}
      BY DEF RowsAreWritten
    <3>2. ~Live(Missing)
      BY DEF Live
    <3> QED
      BY <2>1, <3>1, <3>2
  <2>6. GetReturnsLatest'
    BY <1>1, <2>5 DEF GetReturnsLatest, Live
  <2> QED
    BY <2>4, <2>6
<1>6. DeletesAreLate'
  <2>1. Alone => \A q \in Procs : deleting[q] = Missing
    BY <1>1 DEF Alone, Ready
  <2>2. Alone => \A q \in Procs : deleting'[q] # Missing => Expired(table[k]) /\
                                     deleting'[q] = k /\ table' = table
    BY <1>2, <2>1 DEF Alone, StoreTypeOK
  <2>3. \A q \in Procs : deleting'[q] # Missing => Backend = "sqlite"
    BY <1>2 DEF DeletesAreLate, StoreTypeOK
  <2> QED
    BY <1>1, <2>2, <2>3 DEF DeletesAreLate, Alone, Procs, Backend, Expired
<1>7. KeysAgreeWithGet'
  BY <1>1 DEF KeysAgreeWithGet
<1> QED
  BY <1>3, <1>5, <1>6, <1>7

\* The second transaction of get(): it takes a live row only from another
\* process.
LEMMA DeleteExpiredKeeps ==
  ASSUME StoreInv, NEW p \in Procs, DeleteExpired(p)
  PROVE  StoreInv'
<1> USE DEF StoreInv
<1> DEFINE k == deleting[p]
<1>1. /\ UNCHANGED <<deployment, now, written>> /\ reply' = NoReply
      /\ k \in Keys /\ k # Missing
      /\ table' = [table EXCEPT ![k] = Missing]
      /\ deleting' = [deleting EXCEPT ![p] = Missing]
      /\ robbed' = IF Live(table[k]) THEN robbed \union {k} ELSE robbed
  BY DEF DeleteExpired, StoreTypeOK
<1>2. StoreTypeOK'
  <2>1. table' \in [Keys -> Rows] /\ deleting' \in [Procs -> Keys \union {Missing}]
    BY <1>1 DEF StoreTypeOK, Rows
  <2> QED
    BY <1>1, <2>1 DEF StoreTypeOK, Procs
<1>3. RowsAreWritten'
  <2>1. /\ table'[k] = Missing /\ \A j \in Keys \ {k} : table'[j] = table[j]
    BY <1>1 DEF StoreTypeOK
  <2>2. k \notin robbed' => ~Live(written[k])
    BY <1>1 DEF RowsAreWritten
  <2> QED
    BY <1>1, <2>1, <2>2 DEF RowsAreWritten, Live
<1>4. Backend = "sqlite" /\ (Live(table[k]) => ~Alone)
  <2>1. ~(Live(table[k]) /\ Expired(table[k]))
    BY <1>1, StoreAssumption DEF Live, Expired, StoreTypeOK, Rows
  <2> QED
    BY <1>1, <2>1 DEF DeletesAreLate
<1>5. Alone => \A q \in Procs : deleting'[q] = Missing
  BY <1>1 DEF Alone, StoreTypeOK
<1>6. DeletesAreLate'
  BY <1>1, <1>4, <1>5 DEF DeletesAreLate, Alone, Procs, Backend, StoreTypeOK
<1> QED
  BY <1>1, <1>2, <1>3, <1>6, NoReplyIsExact

LEMMA DeleteKeeps ==
  ASSUME StoreInv, NEW p \in Procs, NEW k \in Keys, Delete(p, k)
  PROVE  StoreInv'
<1> USE DEF StoreInv
<1>1. /\ UNCHANGED <<deployment, now, deleting>> /\ Ready(p) /\ reply' = NoReply
      /\ table' = [table EXCEPT ![k] = Missing]
      /\ written' = [written EXCEPT ![k] = Missing]
      /\ robbed' = robbed \ {k}
  BY DEF Delete
<1>2. table' \in [Keys -> Rows] /\ written' \in [Keys -> Rows]
  BY <1>1 DEF StoreTypeOK, Rows
<1>3. StoreTypeOK'
  BY <1>1, <1>2 DEF StoreTypeOK, Procs
<1>4. RowsAreWritten'
  BY <1>1 DEF RowsAreWritten, StoreTypeOK, Live
<1>5. DeletesAreLate'
  <2>1. Alone => \A q \in Procs : deleting[q] = Missing
    BY <1>1 DEF Alone, Ready
  <2> QED
    BY <1>1, <2>1 DEF DeletesAreLate, Alone, Procs, Backend
<1> QED
  BY <1>1, <1>3, <1>4, <1>5, NoReplyIsExact

\* keys(): the live rows, and SQLite's in their last instant.
LEMMA ListKeeps ==
  ASSUME StoreInv, NEW p \in Procs, ListKeys(p)
  PROVE  StoreInv'
<1> USE DEF StoreInv
<1>1. /\ UNCHANGED <<deployment, now, table, deleting, written, robbed>>
      /\ reply' = [op |-> "keys", listed |-> {k \in Keys : Listed(k)}]
  BY DEF ListKeys
<1>2. StoreTypeOK' /\ RowsAreWritten' /\ DeletesAreLate'
  BY <1>1 DEF StoreTypeOK, RowsAreWritten, DeletesAreLate, Live, Expired, Alone, Procs, Backend
<1>3. GetReturnsLatest' /\ KeysAgreeWithGet'
  BY <1>1 DEF GetReturnsLatest, KeysAgreeWithGet, Listed, Live, Backend
<1> QED
  BY <1>2, <1>3

LEMMA ReopenKeeps ==
  ASSUME StoreInv, NEW p \in Procs, Reopen(p)
  PROVE  StoreInv'
<1> USE DEF StoreInv
<1>1. /\ UNCHANGED <<deployment, now, robbed>> /\ reply' = NoReply
      /\ deleting' = [deleting EXCEPT ![p] = Missing]
      /\ \/ Backend = "memory" /\ table' = [k \in Keys |-> Missing]
                               /\ written' = [k \in Keys |-> Missing]
         \/ UNCHANGED <<table, written>>
  BY DEF Reopen
<1>2. StoreTypeOK'
  <2>1. table' \in [Keys -> Rows] /\ written' \in [Keys -> Rows]
    BY <1>1 DEF StoreTypeOK, Rows
  <2>2. deleting' \in [Procs -> Keys \union {Missing}]
    BY <1>1 DEF StoreTypeOK
  <2> QED
    BY <1>1, <2>1, <2>2 DEF StoreTypeOK, Procs
<1>3. RowsAreWritten'
  BY <1>1 DEF RowsAreWritten, Live
<1>4. Alone => \A q \in Procs : deleting'[q] = Missing
  BY <1>1 DEF Alone, StoreTypeOK
<1>5. \A q \in Procs : deleting'[q] # Missing => deleting[q] # Missing
  BY <1>1 DEF StoreTypeOK
<1>6. DeletesAreLate'
  BY <1>1, <1>4, <1>5 DEF DeletesAreLate, Alone, Procs, Backend
<1> QED
  BY <1>1, <1>2, <1>3, <1>6, NoReplyIsExact

\* Time passes: what was dead stays dead, and Redis drops only that.
LEMMA ClockKeeps == StoreInv /\ ClockTick => StoreInv'
<1> SUFFICES ASSUME StoreInv, ClockTick PROVE StoreInv'
  OBVIOUS
<1> USE DEF StoreInv
<1>1. /\ UNCHANGED <<deployment, deleting, written, robbed>> /\ reply' = NoReply
      /\ now \in 0..MaxTime /\ now' = now + 1 /\ now' \in 0..MaxTime
      /\ table' = IF Backend # "redis" THEN table
                  ELSE [k \in Keys |-> IF table[k] # Missing /\ table[k].expires <= now'
                                         THEN Missing ELSE table[k]]
  BY StoreAssumption DEF ClockTick, StoreTypeOK
<1>2. StoreTypeOK'
  <2>1. table' \in [Keys -> Rows]
    BY <1>1 DEF StoreTypeOK, Rows
  <2> QED
    BY <1>1, <2>1 DEF StoreTypeOK, Procs
<1>3. \A r \in Rows : r # Missing => r.expires \in Nat
  BY DEF Rows
<1>4. \A k \in Keys : written[k] \in Rows /\ table[k] \in Rows
  BY DEF StoreTypeOK
<1>5. RowsAreWritten'
  <2> SUFFICES ASSUME NEW k \in Keys
               PROVE  /\ table'[k] \in {Missing, written'[k]}
                      /\ k \notin robbed' /\ Live(written[k])' => table'[k] = written'[k]
    BY DEF RowsAreWritten
  <2>1. Live(written[k])' => Live(written[k]) /\ written[k].expires > now'
    BY <1>1, <1>3, <1>4 DEF Live
  <2>2. table'[k] \in {Missing, table[k]}
    BY <1>1
  <2>3. table[k] # Missing /\ table[k].expires > now' => table'[k] = table[k]
    BY <1>1, <1>3, <1>4
  <2> QED
    BY <1>1, <2>1, <2>2, <2>3 DEF RowsAreWritten, Live
<1>6. DeletesAreLate'
  <2>1. Backend = "sqlite" => table' = table
    BY <1>1
  <2>2. \A r \in Rows : Expired(r) => Expired(r)'
    BY <1>1, <1>3 DEF Expired
  <2>3. \A p \in Procs : deleting[p] # Missing => deleting[p] \in Keys
    BY DEF StoreTypeOK
  <2> QED
    BY <1>1, <1>4, <2>1, <2>2, <2>3 DEF DeletesAreLate, Alone, Procs, Backend, Expired
<1> QED
  BY <1>1, <1>2, <1>5, <1>6, NoReplyIsExact

LEMMA StutterKeeps == StoreInv /\ UNCHANGED storeVars => StoreInv'
BY DEF StoreInv, storeVars, StoreTypeOK, RowsAreWritten, DeletesAreLate, GetReturnsLatest,
       KeysAgreeWithGet, Live, Expired, Alone, Procs, Backend

-----------------------------------------------------------------------------
(***************************************************************************)
(* The inductive invariant: a key holds the row set last or none, none     *)
(* only when that one expired or was robbed; a process alone with its file *)
(* deletes only what has expired.                                          *)
(***************************************************************************)
THEOREM StoreInvariant == StoreSpec => []StoreInv
<1>1. StoreInv /\ [StoreNext]_storeVars => StoreInv'
  BY SetKeeps, GetKeeps, DeleteExpiredKeeps, DeleteKeeps, ListKeeps, ReopenKeeps, ClockKeeps,
     StutterKeeps DEF StoreNext
<1> QED
  BY <1>1, StoreInitInv, PTL DEF StoreSpec

(***************************************************************************)
(* On every backend, in every deployment: a value stays until it expires   *)
(* or is deleted, get() returns the one set last, keys() lists what get()  *)
(* finds.  A SQLite file with several processes alone may lose a value, to *)
(* a read of another process that saw the row before expire.               *)
(***************************************************************************)
THEOREM StoresAreExact == StoreSpec => []StoreExact
<1>1. StoreInv => StoreExact
  <2> SUFFICES ASSUME StoreInv PROVE StoreExact
    OBVIOUS
  <2> USE DEF StoreInv
  <2>1. UnexpiredSurvives
    BY AloneIsOne DEF UnexpiredSurvives, RowsAreWritten, DeletesAreLate, StoreTypeOK
  <2> QED
    BY <2>1 DEF StoreExact, RepliesExact
<1> QED
  BY <1>1, StoreInvariant, PTL

-----------------------------------------------------------------------------
(***************************************************************************)
(* The directory of the keys, for ids that are one part: every id the      *)
(* simulator, the demo and `dataset` make.                                 *)
(***************************************************************************)
\* The simulator and the demo make ids without a colon.
Plain == \A id \in Ids : Len(id) = 1

IsSnapshot(s, id) == \E n \in Nat : s = Snapshot(id, n)

OnePerMatch(read) == \A s, t \in read : s.id = t.id => s = t

\* A match's keys hold entries of their own kind.
EntriesOwn ==
  \A id \in Ids :
    /\ entries[MatchKey(id)] = current[id]
    /\ current[id] = Nothing \/ IsSnapshot(current[id], id)

DirectoryTypeOK ==
  /\ writes \in Nat
  /\ entries = [k \in AllKeys |-> entries[k]]
  /\ current = [id \in Ids |-> current[id]]
  /\ dropping \in Ids \union {Nothing}
  /\ scan = Nothing \/ scan \in SUBSET Ids

\* A scan has read one snapshot of each match it is done with, and has seen
\* whatever is current now.
ScanSound ==
  /\ \A s \in found : \E id \in Ids : IsSnapshot(s, id)
  /\ found \subseteq seen
  /\ OnePerMatch(found)
  /\ scan # Nothing =>
       /\ \A s \in found : s.id \notin scan
       /\ \A id \in Ids : current[id] # Nothing => current[id] \in seen

DirectoryInv ==
  DirectoryTypeOK /\ EntriesOwn /\ ScanSound /\ IdsExact /\ ScanReturnsCurrent

-----------------------------------------------------------------------------
LEMMA KeysApart ==
  ASSUME Plain, NEW id \in Ids, NEW other \in Ids
  PROVE  /\ MatchKey(id) \in AllKeys /\ RoundsKey(id) \in AllKeys
         /\ MatchKey(id) # RoundsKey(other)
         /\ MatchKey(id) = MatchKey(other) => id = other
         /\ Len(MatchKey(id)) = 1 /\ Len(RoundsKey(id)) # 1
<1>1. \A i \in Ids : Len(RoundsKey(i)) = 2
  <2> TAKE i \in Ids
  <2>1. i \in Seq(STRING) /\ Len(i) = 1
    BY DirectoryAssumption DEF Plain
  <2> QED
    BY <2>1 DEF RoundsKey
<1> QED
  BY <1>1 DEF MatchKey, AllKeys, Plain

LEMMA SnapshotIsSomething ==
  ASSUME NEW id \in Ids, NEW s, IsSnapshot(s, id)
  PROVE  s # Nothing /\ s.id = id /\ s.kind = "snapshot"
BY DirectoryAssumption DEF IsSnapshot, Snapshot

\* Discovery: the keys without a further colon are those of the snapshots.
LEMMA LiveIdsExact ==
  ASSUME Plain, DirectoryInv
  PROVE  LiveIds = {id \in Ids : current[id] # Nothing}
<1>1. \A id \in Ids : id \in AllKeys /\ Len(id) = 1 /\ entries[id] = current[id]
  BY KeysApart DEF DirectoryInv, EntriesOwn, MatchKey
<1>2. \A k \in AllKeys : Len(k) = 1 => k \in Ids
  BY KeysApart DEF AllKeys, MatchKey
<1>3. \A x : x \in LiveIds <=> \E k \in AllKeys : entries[k] # Nothing /\ x \in IdFromKey(k)
  BY DEF LiveIds
<1>4. \A x : x \in LiveIds <=> x \in AllKeys /\ entries[x] # Nothing /\ Len(x) = 1
  BY <1>3 DEF IdFromKey
<1> QED
  BY <1>1, <1>2, <1>4

LEMMA ReadsOwn ==
  ASSUME DirectoryInv, NEW id \in Ids
  PROVE  Parsed(MatchKey(id), "snapshot") = current[id]
BY SnapshotIsSomething DEF DirectoryInv, EntriesOwn, Parsed

LEMMA DirectoryInitInv == DirectoryInit /\ Plain => DirectoryInv
<1> SUFFICES ASSUME DirectoryInit, Plain PROVE DirectoryInv
  OBVIOUS
<1>1. DirectoryTypeOK
  BY DEF DirectoryInit, DirectoryTypeOK
<1>2. EntriesOwn
  BY KeysApart DEF DirectoryInit, EntriesOwn
<1> QED
  BY <1>1, <1>2 DEF DirectoryInit, DirectoryInv, ScanSound, IdsExact, ScanReturnsCurrent, NoAnswer,
     OnePerMatch

LEMMA NoAnswerIsExact ==
  ASSUME answer' = NoAnswer PROVE IdsExact' /\ ScanReturnsCurrent'
BY DEF NoAnswer, IdsExact, ScanReturnsCurrent

LEMMA PublishKeeps ==
  ASSUME Plain, DirectoryInv, NEW id \in Ids, PublishSnapshot(id)
  PROVE  DirectoryInv'
<1> USE DEF PublishSnapshot
<1> DEFINE s == Snapshot(id, writes')
<1>0. writes' \in Nat /\ IsSnapshot(s, id)
  BY DEF DirectoryInv, DirectoryTypeOK, IsSnapshot
<1>1. DirectoryTypeOK'
  BY <1>0, KeysApart DEF DirectoryInv, DirectoryTypeOK
<1>2. /\ current'[id] = s /\ entries'[MatchKey(id)] = s
      /\ \A other \in Ids \ {id} : /\ current'[other] = current[other]
                                   /\ entries'[MatchKey(other)] = entries[MatchKey(other)]
  BY KeysApart DEF DirectoryInv, DirectoryTypeOK
<1>3. EntriesOwn'
  BY <1>0, <1>2 DEF DirectoryInv, EntriesOwn
<1>4. ScanSound'
  BY <1>0, <1>2 DEF DirectoryInv, ScanSound
<1> QED
  BY <1>1, <1>3, <1>4, NoAnswerIsExact DEF DirectoryInv

LEMMA AppendHistoryKeeps ==
  ASSUME Plain, DirectoryInv, NEW id \in Ids, AppendHistory(id)
  PROVE  DirectoryInv'
<1> USE DEF AppendHistory
<1>1. DirectoryTypeOK'
  BY KeysApart DEF DirectoryInv, DirectoryTypeOK
<1>2. \A other \in Ids : entries'[MatchKey(other)] = entries[MatchKey(other)]
  BY KeysApart DEF DirectoryInv, DirectoryTypeOK
<1>3. EntriesOwn'
  BY <1>2 DEF DirectoryInv, EntriesOwn
<1>4. ScanSound'
  BY DEF DirectoryInv, ScanSound
<1> QED
  BY <1>1, <1>3, <1>4, NoAnswerIsExact DEF DirectoryInv

\* What takes an entry away: expiry, and the deletes of drop().
LEMMA RemovalKeeps ==
  ASSUME Plain, DirectoryInv, NEW id \in Ids,
         \/ /\ entries' = [entries EXCEPT ![MatchKey(id)] = Nothing]
            /\ current' = [current EXCEPT ![id] = Nothing]
         \/ /\ entries' = [entries EXCEPT ![RoundsKey(id)] = Nothing]
            /\ UNCHANGED current,
         UNCHANGED <<writes, scan, found, seen>>,
         dropping' \in Ids \union {Nothing},
         IdsExact', ScanReturnsCurrent'
  PROVE  DirectoryInv'
<1>1. DirectoryTypeOK'
  BY KeysApart DEF DirectoryInv, DirectoryTypeOK
<1>2. \A other \in Ids :
        \/ /\ current'[other] = Nothing /\ entries'[MatchKey(other)] = Nothing
        \/ /\ current'[other] = current[other]
           /\ entries'[MatchKey(other)] = entries[MatchKey(other)]
  BY KeysApart DEF DirectoryInv, DirectoryTypeOK
<1>3. EntriesOwn'
  BY <1>2 DEF DirectoryInv, EntriesOwn
<1>4. ScanSound'
  BY <1>2 DEF DirectoryInv, ScanSound
<1> QED
  BY <1>1, <1>3, <1>4 DEF DirectoryInv

LEMMA ListIdsKeeps ==
  ASSUME Plain, DirectoryInv, ListIds
  PROVE  DirectoryInv'
<1>1. IdsExact' /\ ScanReturnsCurrent'
  BY LiveIdsExact DEF ListIds, IdsExact, ScanReturnsCurrent
<1> QED
  BY <1>1 DEF ListIds, DirectoryInv, DirectoryTypeOK, EntriesOwn, ScanSound

LEMMA ScanKeysKeeps ==
  ASSUME Plain, DirectoryInv, ScanKeys
  PROVE  DirectoryInv'
<1>1. scan' \subseteq Ids
  BY LiveIdsExact DEF ScanKeys
<1>2. ScanSound'
  BY DEF ScanKeys, ScanSound, OnePerMatch
<1> QED
  BY <1>1, <1>2, NoAnswerIsExact DEF ScanKeys, DirectoryInv, DirectoryTypeOK, EntriesOwn

LEMMA ScanReadKeeps ==
  ASSUME Plain, DirectoryInv, ScanRead
  PROVE  DirectoryInv'
<1>1. PICK id \in scan :
        /\ scan' = scan \ {id}
        /\ found' = found \union ({Parsed(MatchKey(id), "snapshot")} \ {Nothing})
  BY DEF ScanRead
<1>2. /\ scan \subseteq Ids /\ scan # Nothing /\ scan' # Nothing
      /\ UNCHANGED <<entries, writes, dropping, current, seen>>
  BY <1>1, DirectoryAssumption DEF ScanRead, DirectoryInv, DirectoryTypeOK
<1>3. found' = found \union ({current[id]} \ {Nothing})
  BY <1>1, <1>2, ReadsOwn
<1>4. current[id] # Nothing => /\ IsSnapshot(current[id], id) /\ current[id].id = id
                               /\ current[id] \in seen
  BY <1>1, <1>2, SnapshotIsSomething DEF DirectoryInv, EntriesOwn, ScanSound
<1>5. \A s \in found : s.id # id /\ s.id \notin scan'
  BY <1>1, <1>2 DEF DirectoryInv, ScanSound
<1>6. OnePerMatch(found')
  BY <1>3, <1>4, <1>5 DEF DirectoryInv, ScanSound, OnePerMatch
<1>7. \A s \in found' : s \in found \/ (s = current[id] /\ current[id] # Nothing)
  BY <1>3
<1>8. ScanSound'
  BY <1>1, <1>2, <1>4, <1>5, <1>6, <1>7 DEF DirectoryInv, ScanSound
<1>9. answer' = NoAnswer
  BY DEF ScanRead
<1>10. DirectoryTypeOK' /\ EntriesOwn'
  BY <1>1, <1>2 DEF DirectoryInv, DirectoryTypeOK, EntriesOwn
<1> QED
  BY <1>8, <1>9, <1>10, NoAnswerIsExact DEF DirectoryInv

LEMMA ScanReturnsKeeps ==
  ASSUME Plain, DirectoryInv, ScanReturns
  PROVE  DirectoryInv'
<1>1. IdsExact' /\ ScanReturnsCurrent'
  BY DEF ScanReturns, IdsExact, ScanReturnsCurrent, DirectoryInv, ScanSound, OnePerMatch
<1> QED
  BY <1>1 DEF ScanReturns, DirectoryInv, DirectoryTypeOK, EntriesOwn, ScanSound

LEMMA DirectoryStutterKeeps ==
  DirectoryInv /\ UNCHANGED directoryVars => DirectoryInv'
BY DEF directoryVars, DirectoryInv, DirectoryTypeOK, EntriesOwn, ScanSound, IdsExact,
       ScanReturnsCurrent

LEMMA DirectoryStepKeeps ==
  Plain /\ DirectoryInv /\ [DirectoryNext]_directoryVars => DirectoryInv'
<1> SUFFICES ASSUME Plain, DirectoryInv, [DirectoryNext]_directoryVars PROVE DirectoryInv'
  OBVIOUS
<1>1. ASSUME NEW id \in Ids, Expire(id) PROVE DirectoryInv'
  BY <1>1, RemovalKeeps, NoAnswerIsExact DEF Expire, DirectoryInv, DirectoryTypeOK
<1>2. ASSUME NEW id \in Ids, DropSnapshot(id) PROVE DirectoryInv'
  BY <1>2, RemovalKeeps, NoAnswerIsExact DEF DropSnapshot
<1>3. CASE DropHistory
  <2>1. dropping \in Ids /\ dropping' = Nothing
    BY <1>3 DEF DropHistory, DirectoryInv, DirectoryTypeOK
  <2>2. IdsExact' /\ ScanReturnsCurrent'
    BY <1>3 DEF DropHistory, IdsExact, ScanReturnsCurrent
  <2> QED
    BY <1>3, <2>1, <2>2, RemovalKeeps DEF DropHistory
<1> QED
  BY <1>1, <1>2, <1>3, PublishKeeps, AppendHistoryKeeps, ListIdsKeeps, ScanKeysKeeps,
     ScanReadKeeps, ScanReturnsKeeps, DirectoryStutterKeeps DEF DirectoryNext

(***************************************************************************)
(* The inductive invariant of the directory: a match's key holds its own   *)
(* current snapshot, and a scan holds one snapshot, seen since it began,   *)
(* of each match it is done with.                                          *)
(***************************************************************************)
THEOREM DirectoryInvariant ==
  ASSUME Plain PROVE DirectorySpec => []DirectoryInv
<1>1. DirectoryInit => DirectoryInv
  BY DirectoryInitInv
<1>2. DirectoryInv /\ [DirectoryNext]_directoryVars => DirectoryInv'
  BY DirectoryStepKeeps
<1> QED
  BY <1>1, <1>2, PTL DEF DirectorySpec

(***************************************************************************)
(* Discovery returns the ids of the live snapshots, a match reads back its *)
(* own, and a scan returns snapshots that were current while it ran.       *)
(***************************************************************************)
THEOREM DiscoveryAlwaysExact ==
  ASSUME Plain PROVE DirectorySpec => []DiscoveryExact
<1>1. DirectoryInv => DiscoveryExact
  BY ReadsOwn DEF DiscoveryExact, OwnSnapshot, DirectoryInv
<1> QED
  BY <1>1, DirectoryInvariant, PTL

-----------------------------------------------------------------------------
(***************************************************************************)
(* The sink.                                                               *)
(***************************************************************************)
FeedTicks == {e \in RowsOf(feed) : e.type = "tick"}

Distinct(rows) == \A i, j \in 1..Len(rows) : rows[i] = rows[j] => i = j

SinkTypeOK ==
  /\ feed \in Feeds
  /\ at \in 1..(Len(feed) + 1)
  /\ buffer \in Seq(HandledTicks)
  /\ ticks \in Seq(FeedTicks)
  /\ lost \subseteq FeedTicks
  /\ flushed \in Nat /\ flushFailures \in Nat /\ crashes \in Nat
  /\ matches \subseteq RowsOf(feed)

\* The buffer holds each tick once; before a crash a lost one is not in it.
BufferFresh ==
  /\ Distinct(buffer)
  /\ crashes = 0 => /\ lost \subseteq HandledTicks
                    /\ RowsOf(buffer) \intersect lost = {}

\* The row of a handled round_end is on record, or a later one of its key.
RoundsRecorded ==
  /\ \A r \in rounds : r \in RowsOf(feed)
  /\ \A e \in Handled : e.type = "round_end" =>
       \E r \in rounds : r.match = e.match /\ r.round = e.round

SinkInv ==
  SinkTypeOK /\ BufferFresh /\ RoundsRecorded /\ BufferExact /\ RecordedMatchComplete

-----------------------------------------------------------------------------
LEMMA RowsOfAppend ==
  ASSUME NEW S, NEW rows \in Seq(S), NEW e
  PROVE  RowsOf(Append(rows, e)) = RowsOf(rows) \union {e}
BY DEF RowsOf

LEMMA RowsOfConcat ==
  ASSUME NEW S, NEW rows \in Seq(S), NEW more \in Seq(S)
  PROVE  RowsOf(rows \o more) = RowsOf(rows) \union RowsOf(more)
<1>1. /\ Len(rows \o more) = Len(rows) + Len(more)
      /\ \A i \in 1..Len(rows) : (rows \o more)[i] = rows[i]
      /\ \A i \in 1..Len(more) : (rows \o more)[Len(rows) + i] = more[i]
      /\ Len(rows) \in Nat /\ Len(more) \in Nat
  OBVIOUS
<1>2. ASSUME NEW x \in RowsOf(rows \o more) PROVE x \in RowsOf(rows) \union RowsOf(more)
  <2>1. PICK i \in 1..Len(rows \o more) : x = (rows \o more)[i]
    BY <1>2 DEF RowsOf
  <2>2. CASE i <= Len(rows)
    BY <1>1, <2>1, <2>2 DEF RowsOf
  <2>3. CASE i > Len(rows)
    <3>1. i - Len(rows) \in 1..Len(more) /\ Len(rows) + (i - Len(rows)) = i
      BY <1>1, <2>1, <2>3
    <3> QED
      BY <1>1, <2>1, <3>1 DEF RowsOf
  <2> QED
    BY <1>1, <2>2, <2>3
<1>3. ASSUME NEW i \in 1..Len(rows) PROVE rows[i] \in RowsOf(rows \o more)
  BY <1>1, <1>3 DEF RowsOf
<1>4. ASSUME NEW i \in 1..Len(more) PROVE more[i] \in RowsOf(rows \o more)
  <2>1. Len(rows) + i \in 1..Len(rows \o more)
    BY <1>1
  <2> QED
    BY <1>1, <2>1 DEF RowsOf
<1> QED
  BY <1>2, <1>3, <1>4 DEF RowsOf

\* A buffer without repetition holds as many ticks as it is long.
LEMMA DistinctRowsCount ==
  ASSUME NEW S, NEW rows \in Seq(S), Distinct(rows)
  PROVE  IsFiniteSet(RowsOf(rows)) /\ Cardinality(RowsOf(rows)) = Len(rows)
<1>1. rows \in [1..Len(rows) -> RowsOf(rows)] /\ Len(rows) \in Nat
  BY DEF RowsOf
<1>2. rows \in Bijection(1..Len(rows), RowsOf(rows))
  <2>1. \A r \in RowsOf(rows) : \E i \in 1..Len(rows) : rows[i] = r
    BY DEF RowsOf
  <2>2. \A i, j \in 1..Len(rows) : rows[i] = rows[j] => i = j
    BY DEF Distinct
  <2> QED
    BY <1>1, <2>1, <2>2 DEF Bijection, Injection, IsInjective, Surjection
<1>3. IsFiniteSet(1..Len(rows)) /\ Cardinality(1..Len(rows)) = Len(rows)
  <2>1. 1 \in Int /\ Len(rows) \in Int
    BY <1>1
  <2>2. Cardinality(1..Len(rows)) = IF 1 > Len(rows) THEN 0 ELSE Len(rows) - 1 + 1
    BY <2>1, FS_Interval
  <2> QED
    BY <1>1, <2>1, <2>2, FS_Interval
<1>4. ExistsBijection(1..Len(rows), RowsOf(rows))
  BY <1>2 DEF ExistsBijection
<1> QED
  BY <1>3, <1>4, FS_Bijection

LEMMA FeedIsFinite ==
  ASSUME feed \in Feeds
  PROVE  /\ Len(feed) \in Nat /\ Distinct(feed) /\ feed \in Seq(RowsOf(feed))
         /\ IsFiniteSet(RowsOf(feed))
<1>1. feed \in Seq(RowsOf(feed)) /\ Distinct(feed)
  BY FeedsAssumption DEF RowsOf, Distinct
<1> QED
  BY <1>1, DistinctRowsCount

LEMMA HandledIsFinite ==
  ASSUME SinkTypeOK
  PROVE  /\ Handled \subseteq RowsOf(feed) /\ HandledTicks \subseteq FeedTicks
         /\ IsFiniteSet(HandledTicks) /\ Cardinality(HandledTicks) \in Nat
         /\ IsFiniteSet(lost) /\ Cardinality(lost) \in Nat
<1>1. Handled \subseteq RowsOf(feed)
  BY FeedIsFinite DEF SinkTypeOK, Handled, RowsOf
<1>2. HandledTicks \subseteq FeedTicks /\ lost \subseteq FeedTicks
  BY <1>1 DEF HandledTicks, FeedTicks, SinkTypeOK
<1>3. IsFiniteSet(FeedTicks)
  BY FeedIsFinite, FS_Subset DEF SinkTypeOK, FeedTicks
<1> QED
  BY <1>1, <1>2, <1>3, FS_Subset, FS_CardinalityType

\* The next event of the feed is one not handled before.
LEMMA IncomingIsNew ==
  ASSUME SinkTypeOK, at <= Len(feed), at' = at + 1, feed' = feed
  PROVE  /\ Incoming \in RowsOf(feed) /\ Incoming \notin Handled
         /\ Handled' = Handled \union {Incoming}
         /\ at' \in 1..(Len(feed) + 1)
<1>1. Len(feed) \in Nat /\ Distinct(feed) /\ at \in 1..Len(feed)
  BY FeedIsFinite DEF SinkTypeOK
<1>2. Incoming \in RowsOf(feed)
  BY <1>1 DEF Incoming, RowsOf
<1>3. Incoming \notin Handled
  BY <1>1 DEF Incoming, Handled, Distinct
<1>4. 1..(at' - 1) = 1..(at - 1) \union {at}
  BY <1>1
<1>5. Handled' = Handled \union {Incoming}
  BY <1>4 DEF Handled, Incoming
<1> QED
  BY <1>1, <1>2, <1>3, <1>5

-----------------------------------------------------------------------------
\* What a flush leaves of the buffer and one further tick: rows are what it is
\* given to insert.
LEMMA FlushAccounts ==
  ASSUME SinkInv, NEW rows \in Seq(FeedTicks), Flush(rows),
         UNCHANGED <<feed, crashes>>,
         Distinct(rows), rows \in Seq(HandledTicks'),
         HandledTicks \subseteq HandledTicks', HandledTicks' \subseteq FeedTicks,
         HandledTicks' \subseteq HandledTicks \union RowsOf(rows),
         RowsOf(buffer) \subseteq RowsOf(rows),
         crashes = 0 =>
           /\ RowsOf(rows) \intersect lost = {}
           /\ Cardinality(HandledTicks') - Cardinality(HandledTicks) = Len(rows) - Len(buffer)
  PROVE  /\ buffer' \in Seq(HandledTicks') /\ ticks' \in Seq(FeedTicks)
         /\ lost' \subseteq FeedTicks /\ flushed' \in Nat /\ flushFailures' \in Nat
         /\ BufferFresh' /\ BufferExact'
         /\ RowsOf(ticks) \union lost \subseteq RowsOf(ticks') \union lost'
         /\ RowsOf(ticks') \union lost' = RowsOf(ticks) \union lost \union RowsOf(rows)
<1>0. SinkTypeOK /\ BufferFresh /\ BufferExact /\ ticks \in Seq(FeedTicks)
  BY DEF SinkInv, SinkTypeOK
<1>1. /\ buffer' = <<>> /\ RowsOf(<<>>) = {} /\ Len(<<>>) = 0
      /\ BatchSize \in Nat /\ BatchSize > 0
  BY SinkAssumption DEF Flush, RowsOf
<1>2. /\ RowsOf(rows) \subseteq FeedTicks /\ RowsOf(rows) \subseteq HandledTicks'
      /\ IsFiniteSet(RowsOf(rows)) /\ Cardinality(RowsOf(rows)) = Len(rows) /\ Len(rows) \in Nat
  <2>1. RowsOf(rows) \subseteq FeedTicks /\ RowsOf(rows) \subseteq HandledTicks' /\ Len(rows) \in Nat
    BY DEF RowsOf
  <2> QED
    BY <2>1, DistinctRowsCount
<1>3. HandledTicks' \subseteq RowsOf(ticks) \union lost \union RowsOf(rows)
  BY <1>0 DEF BufferExact
<1>4. /\ IsFiniteSet(lost) /\ Cardinality(lost) \in Nat /\ Cardinality(HandledTicks) \in Nat
      /\ Len(buffer) \in Nat /\ Len(ticks) \in Nat
  BY <1>0, HandledIsFinite DEF SinkTypeOK
<1>5. Cardinality(HandledTicks') \in Nat
  <2>1. IsFiniteSet(FeedTicks)
    BY <1>0, FeedIsFinite, FS_Subset DEF SinkTypeOK, FeedTicks
  <2> QED
    BY <2>1, FS_Subset, FS_CardinalityType
<1>6. crashes = 0 =>
        /\ flushed = Len(ticks)
        /\ Len(ticks) + Len(buffer) + Cardinality(lost) = Cardinality(HandledTicks)
        /\ Cardinality(HandledTicks') - Cardinality(HandledTicks) = Len(rows) - Len(buffer)
  BY <1>0 DEF BufferExact
<1>7. CASE /\ ticks' = ticks \o rows
           /\ flushed' = flushed + Len(rows)
           /\ UNCHANGED <<flushFailures, lost>>
  <2>1. RowsOf(ticks') = RowsOf(ticks) \union RowsOf(rows) /\ Len(ticks') = Len(ticks) + Len(rows)
    BY <1>0, <1>7, RowsOfConcat
  <2>2. ticks' \in Seq(FeedTicks) /\ flushed' \in Nat /\ flushFailures' \in Nat /\ lost' \subseteq FeedTicks
    BY <1>0, <1>2, <1>7 DEF SinkTypeOK
  <2>3. BufferFresh'
    BY <1>0, <1>1, <1>7 DEF BufferFresh, Distinct
  <2>4. crashes' = 0 =>
          /\ flushed' = Len(ticks')
          /\ Len(ticks') + Len(buffer') + Cardinality(lost') = Cardinality(HandledTicks')
    <3> SUFFICES ASSUME crashes = 0
                 PROVE  /\ flushed' = Len(ticks')
                        /\ Len(ticks') + Len(buffer') + Cardinality(lost') = Cardinality(HandledTicks')
      OBVIOUS
    <3>1. Len(buffer') = 0 /\ lost' = lost /\ flushed' = flushed + Len(rows)
      BY <1>1, <1>7
    <3>2. /\ flushed = Len(ticks) /\ Len(ticks') = Len(ticks) + Len(rows)
          /\ Len(ticks) + Len(buffer) + Cardinality(lost) = Cardinality(HandledTicks)
          /\ Cardinality(HandledTicks') - Cardinality(HandledTicks) = Len(rows) - Len(buffer)
      BY <1>6, <2>1
    <3>3. /\ {Len(rows), Len(buffer), Len(ticks), Cardinality(lost)} \subseteq Nat
          /\ Cardinality(HandledTicks) \in Nat /\ Cardinality(HandledTicks') \in Nat
      BY <1>2, <1>4, <1>5
    <3>4. flushed' = Len(ticks')
      BY <3>1, <3>2
    <3>5. Cardinality(HandledTicks')
            = Len(ticks) + Len(buffer) + Cardinality(lost) + (Len(rows) - Len(buffer))
      BY <3>2, <3>3
    <3>6. Len(ticks') + Len(buffer') + Cardinality(lost') = Len(ticks) + Len(rows) + Cardinality(lost)
      BY <3>1, <3>2, <3>3
    <3> QED
      BY <3>3, <3>4, <3>5, <3>6
  <2>5. BufferExact'
    BY <1>1, <1>3, <1>7, <2>1, <2>4 DEF BufferExact
  <2> QED
    BY <1>1, <1>7, <2>1, <2>2, <2>3, <2>5
<1>8. CASE /\ rows # <<>> /\ flushFailures < MaxFlushFailures
           /\ flushFailures' = flushFailures + 1
           /\ lost' = lost \union RowsOf(rows)
           /\ UNCHANGED <<ticks, flushed>>
  <2>1. ticks' \in Seq(FeedTicks) /\ flushed' \in Nat /\ flushFailures' \in Nat /\ lost' \subseteq FeedTicks
    BY <1>0, <1>2, <1>8 DEF SinkTypeOK
  <2>2. BufferFresh'
    BY <1>0, <1>1, <1>2, <1>8 DEF BufferFresh, Distinct
  <2>3. crashes = 0 => Cardinality(lost') = Cardinality(lost) + Len(rows)
    <3>1. ASSUME crashes = 0 PROVE Cardinality(lost \intersect RowsOf(rows)) = 0
      BY <3>1, FS_EmptySet
    <3>2. Cardinality(lost \union RowsOf(rows)) =
            Cardinality(lost) + Cardinality(RowsOf(rows)) - Cardinality(lost \intersect RowsOf(rows))
      BY <1>2, <1>4, FS_Union
    <3> QED
      BY <1>2, <1>4, <1>8, <3>1, <3>2
  <2>4. crashes' = 0 =>
          /\ flushed' = Len(ticks')
          /\ Len(ticks') + Len(buffer') + Cardinality(lost') = Cardinality(HandledTicks')
    <3> SUFFICES ASSUME crashes = 0
                 PROVE  /\ flushed' = Len(ticks')
                        /\ Len(ticks') + Len(buffer') + Cardinality(lost') = Cardinality(HandledTicks')
      OBVIOUS
    <3>1. Len(buffer') = 0 /\ Len(ticks') = Len(ticks) /\ flushed' = flushed
      BY <1>1, <1>8
    <3>2. Cardinality(lost') = Cardinality(lost) + Len(rows)
      BY <2>3
    <3> QED
      BY <1>2, <1>4, <1>5, <1>6, <3>1, <3>2
  <2>5. BufferExact'
    BY <1>1, <1>3, <1>8, <2>4 DEF BufferExact
  <2> QED
    BY <1>1, <1>8, <2>1, <2>2, <2>5
<1> QED
  BY <1>7, <1>8 DEF Flush

\* A flush of the buffer alone: FlushNow, stop() and write_match().
LEMMA FlushBufferAccounts ==
  ASSUME SinkInv, Flush(buffer), UNCHANGED <<feed, crashes>>, HandledTicks' = HandledTicks
  PROVE  /\ buffer' \in Seq(HandledTicks') /\ ticks' \in Seq(FeedTicks)
         /\ lost' \subseteq FeedTicks /\ flushed' \in Nat /\ flushFailures' \in Nat
         /\ BufferFresh' /\ BufferExact'
         /\ RowsOf(ticks) \union lost \subseteq RowsOf(ticks') \union lost'
         /\ HandledTicks \subseteq RowsOf(ticks') \union lost'
<1>1. SinkTypeOK /\ BufferFresh /\ BufferExact /\ Len(buffer) \in Nat
  BY DEF SinkInv, SinkTypeOK
<1>2. HandledTicks \subseteq FeedTicks /\ buffer \in Seq(HandledTicks) /\ Cardinality(HandledTicks) \in Nat
  BY <1>1, HandledIsFinite DEF SinkTypeOK
<1>3. buffer \in Seq(FeedTicks) /\ Distinct(buffer)
  BY <1>1, <1>2 DEF BufferFresh
<1>4. crashes = 0 => RowsOf(buffer) \intersect lost = {}
  BY <1>1 DEF BufferFresh
<1>5. HandledTicks \subseteq RowsOf(ticks) \union lost \union RowsOf(buffer)
  BY <1>1 DEF BufferExact
<1> QED
  BY <1>1, <1>2, <1>3, <1>4, <1>5, FlushAccounts

\* A match on record stays complete while rows are only added.
LEMMA CompleteStays ==
  ASSUME RecordedMatchComplete, feed' = feed, matches' = matches,
         RowsOf(ticks) \union lost \subseteq RowsOf(ticks') \union lost'
  PROVE  RecordedMatchComplete'
BY DEF RecordedMatchComplete, RowsOf

-----------------------------------------------------------------------------
LEMMA SinkInitInv == SinkInit => SinkInv
<1> SUFFICES ASSUME SinkInit PROVE SinkInv
  OBVIOUS
<1> USE DEF SinkInit
<1>1. Len(feed) \in Nat /\ Handled = {} /\ HandledTicks = {}
  BY FeedIsFinite DEF Handled, HandledTicks
<1>2. SinkTypeOK
  BY <1>1 DEF SinkTypeOK
<1>3. Cardinality({}) = 0
  BY FS_EmptySet
<1> QED
  BY <1>1, <1>2, <1>3, SinkAssumption DEF SinkInv, BufferFresh, Distinct, RoundsRecorded,
     BufferExact, RecordedMatchComplete, RowsOf

LEMMA FlushNowKeeps ==
  ASSUME SinkInv, Flush(buffer), UNCHANGED <<feed, at, rounds, matches, crashes>>
  PROVE  SinkInv'
<1>1. HandledTicks' = HandledTicks /\ Handled' = Handled /\ FeedTicks' = FeedTicks
  BY DEF HandledTicks, Handled, FeedTicks
<1>2. SinkTypeOK' /\ BufferFresh' /\ BufferExact'
  BY <1>1, FlushBufferAccounts DEF SinkInv, SinkTypeOK
<1>3. RecordedMatchComplete'
  BY <1>1, FlushBufferAccounts, CompleteStays DEF SinkInv
<1>4. RoundsRecorded'
  BY <1>1 DEF SinkInv, RoundsRecorded
<1> QED
  BY <1>2, <1>3, <1>4 DEF SinkInv

LEMMA OpenKeeps ==
  ASSUME SinkInv, UNCHANGED <<feed, at, buffer, flushed, ticks, rounds, matches,
                              flushFailures, crashes, lost>>
  PROVE  SinkInv'
BY DEF SinkInv, SinkTypeOK, BufferFresh, RoundsRecorded, BufferExact, RecordedMatchComplete,
       Handled, HandledTicks, FeedTicks

LEMMA CrashKeeps ==
  ASSUME SinkInv, Crash PROVE SinkInv'
<1> USE DEF Crash
<1>1. Handled' = {} /\ HandledTicks' = {} /\ FeedTicks' = FeedTicks
  BY DEF Handled, HandledTicks, FeedTicks
<1>2. crashes' # 0 /\ crashes' \in Nat /\ at' \in 1..(Len(feed') + 1)
  BY FeedIsFinite DEF SinkInv, SinkTypeOK
<1>3. SinkTypeOK'
  BY <1>1, <1>2 DEF SinkInv, SinkTypeOK
<1>4. BufferFresh' /\ BufferExact'
  BY <1>1, <1>2, SinkAssumption DEF BufferFresh, BufferExact, Distinct
<1>5. RoundsRecorded' /\ RecordedMatchComplete'
  BY <1>1 DEF SinkInv, RoundsRecorded, RecordedMatchComplete
<1> QED
  BY <1>3, <1>4, <1>5 DEF SinkInv

-----------------------------------------------------------------------------
LEMMA WriteTickKeeps ==
  ASSUME SinkInv, at <= Len(feed), at' = at + 1, UNCHANGED <<feed, crashes>>,
         Incoming.type = "tick", WriteTick
  PROVE  SinkInv'
<1> DEFINE full == Append(buffer, Incoming)
<1>0. SinkTypeOK /\ BufferFresh /\ BufferExact /\ Len(buffer) \in Nat
  BY DEF SinkInv, SinkTypeOK
<1>1. /\ Incoming \in FeedTicks /\ Incoming \notin HandledTicks
      /\ Handled' = Handled \union {Incoming}
      /\ HandledTicks' = HandledTicks \union {Incoming}
      /\ at' \in 1..(Len(feed) + 1) /\ FeedTicks' = FeedTicks
  BY <1>0, IncomingIsNew DEF HandledTicks, FeedTicks
<1>2. /\ HandledTicks \subseteq FeedTicks /\ IsFiniteSet(HandledTicks)
      /\ Cardinality(HandledTicks) \in Nat /\ Cardinality(lost) \in Nat
  BY <1>0, HandledIsFinite
<1>3. Cardinality(HandledTicks') = Cardinality(HandledTicks) + 1
  BY <1>1, <1>2, FS_AddElement
<1>4. buffer \in Seq(HandledTicks) /\ buffer \in Seq(FeedTicks)
  BY <1>0, <1>2 DEF SinkTypeOK
<1>5. full \in Seq(HandledTicks') /\ full \in Seq(FeedTicks) /\ Len(full) = Len(buffer) + 1
  <2>1. buffer \in Seq(HandledTicks')
    BY <1>1, <1>4
  <2> QED
    BY <1>1, <1>4, <2>1
<1>6. RowsOf(full) = RowsOf(buffer) \union {Incoming}
  BY <1>4, RowsOfAppend
<1>7. RowsOf(buffer) \subseteq HandledTicks
  BY <1>4 DEF RowsOf
<1>8. Distinct(full)
  <2>1. \A i \in 1..Len(buffer) : full[i] = buffer[i] /\ buffer[i] # Incoming
    BY <1>1, <1>4
  <2>2. full[Len(buffer) + 1] = Incoming
    BY <1>4
  <2>3. Distinct(buffer)
    BY <1>0 DEF BufferFresh
  <2> HIDE DEF full
  <2> QED
    BY <1>0, <1>5, <2>1, <2>2, <2>3 DEF Distinct
<1>9. crashes = 0 => RowsOf(full) \intersect lost = {}
  BY <1>0, <1>1, <1>6 DEF BufferFresh
<1>10. UNCHANGED <<rounds, matches>>
  BY DEF WriteTick
<1>11. RoundsRecorded'
  BY <1>1, <1>10 DEF SinkInv, RoundsRecorded
<1>12. SinkTypeOK' <=> /\ buffer' \in Seq(HandledTicks') /\ ticks' \in Seq(FeedTicks)
                       /\ lost' \subseteq FeedTicks /\ flushed' \in Nat
                       /\ flushFailures' \in Nat
  BY <1>0, <1>1, <1>10 DEF SinkTypeOK
<1>13. CASE Len(full) < BatchSize /\ buffer' = full
            /\ UNCHANGED <<flushed, ticks, flushFailures, lost>>
  <2>1. SinkTypeOK'
    BY <1>0, <1>1, <1>5, <1>12, <1>13 DEF SinkTypeOK
  <2>2. BufferFresh'
    BY <1>0, <1>1, <1>8, <1>9, <1>13 DEF BufferFresh
  <2>3. HandledTicks' \subseteq RowsOf(ticks') \union RowsOf(buffer') \union lost'
    BY <1>0, <1>1, <1>6, <1>13 DEF BufferExact
  <2>4. Len(ticks) \in Nat
    BY <1>0 DEF SinkTypeOK
  <2>5. crashes = 0 => /\ flushed = Len(ticks)
                       /\ Len(ticks) + Len(full) + Cardinality(lost) = Cardinality(HandledTicks')
    BY <1>0, <1>2, <1>3, <1>5, <2>4 DEF BufferExact
  <2>6. BufferExact'
    BY <1>13, <2>3, <2>5 DEF BufferExact
  <2>7. RecordedMatchComplete'
    BY <1>10, <1>13, CompleteStays DEF SinkInv
  <2> QED
    BY <1>11, <2>1, <2>2, <2>6, <2>7 DEF SinkInv
<1>14. CASE Flush(full)
  <2>1. Cardinality(HandledTicks') - Cardinality(HandledTicks) = Len(full) - Len(buffer)
    BY <1>0, <1>2, <1>3, <1>5
  <2>2. /\ HandledTicks \subseteq HandledTicks' /\ HandledTicks' \subseteq FeedTicks
        /\ HandledTicks' \subseteq HandledTicks \union RowsOf(full)
        /\ RowsOf(buffer) \subseteq RowsOf(full)
    BY <1>1, <1>2, <1>6
  <2> HIDE DEF full
  <2>3. /\ buffer' \in Seq(HandledTicks') /\ ticks' \in Seq(FeedTicks)
        /\ lost' \subseteq FeedTicks /\ flushed' \in Nat /\ flushFailures' \in Nat
        /\ BufferFresh' /\ BufferExact'
        /\ RowsOf(ticks) \union lost \subseteq RowsOf(ticks') \union lost'
    BY <1>5, <1>8, <1>9, <1>14, <2>1, <2>2, FlushAccounts
  <2>4. RecordedMatchComplete'
    BY <1>10, <2>3, CompleteStays DEF SinkInv
  <2> QED
    BY <1>11, <1>12, <2>3, <2>4 DEF SinkInv
<1> QED
  BY <1>13, <1>14 DEF WriteTick

LEMMA HandledOther ==
  ASSUME SinkTypeOK, at <= Len(feed), at' = at + 1, feed' = feed, Incoming.type # "tick"
  PROVE  HandledTicks' = HandledTicks /\ FeedTicks' = FeedTicks
BY IncomingIsNew DEF HandledTicks, FeedTicks

LEMMA WriteRoundKeeps ==
  ASSUME SinkInv, at <= Len(feed), at' = at + 1, UNCHANGED <<feed, crashes>>,
         Incoming.type = "round_end", WriteRound
  PROVE  SinkInv'
<1>0. SinkTypeOK
  BY DEF SinkInv
<1>1. /\ Incoming \in RowsOf(feed) /\ Handled' = Handled \union {Incoming}
      /\ at' \in 1..(Len(feed) + 1) /\ HandledTicks' = HandledTicks /\ FeedTicks' = FeedTicks
  BY <1>0, IncomingIsNew, HandledOther
<1>2. /\ UNCHANGED <<buffer, flushed, ticks, matches, flushFailures, lost>>
      /\ rounds' = Upsert(rounds, Incoming)
  BY DEF WriteRound
<1>3. SinkTypeOK'
  BY <1>0, <1>1, <1>2 DEF SinkTypeOK
<1>4. BufferFresh' /\ BufferExact'
  BY <1>1, <1>2 DEF SinkInv, BufferFresh, BufferExact
<1>5. RecordedMatchComplete'
  BY <1>2, CompleteStays DEF SinkInv
<1>6. RoundsRecorded'
  <2>1. \A r \in rounds' : r \in RowsOf(feed')
    BY <1>1, <1>2 DEF SinkInv, RoundsRecorded, Upsert
  <2>2. ASSUME NEW r \in rounds
        PROVE  \E s \in rounds' : s.match = r.match /\ s.round = r.round
    <3>1. CASE r.match = Incoming.match /\ r.round = Incoming.round
      BY <1>2, <3>1 DEF Upsert
    <3>2. CASE ~(r.match = Incoming.match /\ r.round = Incoming.round)
      <4>1. r \in rounds'
        BY <1>2, <3>2 DEF Upsert
      <4> QED
        BY <4>1
    <3> QED
      BY <3>1, <3>2
  <2>3. Incoming \in rounds'
    BY <1>2 DEF Upsert
  <2> QED
    BY <1>1, <2>1, <2>2, <2>3 DEF SinkInv, RoundsRecorded
<1> QED
  BY <1>3, <1>4, <1>5, <1>6 DEF SinkInv

LEMMA WriteMatchKeeps ==
  ASSUME SinkInv, at <= Len(feed), at' = at + 1, UNCHANGED <<feed, crashes>>,
         Incoming.type = "match_end", WriteMatch
  PROVE  SinkInv'
<1>0. SinkTypeOK /\ Flush(buffer) /\ rounds' = rounds
  BY DEF SinkInv, WriteMatch
<1>1. /\ Incoming \in RowsOf(feed) /\ Handled' = Handled \union {Incoming}
      /\ at' \in 1..(Len(feed) + 1) /\ HandledTicks' = HandledTicks /\ FeedTicks' = FeedTicks
  BY <1>0, IncomingIsNew, HandledOther
<1>2. /\ buffer' \in Seq(HandledTicks') /\ ticks' \in Seq(FeedTicks)
      /\ lost' \subseteq FeedTicks /\ flushed' \in Nat /\ flushFailures' \in Nat
      /\ BufferFresh' /\ BufferExact'
      /\ RowsOf(ticks) \union lost \subseteq RowsOf(ticks') \union lost'
      /\ HandledTicks \subseteq RowsOf(ticks') \union lost'
  BY <1>0, <1>1, FlushBufferAccounts
<1>3. \A m \in matches' : m \in matches \/ m = Incoming
  BY DEF WriteMatch
<1>4. SinkTypeOK'
  BY <1>0, <1>1, <1>2, <1>3 DEF SinkTypeOK
<1>5. RoundsRecorded'
  <2>1. Incoming.type # "round_end"
    OBVIOUS
  <2> QED
    BY <1>0, <1>1, <2>1 DEF SinkInv, RoundsRecorded
<1>6. RecordedMatchComplete'
  <2> SUFFICES ASSUME NEW m \in matches', NEW i \in 1..Len(feed),
                      feed[i].type = "tick", feed[i].match = m.match, feed[i].play = m.play
               PROVE  feed[i] \in RowsOf(ticks') \union lost'
    BY DEF RecordedMatchComplete, RowsOf
  <2>1. CASE m \in matches
    <3>1. feed[i] \in RowsOf(ticks) \union lost
      BY <2>1 DEF SinkInv, RecordedMatchComplete
    <3> QED
      BY <1>2, <3>1
  <2>2. CASE m = Incoming
    <3>1. at \in 1..Len(feed) /\ Len(feed) \in Nat
      BY <1>0, FeedIsFinite DEF SinkTypeOK
    <3>2. feed[at].type = "match_end" /\ feed[i].match = feed[at].match /\ feed[i].play = feed[at].play
      BY <2>2 DEF Incoming
    <3>3. i < at
      BY <1>0, <3>1, <3>2, FeedsAssumption DEF SinkTypeOK
    <3>4. feed[i] \in HandledTicks
      BY <3>1, <3>3 DEF HandledTicks, Handled
    <3> QED
      BY <1>2, <3>4
  <2> QED
    BY <1>3, <2>1, <2>2
<1> QED
  BY <1>2, <1>4, <1>5, <1>6 DEF SinkInv

LEMMA OtherEventKeeps ==
  ASSUME SinkInv, at <= Len(feed), at' = at + 1, UNCHANGED <<feed, crashes>>,
         Incoming.type \notin {"tick", "round_end", "match_end"},
         UNCHANGED <<buffer, flushed, ticks, rounds, matches, flushFailures, lost>>
  PROVE  SinkInv'
<1>0. SinkTypeOK
  BY DEF SinkInv
<1>1. /\ Incoming \in RowsOf(feed) /\ Handled' = Handled \union {Incoming}
      /\ at' \in 1..(Len(feed) + 1) /\ HandledTicks' = HandledTicks /\ FeedTicks' = FeedTicks
  BY <1>0, IncomingIsNew, HandledOther
<1>2. SinkTypeOK'
  BY <1>0, <1>1 DEF SinkTypeOK
<1>3. BufferFresh' /\ BufferExact'
  BY <1>1 DEF SinkInv, BufferFresh, BufferExact
<1>4. RecordedMatchComplete'
  BY CompleteStays DEF SinkInv
<1>5. RoundsRecorded'
  BY <1>1 DEF SinkInv, RoundsRecorded
<1> QED
  BY <1>2, <1>3, <1>4, <1>5 DEF SinkInv

LEMMA SinkStepKeeps == SinkInv /\ [SinkNext]_sinkVars => SinkInv'
<1> SUFFICES ASSUME SinkInv, [SinkNext]_sinkVars PROVE SinkInv'
  OBVIOUS
<1>1. CASE OpenSink
  BY <1>1, OpenKeeps DEF OpenSink
<1>2. CASE HandleNext
  BY <1>2, WriteTickKeeps, WriteRoundKeeps, WriteMatchKeeps, OtherEventKeeps DEF HandleNext
<1>3. CASE FlushNow
  BY <1>3, FlushNowKeeps DEF FlushNow
<1>4. CASE CloseSink
  BY <1>4, FlushNowKeeps DEF CloseSink
<1>5. CASE UNCHANGED sinkVars
  BY <1>5, OpenKeeps DEF sinkVars
<1> QED
  BY <1>1, <1>2, <1>3, <1>4, <1>5, CrashKeeps DEF SinkNext

(***************************************************************************)
(* The inductive invariant of the sink: the buffer holds each of its ticks *)
(* once, none of them lost before, everything stored is of the feed, and   *)
(* every round_end handled has a row of its key.                           *)
(***************************************************************************)
THEOREM SinkInvariant == SinkSpec => []SinkInv
BY SinkInitInv, SinkStepKeeps, PTL DEF SinkSpec

(***************************************************************************)
(* Every tick handled is stored, buffered or lost with a flush that        *)
(* raised, none is stored twice by one process, and a match on record has  *)
(* all its ticks in the table but those.                                   *)
(***************************************************************************)
THEOREM TicksAlwaysStored == SinkSpec => []TicksAccounted
<1>1. SinkInv => TicksAccounted
  BY DEF SinkInv, TicksAccounted
<1> QED
  BY <1>1, SinkInvariant, PTL

\* As the feeds of one run of `dataset`; a second one uses its ids again.
OnePlayPerId ==
  \A f \in Feeds : \A i, j \in 1..Len(f) : f[i].match = f[j].match => f[i].play = f[j].play

(***************************************************************************)
(* Where each match is played under an id of its own, as in one run of     *)
(* `dataset`, a training row is labelled with the result of its own round, *)
(* and no row is left out whose round is on record.                        *)
(***************************************************************************)
THEOREM LabelsAlwaysRight ==
  ASSUME OnePlayPerId PROVE SinkSpec => []LabelOfItsRound
<1>1. SinkInv => LabelOfItsRound
  <2> SUFFICES ASSUME SinkInv PROVE LabelOfItsRound
    OBVIOUS
  <2>1. RowsOf(ticks) \subseteq RowsOf(feed)
    BY DEF SinkInv, SinkTypeOK, FeedTicks, RowsOf
  <2>2. \A e, f \in RowsOf(feed) : e.match = f.match => e.play = f.play
    BY OnePlayPerId DEF OnePlayPerId, SinkInv, SinkTypeOK, RowsOf
  <2>3. \A p \in TrainingPairs : p[1].play = p[2].play
    BY <2>1, <2>2 DEF TrainingPairs, SinkInv, RoundsRecorded
  <2>4. ASSUME NEW t \in RowsOf(ticks), NEW e \in Handled, t.phase # "freezetime",
               e.type = "round_end", e.match = t.match, e.round = t.round
        PROVE  \E p \in TrainingPairs : p[1] = t
    <3>1. PICK r \in rounds : r.match = e.match /\ r.round = e.round
      BY <2>4 DEF SinkInv, RoundsRecorded
    <3>2. <<t, r>> \in TrainingPairs
      BY <2>4, <3>1 DEF TrainingPairs
    <3> QED
      BY <3>2
  <2> QED
    BY <2>3, <2>4 DEF LabelOfItsRound
<1> QED
  BY <1>1, SinkInvariant, PTL

-----------------------------------------------------------------------------
(***************************************************************************)
(* The round histories.                                                    *)
(***************************************************************************)
\* Oldest first, each round once.
Ascending(h) == \A i, j \in 1..Len(h) : i < j => h[i].round < h[j].round

Numbered(results) ==
  /\ \A r \in results : r.round \in Int
  /\ \A r, s \in results : r.round = s.round => r = s

OlderThanAll(r, h) == \A i \in 1..Len(h) : r.round < h[i].round

Kept(n) == IF n < MaxTracked THEN n ELSE MaxTracked

\* h is what is kept of the results: the last of them, oldest first.
Keeps(h, results) ==
  /\ IsFiniteSet(results) /\ Numbered(results)
  /\ h \in Seq(results)
  /\ Ascending(h)
  /\ Len(h) = Kept(Cardinality(results))
  /\ \A r \in results : r \in Rounds(h) \/ OlderThanAll(r, h)

HistoryInv ==
  /\ topic \in Topics /\ pos \in Nat \ {0}
  /\ phase # "idle" => pos <= Len(topic)
  /\ phase \in {"get_history", "set_history"} => Event.type = "round_end"
  /\ histories = [m \in Matches |-> histories[m]]
  /\ recorded = [m \in Matches |-> recorded[m]]
  /\ \A m \in Matches : histories[m] # Absent => Keeps(histories[m], recorded[m])
  /\ phase = "set_history" /\ pending # <<>> => Keeps(pending, recorded[Event.match])

-----------------------------------------------------------------------------
\* In an ascending history the rounds up to n are the first ones.
LEMMA UptoSplits ==
  ASSUME NEW S, NEW h \in Seq(S), \A r \in S : r.round \in Int, Ascending(h), NEW n \in Int
  PROVE  /\ Upto(h, n) \in 0..Len(h)
         /\ \A i \in 1..Len(h) : i <= Upto(h, n) <=> h[i].round <= n
<1> DEFINE past == {i \in 1..Len(h) : h[i].round > n}
           Splits(k) == \A i \in 1..Len(h) : i <= k <=> h[i].round <= n
<1>0. Len(h) \in Nat /\ \A i \in 1..Len(h) : h[i] \in S /\ h[i].round \in Int
  OBVIOUS
<1>1. \E k \in 0..Len(h) : Splits(k)
  <2>1. CASE past = {}
    <3>1. Splits(Len(h)) /\ Len(h) \in 0..Len(h)
      BY <1>0, <2>1
    <3> HIDE DEF Splits
    <3> QED
      BY <3>1
  <2>2. CASE past # {}
    <3>1. past \subseteq Nat
      BY <1>0
    <3>2. PICK first \in past : \A i \in past : ~ (<<i, first>> \in OpToRel(<, Nat))
      BY <2>2, <3>1, WFMin, NatLessThanWellFounded
    <3>3. \A i \in past : first <= i
      <4>1. \A i \in past : ~ (i < first)
        BY <3>1, <3>2 DEF OpToRel
      <4> QED
        BY <3>1, <4>1
    <3>4. first \in 1..Len(h) /\ h[first].round > n
      OBVIOUS
    <3>5. \A i \in 1..Len(h) : i <= first - 1 => h[i].round <= n
      BY <1>0, <3>3, <3>4
    <3>6. \A i \in 1..Len(h) : first <= i => h[first].round <= h[i].round
      BY <1>0, <3>4 DEF Ascending
    <3>7. Splits(first - 1)
      BY <1>0, <3>4, <3>5, <3>6
    <3>8. first - 1 \in 0..Len(h)
      BY <1>0, <3>4
    <3> QED
      BY <3>7, <3>8
  <2> QED
    BY <2>1, <2>2
<1> QED
  BY <1>1 DEF Upto

\* all is h with r in the place of the entries between p and q.
InsertedAt(h, r, p, q, all) ==
  /\ p \in 0..Len(h) /\ q \in 0..Len(h) /\ p <= q /\ q <= p + 1
  /\ Len(all) = p + 1 + Len(h) - q
  /\ \A i \in 1..p : all[i] = h[i] /\ h[i].round < r.round
  /\ all[p + 1] = r
  /\ \A i \in 1..(Len(h) - q) : all[p + 1 + i] = h[q + i] /\ h[q + i].round > r.round
  /\ \A i \in 1..Len(h) : p < i /\ i <= q => h[i].round = r.round

\* append_round before the cap: the result takes the place its number gives it.
LEMMA InsertedInOrder ==
  ASSUME NEW S, NEW h \in Seq(S), NEW r \in S, \A s \in S : s.round \in Int, Ascending(h)
  PROVE  Inserted(h, r) \in Seq(S) /\ InsertedAt(h, r, Upto(h, r.round - 1), Upto(h, r.round), Inserted(h, r))
<1> DEFINE p == Upto(h, r.round - 1)
           q == Upto(h, r.round)
           early == SubSeq(h, 1, p)
           late == SubSeq(h, q + 1, Len(h))
           all == early \o <<r>> \o late
<1>0. /\ Len(h) \in Nat /\ \A i \in 1..Len(h) : h[i] \in S /\ h[i].round \in Int
      /\ r.round \in Int
  OBVIOUS
<1>1. /\ p \in 0..Len(h) /\ q \in 0..Len(h)
      /\ \A i \in 1..Len(h) : i <= p <=> h[i].round <= r.round - 1
      /\ \A i \in 1..Len(h) : i <= q <=> h[i].round <= r.round
  <2>1. r.round - 1 \in Int
    BY <1>0
  <2> QED
    BY <1>0, <2>1, UptoSplits
<1> HIDE DEF p, q
<1>2. p <= q
  <2>1. CASE p = 0
    BY <1>1, <2>1
  <2>2. CASE p # 0
    <3>1. p \in 1..Len(h)
      BY <1>0, <1>1, <2>2
    <3>2. h[p].round <= r.round
      BY <1>0, <1>1, <3>1
    <3> QED
      BY <1>1, <3>1, <3>2
  <2> QED
    BY <2>1, <2>2
<1>3. \A i \in 1..Len(h) : p < i /\ i <= q => h[i].round = r.round
  BY <1>0, <1>1
<1>4. q <= p + 1
  <2> SUFFICES ASSUME q > p + 1 PROVE FALSE
    BY <1>0, <1>1
  <2>1. p + 1 \in 1..Len(h) /\ p + 2 \in 1..Len(h)
    BY <1>0, <1>1
  <2>2. h[p + 1].round = r.round /\ h[p + 2].round = r.round
    BY <1>0, <1>1, <1>3, <2>1
  <2>3. h[p + 1].round < h[p + 2].round
    BY <1>1, <2>1 DEF Ascending
  <2> QED
    BY <1>0, <2>2, <2>3
<1>5. /\ early \in Seq(S) /\ Len(early) = p
      /\ \A i \in 1..p : early[i] = h[i]
  BY <1>0, <1>1
<1>6. /\ late \in Seq(S) /\ Len(late) = Len(h) - q
      /\ \A i \in 1..(Len(h) - q) : late[i] = h[q + i]
  BY <1>0, <1>1
<1> HIDE DEF early, late
<1> DEFINE front == early \o <<r>>
<1>7. /\ front \in Seq(S) /\ Len(front) = p + 1
      /\ \A i \in 1..p : front[i] = h[i]
      /\ front[p + 1] = r
  BY <1>1, <1>5
<1>8. /\ all \in Seq(S) /\ Len(all) = p + 1 + Len(h) - q
      /\ \A i \in 1..(p + 1) : all[i] = front[i]
      /\ \A i \in 1..(Len(h) - q) : all[p + 1 + i] = late[i]
  <2>1. all = front \o late
    OBVIOUS
  <2> HIDE DEF front, all
  <2>2. all \in Seq(S)
    BY <1>6, <1>7, <2>1
  <2>5. Len(all) = Len(front) + Len(late)
    <3>1. front \in Seq(S) /\ late \in Seq(S)
      BY <1>6, <1>7
    <3>2. Len(front \o late) = Len(front) + Len(late)
      BY <3>1
    <3> QED
      BY <2>1, <3>2
  <2>3. \A i \in 1..Len(front) : all[i] = front[i]
    BY <1>6, <1>7, <2>1
  <2>4. \A i \in 1..Len(late) : all[Len(front) + i] = late[i]
    BY <1>6, <1>7, <2>1
  <2> QED
    BY <1>0, <1>1, <1>6, <1>7, <2>2, <2>3, <2>4, <2>5
<1> HIDE DEF front, all
<1>9. ASSUME NEW i \in 1..p PROVE all[i] = h[i] /\ h[i].round < r.round
  <2>1. i \in 1..Len(h) /\ i \in 1..(p + 1)
    BY <1>0, <1>1
  <2>2. h[i].round <= r.round - 1
    BY <1>1, <2>1
  <2> QED
    BY <1>0, <1>7, <1>8, <2>1, <2>2
<1>10. all[p + 1] = r
  BY <1>1, <1>7, <1>8
<1>11. ASSUME NEW i \in 1..(Len(h) - q)
       PROVE  all[p + 1 + i] = h[q + i] /\ h[q + i].round > r.round
  <2>1. q + i \in 1..Len(h) /\ ~(q + i <= q)
    BY <1>0, <1>1
  <2> QED
    BY <1>0, <1>1, <1>6, <1>8, <2>1
<1> QED
  BY <1>1, <1>2, <1>3, <1>4, <1>8, <1>9, <1>10, <1>11
     DEF p, q, early, late, all, InsertedAt, Inserted

InsertedSound(h, r, all) ==
  /\ Ascending(all) /\ Len(all) >= Len(h)
  /\ Rounds(all) = {s \in Rounds(h) : s.round # r.round} \union {r}
  /\ OlderThanAll(r, h) => /\ Len(all) = Len(h) + 1 /\ all[1] = r
                           /\ \A i \in 2..Len(all) : all[i] \in Rounds(h)

\* The same, said of the results it holds.
LEMMA InsertedHolds ==
  ASSUME NEW S, NEW h \in Seq(S), NEW r \in S, \A s \in S : s.round \in Int, Ascending(h)
  PROVE  InsertedSound(h, r, Inserted(h, r))
<1> DEFINE p == Upto(h, r.round - 1)
           q == Upto(h, r.round)
           all == Inserted(h, r)
<1>0. /\ Len(h) \in Nat /\ \A i \in 1..Len(h) : h[i] \in S /\ h[i].round \in Int
      /\ r.round \in Int
  OBVIOUS
<1>1. /\ p \in 0..Len(h) /\ q \in 0..Len(h) /\ p <= q /\ q <= p + 1
      /\ all \in Seq(S) /\ Len(all) = p + 1 + Len(h) - q
      /\ \A i \in 1..p : all[i] = h[i] /\ h[i].round < r.round
      /\ all[p + 1] = r
      /\ \A i \in 1..(Len(h) - q) : all[p + 1 + i] = h[q + i] /\ h[q + i].round > r.round
      /\ \A i \in 1..Len(h) : p < i /\ i <= q => h[i].round = r.round
  <2>1. all \in Seq(S) /\ InsertedAt(h, r, p, q, all)
    BY InsertedInOrder
  <2> QED
    BY <2>1 DEF InsertedAt
<1> HIDE DEF p, q, all
\* The place in h of an entry of `all` other than the result.
<1>2. ASSUME NEW i \in 1..Len(all), i > p + 1
      PROVE  /\ q + (i - p - 1) \in 1..Len(h) /\ all[i] = h[q + (i - p - 1)]
             /\ all[i].round > r.round
  <2>1. i - p - 1 \in 1..(Len(h) - q) /\ p + 1 + (i - p - 1) = i
    BY <1>0, <1>1, <1>2
  <2>2. all[p + 1 + (i - p - 1)] = h[q + (i - p - 1)] /\ h[q + (i - p - 1)].round > r.round
    BY <1>1, <2>1
  <2> QED
    BY <1>0, <1>1, <2>1, <2>2
<1>3. ASSUME NEW i \in 1..Len(all), i <= p
      PROVE  i \in 1..Len(h) /\ all[i] = h[i] /\ all[i].round < r.round
  BY <1>0, <1>1, <1>3
<1>4. Ascending(all)
  <2> SUFFICES ASSUME NEW i \in 1..Len(all), NEW j \in 1..Len(all), i < j
               PROVE  all[i].round < all[j].round
    BY DEF Ascending
  <2>0. /\ all[i] \in S /\ all[j] \in S /\ all[i].round \in Int /\ all[j].round \in Int
        /\ i \in Int /\ j \in Int /\ p \in Int
    BY <1>1
  <2>1. CASE j <= p
    BY <1>3, <2>0, <2>1 DEF Ascending
  <2>2. CASE j = p + 1
    BY <1>0, <1>1, <1>3, <2>0, <2>2
  <2>3. CASE j > p + 1 /\ i <= p + 1
    <3>1. all[j].round > r.round
      BY <1>2, <2>3
    <3>2. CASE i <= p
      BY <1>0, <1>3, <2>0, <3>1, <3>2
    <3>3. CASE i = p + 1
      BY <1>1, <3>1, <3>3
    <3> QED
      BY <2>0, <2>3, <3>2, <3>3
  <2>4. CASE i > p + 1
    <3>1. q + (i - p - 1) < q + (j - p - 1)
      BY <1>0, <1>1, <2>0
    <3>2. h[q + (i - p - 1)].round < h[q + (j - p - 1)].round
      <4>1. q + (i - p - 1) \in 1..Len(h) /\ q + (j - p - 1) \in 1..Len(h)
        BY <1>2, <2>0, <2>4
      <4> QED
        BY <3>1, <4>1 DEF Ascending
    <3>3. j > p + 1
      BY <2>0, <2>4
    <3>4. all[i] = h[q + (i - p - 1)] /\ all[j] = h[q + (j - p - 1)]
      BY <1>2, <2>4, <3>3
    <3> QED
      BY <3>2, <3>4
  <2> QED
    BY <2>0, <2>1, <2>2, <2>3, <2>4
<1>5. Rounds(all) = {s \in Rounds(h) : s.round # r.round} \union {r}
  <2>1. ASSUME NEW i \in 1..Len(all)
        PROVE  all[i] = r \/ (all[i] \in Rounds(h) /\ all[i].round # r.round)
    <3>1. CASE i <= p
      BY <1>0, <1>3, <3>1 DEF Rounds
    <3>2. CASE i > p + 1
      BY <1>0, <1>2, <3>2 DEF Rounds
    <3> QED
      BY <1>1, <3>1, <3>2
  <2>2. ASSUME NEW i \in 1..Len(h), h[i].round # r.round PROVE h[i] \in Rounds(all)
    <3>1. CASE i <= p
      <4>1. i \in 1..Len(all) /\ all[i] = h[i]
        BY <1>0, <1>1, <3>1
      <4> QED
        BY <4>1 DEF Rounds
    <3>2. CASE i > q
      <4>1. i - q \in 1..(Len(h) - q) /\ q + (i - q) = i
        BY <1>0, <1>1, <3>2
      <4>2. p + 1 + (i - q) \in 1..Len(all)
        BY <1>0, <1>1, <3>2
      <4>3. all[p + 1 + (i - q)] = h[q + (i - q)]
        BY <1>1, <4>1
      <4> QED
        BY <4>1, <4>2, <4>3 DEF Rounds
    <3> QED
      BY <1>0, <1>1, <2>2, <3>1, <3>2
  <2>3. r \in Rounds(all)
    <3>1. p + 1 \in 1..Len(all)
      BY <1>0, <1>1
    <3> QED
      BY <1>1, <3>1 DEF Rounds
  <2> QED
    BY <2>1, <2>2, <2>3 DEF Rounds
<1>6. ASSUME OlderThanAll(r, h)
      PROVE  /\ Len(all) = Len(h) + 1 /\ all[1] = r
             /\ \A i \in 2..Len(all) : all[i] \in Rounds(h)
  <2>1. p = 0
    <3> SUFFICES ASSUME p # 0 PROVE FALSE
      OBVIOUS
    <3>1. 1 \in 1..p /\ 1 \in 1..Len(h)
      BY <1>0, <1>1
    <3> QED
      BY <1>0, <1>1, <1>6, <3>1 DEF OlderThanAll
  <2>2. q = 0
    <3> SUFFICES ASSUME q # 0 PROVE FALSE
      OBVIOUS
    <3>1. 1 \in 1..Len(h) /\ p < 1 /\ 1 <= q
      BY <1>0, <1>1, <2>1
    <3> QED
      BY <1>0, <1>1, <1>6, <3>1 DEF OlderThanAll
  <2>3. ASSUME NEW i \in 2..Len(all) PROVE all[i] \in Rounds(h)
    BY <1>0, <1>1, <1>2, <2>1, <2>3 DEF Rounds
  <2> QED
    BY <1>0, <1>1, <2>1, <2>2, <2>3
<1>7. Len(all) >= Len(h)
  BY <1>0, <1>1
<1> QED
  BY <1>4, <1>5, <1>6, <1>7 DEF InsertedSound, all

\* The cap takes the oldest away.
LEMMA CappedKeepsLast ==
  ASSUME NEW S, NEW all \in Seq(S), \A s \in S : s.round \in Int, Ascending(all)
  PROVE  /\ Capped(all) \in Seq(Rounds(all)) /\ Ascending(Capped(all))
         /\ Len(Capped(all)) = Kept(Len(all))
         /\ \A r \in Rounds(all) : r \in Rounds(Capped(all)) \/ OlderThanAll(r, Capped(all))
         /\ Len(all) > MaxTracked =>
              \A r \in Rounds(Capped(all)) : \E j \in 2..Len(all) : r = all[j]
<1> DEFINE first == IF Len(all) > MaxTracked THEN Len(all) - MaxTracked + 1 ELSE 1
           h == Capped(all)
<1>0. /\ Len(all) \in Nat /\ MaxTracked \in Nat /\ MaxTracked > 0
      /\ \A i \in 1..Len(all) : all[i] \in Rounds(all) /\ all[i].round \in Int
  BY TrackerAssumption DEF Rounds
<1>1. first \in 1..(Len(all) + 1) /\ Len(all) - first + 1 = Kept(Len(all))
  <2>1. CASE Len(all) > MaxTracked
    <3>1. first = Len(all) - MaxTracked + 1 /\ Kept(Len(all)) = MaxTracked
      BY <1>0, <2>1 DEF Kept
    <3> HIDE DEF first
    <3> QED
      BY <1>0, <2>1, <3>1
  <2>2. CASE ~(Len(all) > MaxTracked)
    BY <1>0, <2>2 DEF Kept
  <2> QED
    BY <2>1, <2>2
<1>2. Len(all) > MaxTracked => first >= 2
  BY <1>0
<1>3. h = SubSeq(all, first, Len(all))
  BY DEF Capped
<1> HIDE DEF first, h
<1>4. all \in Seq(Rounds(all))
  BY <1>0
<1>5. /\ h \in Seq(Rounds(all)) /\ Len(h) = Len(all) - first + 1
      /\ \A i \in 1..Len(h) : h[i] = all[first + i - 1]
  BY <1>0, <1>1, <1>3, <1>4
<1>6. \A i \in 1..Len(h) : first + i - 1 \in first..Len(all) /\ first + i - 1 \in 1..Len(all)
  BY <1>0, <1>1, <1>5
<1>7. Ascending(h)
  <2> SUFFICES ASSUME NEW i \in 1..Len(h), NEW j \in 1..Len(h), i < j
               PROVE  h[i].round < h[j].round
    BY DEF Ascending
  <2>1. first + i - 1 < first + j - 1
    BY <1>1
  <2> QED
    BY <1>5, <1>6, <2>1 DEF Ascending
<1>8. ASSUME NEW r \in Rounds(all) PROVE r \in Rounds(h) \/ OlderThanAll(r, h)
  <2>1. PICK j \in 1..Len(all) : r = all[j]
    BY DEF Rounds
  <2>2. CASE j >= first
    <3>1. j - first + 1 \in 1..Len(h) /\ first + (j - first + 1) - 1 = j
      BY <1>0, <1>1, <1>5, <2>2
    <3>2. h[j - first + 1] = all[j]
      BY <1>5, <3>1
    <3> QED
      BY <2>1, <3>1, <3>2 DEF Rounds
  <2>3. CASE j < first
    <3>1. ASSUME NEW i \in 1..Len(h) PROVE r.round < h[i].round
      <4>1. j < first + i - 1
        BY <1>1, <2>3
      <4> QED
        BY <1>5, <1>6, <2>1, <4>1 DEF Ascending
    <3> QED
      BY <3>1 DEF OlderThanAll
  <2> QED
    BY <1>1, <2>2, <2>3
<1>9. ASSUME Len(all) > MaxTracked, NEW i \in 1..Len(h)
      PROVE  \E j \in 2..Len(all) : h[i] = all[j]
  <2>1. first + i - 1 \in 2..Len(all)
    BY <1>0, <1>1, <1>2, <1>6, <1>9
  <2> QED
    BY <1>5, <2>1
<1> QED
  BY <1>1, <1>5, <1>7, <1>8, <1>9 DEF h, Rounds

\* Ascending results are distinct, so as many as the history is long.
LEMMA AscendingCount ==
  ASSUME NEW S, NEW h \in Seq(S), \A s \in S : s.round \in Int, Ascending(h)
  PROVE  IsFiniteSet(Rounds(h)) /\ Cardinality(Rounds(h)) = Len(h)
<1>1. Distinct(h)
  <2> SUFFICES ASSUME NEW i \in 1..Len(h), NEW j \in 1..Len(h), h[i] = h[j], i # j
               PROVE  FALSE
    BY DEF Distinct
  <2>1. i < j \/ j < i
    OBVIOUS
  <2>2. h[i].round < h[j].round \/ h[j].round < h[i].round
    BY <2>1 DEF Ascending
  <2>3. h[i].round \in Int
    OBVIOUS
  <2> QED
    BY <2>2, <2>3
<1>2. Rounds(h) = RowsOf(h)
  BY DEF Rounds, RowsOf
<1> QED
  BY <1>1, <1>2, DistinctRowsCount

NewResults(results, r) == {s \in results : s.round # r.round} \union {r}

\* Recording a result replaces at most one.
LEMMA NewResultsCount ==
  ASSUME NEW results, IsFiniteSet(results), Numbered(results), NEW r, r.round \in Int
  PROVE  /\ IsFiniteSet(NewResults(results, r)) /\ Numbered(NewResults(results, r))
         /\ Cardinality(NewResults(results, r)) \in Nat
         /\ Cardinality(NewResults(results, r)) >= Cardinality(results)
<1> DEFINE rest == {s \in results : s.round # r.round}
<1>1. Numbered(NewResults(results, r)) /\ r \notin rest
  BY DEF Numbered, NewResults
<1>2. IsFiniteSet(rest) /\ Cardinality(rest) \in Nat /\ Cardinality(results) \in Nat
      /\ Cardinality(rest) + 1 >= Cardinality(results)
  <2>1. CASE \E s \in results : s.round = r.round
    <3>1. PICK s \in results : s.round = r.round
      BY <2>1
    <3>2. rest = results \ {s}
      BY <3>1 DEF Numbered
    <3> HIDE DEF rest
    <3>3. IsFiniteSet(rest) /\ Cardinality(rest) = Cardinality(results) - 1
      BY <3>1, <3>2, FS_RemoveElement
    <3> QED
      BY <3>3, FS_CardinalityType
  <2>2. CASE ~ \E s \in results : s.round = r.round
    <3>1. rest = results
      BY <2>2
    <3> HIDE DEF rest
    <3> QED
      BY <3>1, FS_CardinalityType
  <2> QED
    BY <2>1, <2>2
<1>3. NewResults(results, r) = rest \union {r}
  BY DEF NewResults
<1> HIDE DEF rest
<1>4. /\ IsFiniteSet(rest \union {r})
      /\ Cardinality(rest \union {r}) = Cardinality(rest) + 1
  BY <1>1, <1>2, FS_AddElement
<1> QED
  BY <1>1, <1>2, <1>3, <1>4

\* append_round keeps what it is meant to keep.
LEMMA AppendRoundKeeps ==
  ASSUME NEW h, NEW results, Keeps(h, results), NEW r, r.round \in Int
  PROVE  Keeps(AppendRound(h, r), NewResults(results, r))
<1> DEFINE new == NewResults(results, r)
           S == results \union {r}
           all == Inserted(h, r)
           kept == AppendRound(h, r)
<1>1. /\ IsFiniteSet(results) /\ Numbered(results) /\ h \in Seq(results) /\ Ascending(h)
      /\ Len(h) = Kept(Cardinality(results)) /\ Len(h) \in Nat
      /\ \A s \in results : s \in Rounds(h) \/ OlderThanAll(s, h)
  BY DEF Keeps
<1>2. h \in Seq(S) /\ r \in S /\ \A s \in S : s.round \in Int
  BY <1>1 DEF Numbered
<1>3. all \in Seq(S) /\ InsertedSound(h, r, all)
  BY <1>1, <1>2, InsertedHolds, InsertedInOrder
<1>4. /\ Ascending(all) /\ Len(all) >= Len(h) /\ Len(all) \in Nat
      /\ Rounds(all) = {s \in Rounds(h) : s.round # r.round} \union {r}
      /\ OlderThanAll(r, h) => /\ Len(all) = Len(h) + 1
                               /\ \A i \in 2..Len(all) : all[i] \in Rounds(h)
  BY <1>3 DEF InsertedSound
<1>5. kept = Capped(all)
  BY DEF AppendRound
<1>6. new = NewResults(results, r)
  OBVIOUS
<1> SUFFICES Keeps(kept, new)
  OBVIOUS
<1> HIDE DEF all, kept, new
<1>7. /\ kept \in Seq(Rounds(all)) /\ Ascending(kept) /\ Len(kept) = Kept(Len(all))
      /\ \A s \in Rounds(all) : s \in Rounds(kept) \/ OlderThanAll(s, kept)
      /\ Len(all) > MaxTracked => \A s \in Rounds(kept) : \E j \in 2..Len(all) : s = all[j]
  BY <1>2, <1>3, <1>4, <1>5, CappedKeepsLast
<1>8. Rounds(h) \subseteq results
  BY <1>1 DEF Rounds
<1>9. Rounds(all) \subseteq new /\ Rounds(kept) \subseteq Rounds(all)
  <2>1. Rounds(all) \subseteq new
    BY <1>4, <1>6, <1>8 DEF NewResults
  <2>2. \A i \in 1..Len(kept) : kept[i] \in Rounds(all)
    BY <1>7
  <2> QED
    BY <2>1, <2>2 DEF Rounds
<1>10. kept \in Seq(new)
  BY <1>7, <1>9
<1>11. /\ IsFiniteSet(new) /\ Numbered(new) /\ Cardinality(new) \in Nat
       /\ Cardinality(new) >= Cardinality(results)
  BY <1>1, <1>6, NewResultsCount
<1>12. Cardinality(results) \in Nat /\ MaxTracked \in Nat /\ MaxTracked > 0
  BY <1>1, FS_CardinalityType, TrackerAssumption
\* Nothing was forgotten yet: the history holds every result.
<1>13. CASE Cardinality(results) <= MaxTracked
  <2>1. Len(h) = Cardinality(results)
    BY <1>1, <1>12, <1>13 DEF Kept
  <2>2. Rounds(h) = results
    <3>1. Cardinality(Rounds(h)) = Cardinality(results)
      BY <1>1, <1>2, <2>1, AscendingCount
    <3> QED
      BY <1>1, <1>8, <3>1, FS_Subset
  <2>3. Rounds(all) = new
    BY <1>4, <1>6, <2>2 DEF NewResults
  <2>4. Len(all) = Cardinality(new)
    BY <1>2, <1>3, <1>4, <2>3, AscendingCount
  <2> QED
    BY <1>7, <1>10, <1>11, <2>3, <2>4 DEF Keeps
\* The history is full: one that is older than all of it stays out.
<1>14. CASE Cardinality(results) > MaxTracked
  <2>1. Len(h) = MaxTracked /\ Kept(Len(all)) = MaxTracked /\ Kept(Cardinality(new)) = MaxTracked
    BY <1>1, <1>4, <1>11, <1>12, <1>14 DEF Kept
  <2>2. ASSUME NEW s \in new PROVE s \in Rounds(kept) \/ OlderThanAll(s, kept)
    <3>1. CASE s \in Rounds(all)
      BY <1>7, <3>1
    <3>2. CASE s \notin Rounds(all)
      <4>1. s \in results /\ s.round # r.round /\ s \notin Rounds(h)
        BY <1>4, <1>6, <3>2 DEF NewResults
      <4>2. OlderThanAll(s, h)
        BY <1>1, <4>1
      <4>3. ASSUME NEW x \in Rounds(h) PROVE s.round < x.round
        BY <4>2 DEF OlderThanAll, Rounds
      <4>4. s.round \in Int /\ r.round \in Int
        BY <1>2, <4>1
      <4>5. CASE s.round < r.round
        <5>1. \A x \in Rounds(all) : s.round < x.round
          BY <1>4, <4>3, <4>5
        <5> QED
          BY <1>9, <5>1 DEF OlderThanAll, Rounds
      <4>6. CASE r.round < s.round
        <5>1. OlderThanAll(r, h)
          <6>1. ASSUME NEW i \in 1..Len(h) PROVE r.round < h[i].round
            <7>1. h[i] \in Rounds(h) /\ h[i].round \in Int
              BY <1>1, <1>2 DEF Rounds
            <7> QED
              BY <4>3, <4>4, <4>6, <7>1
          <6> QED
            BY <6>1 DEF OlderThanAll
        <5>2. Len(all) > MaxTracked /\ \A i \in 2..Len(all) : all[i] \in Rounds(h)
          BY <1>4, <1>12, <2>1, <5>1
        <5>3. Rounds(kept) \subseteq Rounds(h)
          BY <1>7, <5>2
        <5> QED
          BY <4>3, <5>3 DEF OlderThanAll, Rounds
      <4> QED
        BY <4>1, <4>4, <4>5, <4>6
    <3> QED
      BY <3>1, <3>2
  <2> QED
    BY <1>7, <1>10, <1>11, <2>1, <2>2 DEF Keeps
<1> QED
  BY <1>12, <1>13, <1>14

LEMMA NothingKept == Keeps(<<>>, {})
<1>1. IsFiniteSet({}) /\ Cardinality({}) = 0
  BY FS_EmptySet
<1> QED
  BY <1>1, TrackerAssumption DEF Keeps, Numbered, Ascending, Kept

-----------------------------------------------------------------------------
LEMMA EventIsTyped ==
  ASSUME HistoryInv, phase # "idle"
  PROVE  /\ Event.match \in Matches /\ Len(topic) \in Nat /\ pos \in 1..Len(topic)
         /\ phase \in {"get_history", "set_history"} => Event.round \in Int
<1>1. Len(topic) \in Nat /\ pos \in 1..Len(topic)
  BY TopicsAssumption DEF HistoryInv
<1>2. /\ topic[pos].match \in Matches
      /\ topic[pos].type = "round_end" => topic[pos].round \in Nat
  BY <1>1, TopicsAssumption DEF HistoryInv
<1> QED
  BY <1>1, <1>2 DEF HistoryInv, Event

\* Steps that touch neither a history nor what is recorded.
LEMMA UntouchedKeeps ==
  ASSUME HistoryInv, UNCHANGED <<topic, histories, recorded>>,
         pos' \in Nat \ {0},
         phase' # "idle" => pos' <= Len(topic),
         phase' \in {"get_history", "set_history"} => Event'.type = "round_end",
         phase' # "set_history" \/ pending' = <<>>
  PROVE  HistoryInv'
BY DEF HistoryInv

LEMMA HandleKeeps == HistoryInv /\ Handle => HistoryInv'
<1> SUFFICES ASSUME HistoryInv, Handle PROVE HistoryInv'
  OBVIOUS
<1>1. pos \in Nat \ {0} /\ pos <= Len(topic) /\ UNCHANGED <<topic, histories, recorded>>
  BY DEF Handle, HandleIn, HistoryInv
<1>2. \/ /\ pos' = pos /\ phase' \in {"set_snapshot", "final_history"}
      \/ /\ pos' = pos /\ phase' = "get_history" /\ Event.type = "round_end"
      \/ /\ pos' = pos + 1 /\ phase' = "idle"
  BY DEF Handle, HandleIn, Finished
<1>3. pos' = pos => Event' = Event
  BY <1>1 DEF Event
<1> QED
  BY <1>1, <1>2, <1>3, UntouchedKeeps

\* A call that returns or fails, and an event that is shed: back to idle.
LEMMA FinishedKeeps ==
  ASSUME HistoryInv, pos' = pos + 1, phase' = "idle", UNCHANGED <<topic, histories, recorded>>
  PROVE  HistoryInv'
<1>1. pos' \in Nat \ {0}
  BY DEF HistoryInv
<1> QED
  BY <1>1, UntouchedKeeps

LEMMA GetHistoryKeeps == HistoryInv /\ GetHistory => HistoryInv'
<1> SUFFICES ASSUME HistoryInv, GetHistory PROVE HistoryInv'
  OBVIOUS
<1>1. /\ Event.match \in Matches /\ pending' = HistoryOf(Event.match)
      /\ UNCHANGED <<topic, pos, histories, recorded>> /\ phase = "get_history"
      /\ phase' = "set_history"
  BY EventIsTyped DEF GetHistory
<1>2. Event' = Event
  BY <1>1 DEF Event
<1>3. pending' # <<>> => Keeps(pending', recorded[Event.match])
  BY <1>1 DEF HistoryInv, HistoryOf
<1> QED
  BY <1>1, <1>2, <1>3 DEF HistoryInv

LEMMA SetHistoryKeeps == HistoryInv /\ SetHistory => HistoryInv'
<1> SUFFICES ASSUME HistoryInv, SetHistory PROVE HistoryInv'
  OBVIOUS
<1> DEFINE m == Event.match
           r == ResultOf(Event)
           rest == IF pending = <<>> THEN {} ELSE recorded[m]
<1>1. /\ phase = "set_history" /\ m \in Matches /\ Event.round \in Int
      /\ histories' = [histories EXCEPT ![m] = AppendRound(pending, r)]
      /\ recorded' = [recorded EXCEPT ![m] =
                        {s \in rest : s.round # Event.round} \union {r}]
      /\ UNCHANGED topic /\ phase' = "idle" /\ pos' = pos + 1
  BY EventIsTyped DEF SetHistory, Finished
<1>2. r.round = Event.round
  BY DEF ResultOf
<1>3. recorded' = [recorded EXCEPT ![m] = NewResults(rest, r)]
  BY <1>1, <1>2 DEF NewResults
<1>4. Keeps(pending, rest)
  BY <1>1, NothingKept DEF HistoryInv
<1> HIDE DEF r, rest
<1>5. Keeps(AppendRound(pending, r), NewResults(rest, r))
  BY <1>1, <1>2, <1>4, AppendRoundKeeps
<1> HIDE DEF m
<1>6. ASSUME NEW n \in Matches, histories'[n] # Absent PROVE Keeps(histories'[n], recorded'[n])
  <2>1. CASE n = m
    BY <1>1, <1>3, <1>5, <2>1 DEF HistoryInv
  <2>2. CASE n # m
    BY <1>1, <1>3, <1>6, <2>2 DEF HistoryInv
  <2> QED
    BY <2>1, <2>2
<1>7. /\ histories' = [n \in Matches |-> histories'[n]]
      /\ recorded' = [n \in Matches |-> recorded'[n]]
  BY <1>1, <1>3 DEF HistoryInv
<1>8. pos' \in Nat \ {0}
  BY <1>1 DEF HistoryInv
<1> QED
  BY <1>1, <1>6, <1>7, <1>8 DEF HistoryInv

LEMMA EntryLostKeeps ==
  ASSUME HistoryInv, NEW m \in Matches, EntryLost(m) PROVE HistoryInv'
<1>1. /\ UNCHANGED <<topic, pos, phase, pending, recorded>>
      /\ histories' \in {histories, [histories EXCEPT ![m] = Absent]}
  BY DEF EntryLost
<1>2. histories' = [n \in Matches |-> histories'[n]]
  BY <1>1 DEF HistoryInv
<1>3. \A n \in Matches : histories'[n] # Absent => histories'[n] = histories[n]
  BY <1>1 DEF HistoryInv
<1>4. Event' = Event
  BY <1>1 DEF Event
<1> QED
  BY <1>1, <1>2, <1>3, <1>4 DEF HistoryInv

LEMMA HistoryStepKeeps == HistoryInv /\ [TrackerNext]_trackerVars => HistoryInv'
<1> SUFFICES ASSUME HistoryInv, [TrackerNext]_trackerVars PROVE HistoryInv'
  OBVIOUS
<1>1. CASE SetSnapshot
  BY <1>1, FinishedKeeps DEF SetSnapshot, Finished
<1>2. CASE Finalise
  BY <1>2, FinishedKeeps DEF Finalise, Finished
<1>3. CASE StoreFails
  BY <1>3, FinishedKeeps DEF StoreFails, Finished
<1>4. CASE Shed
  BY <1>4, FinishedKeeps DEF Shed
<1>5. CASE Restart
  <2>1. pos' \in Nat \ {0} /\ phase' = "idle" /\ UNCHANGED <<topic, histories, recorded>>
    BY <1>5 DEF Restart, HistoryInv
  <2> QED
    BY <2>1, UntouchedKeeps
<1>6. CASE UNCHANGED trackerVars
  BY <1>6 DEF trackerVars, HistoryInv, Event
<1> QED
  BY <1>1, <1>2, <1>3, <1>4, <1>5, <1>6, HandleKeeps, GetHistoryKeeps, SetHistoryKeeps,
     EntryLostKeeps DEF TrackerNext

(***************************************************************************)
(* The inductive invariant of the histories: what is stored, and what the  *)
(* tracker has read and not yet written back, is what is kept of the       *)
(* results recorded.                                                       *)
(***************************************************************************)
THEOREM HistoryInvariant == TrackerSpec => []HistoryInv
<1>1. TrackerInit => HistoryInv
  BY DEF TrackerInit, HistoryInv
<1> QED
  BY <1>1, HistoryStepKeeps, PTL DEF TrackerSpec

(***************************************************************************)
(* Every stored history is the last MaxTracked of the rounds recorded,     *)
(* oldest first and each once, whatever is delivered again, fails or       *)
(* expires.                                                                *)
(***************************************************************************)
THEOREM HistoriesAreExact == TrackerSpec => []HistoryExact
<1>1. HistoryInv => HistoryExact
  BY DEF HistoryInv, HistoryExact, Keeps, Ascending, Kept, OlderThanAll
<1> QED
  BY <1>1, HistoryInvariant, PTL

-----------------------------------------------------------------------------
(***************************************************************************)
(* The windows and the momentum of a snapshot.                             *)
(***************************************************************************)
\* The last position that was handled or shed.
Passed == IF phase = "idle" THEN pos - 1 ELSE pos

\* The events of a type since the last boundary of the match that was handled.
Segment(m, type, d) ==
  {i \in (1..d) \ shed :
     /\ topic[i].match = m /\ topic[i].type = type
     /\ \A b \in (i + 1)..d : b \notin shed /\ topic[b].match = m => ~Boundary(topic, b)}

\* Those of them that are no older than one span before the last.
Held(m, type, d) ==
  LET all == Segment(m, type, d)
  IN {i \in all : \A j \in all : topic[j].time - topic[i].time <= WindowSpan}

\* The items are the events at the positions of P, in their order.
HoldsAt(items, P, where) ==
  /\ \A i, j \in 1..Len(items) : i < j => where[i] < where[j]
  /\ \A p \in P : \E i \in 1..Len(items) : where[i] = p
  /\ \A i \in 1..Len(items) : items[i] = topic[where[i]]

Holds(items, P) == \E where \in [1..Len(items) -> P] : HoldsAt(items, P, where)

\* Their times are.
Ordered(P) ==
  /\ \A p \in P : topic[p].time \in Int
  /\ \A p, q \in P : p < q => topic[p].time <= topic[q].time

\* The events of P that are not older than one span before the one at n.
Within(P, n, span) == {p \in P : topic[n].time - topic[p].time <= span}

-----------------------------------------------------------------------------
LEMMA LeastOf ==
  ASSUME NEW S, S \subseteq Nat, S # {}
  PROVE  \E i \in S : \A j \in S : i <= j
<1>1. PICK i \in S : \A j \in S : ~ (<<j, i>> \in OpToRel(<, Nat))
  BY WFMin, NatLessThanWellFounded
<1>2. \A j \in S : ~ (j < i)
  BY <1>1 DEF OpToRel
<1> QED
  BY <1>2

\* What follows the first items of a buffer that holds the events of P.
LEMMA SuffixHolds ==
  ASSUME NEW S, NEW items \in Seq(S), NEW P, P \subseteq Nat, Holds(items, P),
         NEW first \in 1..Len(items), NEW Q, Q \subseteq P,
         NEW cutoff \in Int, \A i \in 1..Len(items) : items[i].time \in Int,
         \A i \in 1..Len(items) : items[i].time >= cutoff <=> first <= i,
         Q = {p \in P : topic[p].time >= cutoff}
  PROVE  Holds(SubSeq(items, first, Len(items)), Q)
<1> DEFINE rest == SubSeq(items, first, Len(items))
<1>0. Len(items) \in Nat
  OBVIOUS
<1>1. /\ rest \in Seq(S) /\ Len(rest) = Len(items) - first + 1
      /\ \A i \in 1..Len(rest) : rest[i] = items[first + i - 1]
  BY <1>0
<1>2. PICK where \in [1..Len(items) -> P] : HoldsAt(items, P, where)
  BY DEF Holds
<1>3. ASSUME NEW i \in 1..Len(rest)
      PROVE  first + i - 1 \in 1..Len(items) /\ first <= first + i - 1
  BY <1>0, <1>1
<1> DEFINE there == [i \in 1..Len(rest) |-> where[first + i - 1]]
<1> HIDE DEF rest
<1>4. there \in [1..Len(rest) -> Q]
  <2> SUFFICES ASSUME NEW i \in 1..Len(rest) PROVE where[first + i - 1] \in Q
    OBVIOUS
  <2> DEFINE k == first + i - 1
  <2>1. k \in 1..Len(items) /\ first <= k
    BY <1>3
  <2> HIDE DEF k
  <2>2. where[k] \in P /\ items[k] = topic[where[k]] /\ items[k].time >= cutoff
    BY <1>2, <2>1 DEF HoldsAt
  <2>3. where[k] \in Q
    BY <2>2
  <2> QED
    BY <2>3 DEF k
<1>5. ASSUME NEW i \in 1..Len(rest), NEW j \in 1..Len(rest), i < j PROVE there[i] < there[j]
  <2>1. first + i - 1 < first + j - 1
    BY <1>5
  <2> QED
    BY <1>2, <1>3, <2>1 DEF HoldsAt
<1>6. ASSUME NEW p \in Q PROVE \E i \in 1..Len(rest) : there[i] = p
  <2>1. PICK k \in 1..Len(items) : where[k] = p
    BY <1>2 DEF HoldsAt
  <2>2. items[k].time >= cutoff
    BY <1>2, <2>1 DEF HoldsAt
  <2>3. k - first + 1 \in 1..Len(rest) /\ first + (k - first + 1) - 1 = k
    BY <1>0, <1>1, <2>1, <2>2
  <2> QED
    BY <2>1, <2>3
<1>7. ASSUME NEW i \in 1..Len(rest) PROVE rest[i] = topic[there[i]]
  BY <1>1, <1>2, <1>3 DEF HoldsAt
<1>8. HoldsAt(rest, Q, there)
  BY <1>5, <1>6, <1>7 DEF HoldsAt
<1> QED
  BY <1>4, <1>8 DEF Holds, rest

\* A later event is appended.
LEMMA AppendHolds ==
  ASSUME NEW S, NEW items \in Seq(S), NEW P, P \subseteq Nat, Holds(items, P),
         NEW n \in Nat, \A p \in P : p < n, topic[n] \in S
  PROVE  Append(items, topic[n]) \in Seq(S) /\ Holds(Append(items, topic[n]), P \union {n})
<1> DEFINE all == Append(items, topic[n])
           Q == P \union {n}
<1>1. /\ Len(items) \in Nat /\ Len(all) = Len(items) + 1 /\ all \in Seq(S)
      /\ \A i \in 1..Len(items) : all[i] = items[i]
      /\ all[Len(items) + 1] = topic[n]
  OBVIOUS
<1>2. PICK where \in [1..Len(items) -> P] : HoldsAt(items, P, where)
  BY DEF Holds
<1> DEFINE there == [i \in 1..Len(all) |-> IF i <= Len(items) THEN where[i] ELSE n]
<1> HIDE DEF all
<1>3. there \in [1..Len(all) -> Q]
  BY <1>1
<1>4. ASSUME NEW i \in 1..Len(all), NEW j \in 1..Len(all), i < j PROVE there[i] < there[j]
  <2>1. i \in 1..Len(items) /\ there[i] = where[i] /\ where[i] \in P
    BY <1>1, <1>4
  <2>2. CASE j <= Len(items)
    BY <1>1, <1>2, <1>4, <2>1, <2>2 DEF HoldsAt
  <2>3. CASE ~(j <= Len(items))
    BY <2>1, <2>3
  <2> QED
    BY <2>2, <2>3
<1>5. ASSUME NEW p \in Q PROVE \E i \in 1..Len(all) : there[i] = p
  <2>1. CASE p \in P
    <3>1. PICK i \in 1..Len(items) : where[i] = p
      BY <1>2, <2>1 DEF HoldsAt
    <3> QED
      BY <1>1, <3>1
  <2>2. CASE p = n
    <3>1. Len(all) \in 1..Len(all) /\ ~(Len(all) <= Len(items))
      BY <1>1
    <3> QED
      BY <2>2, <3>1
  <2> QED
    BY <2>1, <2>2
<1>6. ASSUME NEW i \in 1..Len(all) PROVE all[i] = topic[there[i]]
  <2>1. CASE i <= Len(items)
    BY <1>1, <1>2, <2>1 DEF HoldsAt
  <2>2. CASE ~(i <= Len(items))
    BY <1>1, <2>2
  <2> QED
    BY <2>1, <2>2
<1>7. HoldsAt(all, Q, there)
  BY <1>4, <1>5, <1>6 DEF HoldsAt
<1> QED
  BY <1>1, <1>3, <1>7 DEF Holds, all

\* SlidingWindow.append: the event is added, and the ones before the span go.
LEMMA AppendEvictingHolds ==
  ASSUME NEW S, NEW items \in Seq(S), NEW P, P \subseteq Nat, Holds(items, P),
         NEW n \in Nat, \A p \in P : p < n, topic[n] \in S,
         NEW span \in Nat, Ordered(P \union {n})
  PROVE  /\ AppendEvicting(items, topic[n], span) \in Seq(S)
         /\ Holds(AppendEvicting(items, topic[n], span), Within(P \union {n}, n, span))
<1> DEFINE all == Append(items, topic[n])
           Q == P \union {n}
           R == Within(Q, n, span)
           cutoff == topic[n].time - span
           inside == {i \in 1..Len(all) : all[i].time >= cutoff}
           first == CHOOSE i \in inside : \A j \in inside : i <= j
<1>1. all \in Seq(S) /\ Holds(all, Q)
  BY AppendHolds
<1>2. /\ Len(all) \in Nat /\ Len(all) \in 1..Len(all)
      /\ all[Len(all)] = topic[n] /\ Q \subseteq Nat /\ cutoff \in Int
  BY DEF Ordered
<1>3. R = {p \in Q : topic[p].time >= cutoff}
  <2>1. ASSUME NEW p \in Q
        PROVE  topic[n].time - topic[p].time <= span <=> topic[p].time >= cutoff
    <3>1. topic[p].time \in Int /\ topic[n].time \in Int
      BY DEF Ordered
    <3> HIDE DEF Q
    <3> QED
      BY <3>1
  <2> HIDE DEF Q, cutoff
  <2> QED
    BY <2>1 DEF Within
<1>2a. Ordered(Q)
  OBVIOUS
<1> HIDE DEF all, Q, R
<1>4. PICK where \in [1..Len(all) -> Q] : HoldsAt(all, Q, where)
  BY <1>1 DEF Holds
<1>5. ASSUME NEW i \in 1..Len(all) PROVE all[i] = topic[where[i]] /\ where[i] \in Q /\ all[i].time \in Int
  BY <1>4, <1>2a DEF HoldsAt, Ordered
<1>6. Len(all) \in inside
  BY <1>2, <1>5
<1>7. first \in inside /\ \A j \in inside : first <= j
  <2>1. \E i \in inside : \A j \in inside : i <= j
    <3>1. inside \subseteq Nat /\ inside # {}
      BY <1>2, <1>6
    <3> HIDE DEF inside
    <3> QED
      BY <3>1, LeastOf
  <2> HIDE DEF inside
  <2> QED
    BY <2>1
<1>8. ASSUME NEW i \in 1..Len(all) PROVE all[i].time >= cutoff <=> first <= i
  <2>1. CASE first <= i
    <3>1. first \in 1..Len(all) /\ all[first].time >= cutoff
      BY <1>7
    <3>2. all[first].time <= all[i].time
      <4>1. CASE first = i
        <5> HIDE DEF first
        <5> QED
          BY <1>5, <4>1
      <4>2. CASE first < i
        <5>1. where[first] < where[i]
          BY <1>4, <3>1, <4>2 DEF HoldsAt
        <5> HIDE DEF first
        <5>2. where[first] \in Q /\ where[i] \in Q
          BY <1>5, <3>1
        <5> QED
          BY <1>5, <1>2a, <3>1, <5>1, <5>2 DEF Ordered
      <4> QED
        BY <2>1, <3>1, <4>1, <4>2
    <3> HIDE DEF first
    <3> QED
      BY <1>2, <1>5, <2>1, <3>1, <3>2
  <2>2. CASE ~(first <= i)
    BY <1>7, <2>2
  <2> QED
    BY <2>1, <2>2
<1>9. AppendEvicting(items, topic[n], span) = SubSeq(all, first, Len(all))
  <2>1. inside # {}
    BY <1>6
  <2> QED
    BY <2>1 DEF AppendEvicting, EvictBefore, all
<1>10. first \in 1..Len(all)
  BY <1>7
<1> HIDE DEF first, inside, cutoff
<1>11. Holds(SubSeq(all, first, Len(all)), R)
  <2>1. R \subseteq Q
    BY DEF R, Within
  <2> QED
    BY <1>1, <1>2, <1>3, <1>5, <1>8, <1>10, <2>1, SuffixHolds
<1>12. SubSeq(all, first, Len(all)) \in Seq(S)
  BY <1>1, <1>2, <1>10
<1> QED
  BY <1>9, <1>11, <1>12 DEF R, Q

\* The items that are events of Q.
ItemsOf(items, where, Q) == {i \in 1..Len(items) : where[i] \in Q}

\* They are as many as Q has.
LEMMA HeldCount ==
  ASSUME NEW items, Len(items) \in Nat, NEW P, P \subseteq Nat,
         NEW where \in [1..Len(items) -> P], HoldsAt(items, P, where),
         NEW Q, Q \subseteq P
  PROVE  /\ IsFiniteSet(Q)
         /\ Cardinality(Q) = Cardinality(ItemsOf(items, where, Q))
<1> DEFINE picked == {i \in 1..Len(items) : where[i] \in Q}
           there == [i \in picked |-> where[i]]
<1>1. IsFiniteSet(picked)
  <2>1. IsFiniteSet(1..Len(items))
    BY FS_Interval
  <2> QED
    BY <2>1, FS_Subset
<1>2. there \in [picked -> Q]
  OBVIOUS
<1>3. ASSUME NEW i \in picked, NEW j \in picked, there[i] = there[j] PROVE i = j
  <2>1. i \in Nat /\ j \in Nat /\ where[i] \in Nat /\ where[j] \in Nat
    <3>1. i \in 1..Len(items) /\ j \in 1..Len(items) /\ Len(items) \in Nat
      OBVIOUS
    <3>2. where[i] \in P /\ where[j] \in P
      BY <3>1
    <3>3. where[i] \in Nat /\ where[j] \in Nat
      BY <3>2
    <3>4. \A k \in 1..Len(items) : k \in Nat
      OBVIOUS
    <3> QED
      BY <3>1, <3>3, <3>4
  <2>2. CASE i < j
    BY <1>3, <2>1, <2>2 DEF HoldsAt
  <2>3. CASE j < i
    BY <1>3, <2>1, <2>3 DEF HoldsAt
  <2> QED
    BY <2>1, <2>2, <2>3
<1>4. ASSUME NEW p \in Q PROVE \E i \in picked : there[i] = p
  BY DEF HoldsAt
<1> HIDE DEF there
<1>5. there \in Bijection(picked, Q)
  BY <1>2, <1>3, <1>4 DEF Bijection, Injection, IsInjective, Surjection
<1>6. ExistsBijection(picked, Q)
  BY <1>5 DEF ExistsBijection
<1> QED
  BY <1>1, <1>6, FS_Bijection DEF ItemsOf

\* The kills of the CTs, counted in a buffer and in the topic.
KillsOfCT(K) == {i \in K : topic[i].victim = "T"}
CountedForCT(items) == {i \in 1..Len(items) : items[i].victim = "T"}

\* They are as many.
LEMMA KillsCounted ==
  ASSUME NEW items, Len(items) \in Nat, NEW K, K \subseteq Nat, Holds(items, K)
  PROVE  /\ IsFiniteSet(KillsOfCT(K)) /\ Cardinality(KillsOfCT(K)) \in Nat
         /\ Cardinality(KillsOfCT(K)) = Cardinality(CountedForCT(items))
<1>1. PICK where \in [1..Len(items) -> K] : HoldsAt(items, K, where)
  BY DEF Holds
<1>2. KillsOfCT(K) \subseteq K
  BY DEF KillsOfCT
<1>3. /\ IsFiniteSet(KillsOfCT(K))
      /\ Cardinality(KillsOfCT(K)) = Cardinality(ItemsOf(items, where, KillsOfCT(K)))
  BY <1>1, <1>2, HeldCount
<1>4. ItemsOf(items, where, KillsOfCT(K)) = CountedForCT(items)
  BY <1>1 DEF ItemsOf, HoldsAt, KillsOfCT, CountedForCT
<1> QED
  BY <1>3, <1>4, FS_CardinalityType

\* A buffer is as long as the set it holds is large.
LEMMA HeldLength ==
  ASSUME NEW S, NEW items \in Seq(S), NEW P, P \subseteq Nat, Holds(items, P)
  PROVE  IsFiniteSet(P) /\ Cardinality(P) = Len(items)
<1>1. PICK where \in [1..Len(items) -> P] : HoldsAt(items, P, where)
  BY DEF Holds
<1>2. IsFiniteSet(P) /\ Cardinality(P) = Cardinality(ItemsOf(items, where, P))
  <2> DEFINE Q == P
  <2>1. Q \subseteq P
    OBVIOUS
  <2> HIDE DEF Q
  <2>a. Len(items) \in Nat
    OBVIOUS
  <2>2. IsFiniteSet(Q) /\ Cardinality(Q) = Cardinality(ItemsOf(items, where, Q))
    BY <1>1, <2>1, <2>a, HeldCount
  <2> QED
    BY <2>2 DEF Q
<1>3. ItemsOf(items, where, P) = 1..Len(items) /\ Len(items) \in Nat
  BY DEF ItemsOf
<1>4. Cardinality(1..Len(items)) = Len(items)
  <2>1. Cardinality(1..Len(items)) = IF 1 > Len(items) THEN 0 ELSE Len(items) - 1 + 1
    BY <1>3, FS_Interval
  <2> QED
    BY <1>3, <2>1
<1> QED
  BY <1>2, <1>3, <1>4

\* The time between the first and the last.
LEMMA HeldSpan ==
  ASSUME NEW S, NEW items \in Seq(S), NEW P, P \subseteq Nat, Holds(items, P),
         \A p \in P : topic[p].time \in Int,
         \A p, q \in P : p < q => topic[p].time <= topic[q].time
  PROVE  Between(P) = SpanOf(items) /\ SpanOf(items) \in Int
<1> DEFINE apart == {topic[j].time - topic[i].time : i, j \in P}
           last == Len(items)
<1>1. PICK where \in [1..Len(items) -> P] : HoldsAt(items, P, where)
  BY DEF Holds
<1>2. last \in Nat /\ \A i \in 1..last : where[i] \in P /\ items[i] = topic[where[i]]
  BY <1>1 DEF HoldsAt
<1>2a. ASSUME NEW x \in P, NEW y \in P PROVE topic[y].time - topic[x].time \in apart
  <2> DEFINE far == topic[y].time - topic[x].time
  <2>1. \E i \in P, j \in P : far = topic[j].time - topic[i].time
    BY Zenon
  <2> HIDE DEF far
  <2> QED
    BY <2>1
<1>3. apart \subseteq Int
  <2> SUFFICES ASSUME NEW i \in P, NEW j \in P PROVE topic[j].time - topic[i].time \in Int
    OBVIOUS
  <2>1. topic[i].time \in Int /\ topic[j].time \in Int
    OBVIOUS
  <2> QED
    BY <2>1
<1>4. ASSUME NEW s \in apart \union {0}, \A u \in apart : u <= s PROVE Between(P) = s
  <2>1. ASSUME NEW t \in apart \union {0}, \A u \in apart : u <= t PROVE t = s
    <3>1. CASE apart = {}
      <4> HIDE DEF apart
      <4> QED
        BY <3>1, <1>4, <2>1
    <3>2. CASE apart # {}
      <4>1. PICK i \in P : TRUE
        BY <3>2
      <4>2. topic[i].time - topic[i].time \in apart /\ topic[i].time - topic[i].time = 0
        BY <4>1
      <4>3. 0 \in apart
        BY <4>2
      <4> HIDE DEF apart
      <4>4. s \in apart /\ t \in apart /\ s \in Int /\ t \in Int
        BY <1>3, <1>4, <2>1, <4>3
      <4> QED
        BY <1>4, <2>1, <4>4
    <3> HIDE DEF apart
    <3> QED
      BY <3>1, <3>2
  <2>2. Between(P) = CHOOSE t \in apart \union {0} : \A u \in apart : u <= t
    BY DEF Between
  <2> HIDE DEF apart
  <2> QED
    BY <1>4, <2>1, <2>2
<1>5. CASE last < 2
  <2>1. ASSUME NEW u \in apart PROVE u = 0
    <3>1. PICK i \in P, j \in P : u = topic[j].time - topic[i].time
      BY <2>1
    <3> HIDE DEF apart
    <3>2. PICK k \in 1..last, l \in 1..last : where[k] = i /\ where[l] = j
      <4>1. \E k \in 1..last : where[k] = i
        BY <1>1 DEF HoldsAt
      <4>2. \E l \in 1..last : where[l] = j
        BY <1>1 DEF HoldsAt
      <4> QED
        BY <4>1, <4>2
    <3>3. k = 1 /\ l = 1
      BY <1>2, <1>5, <3>2
    <3>4. i = j
      BY <3>2, <3>3
    <3>5. topic[i].time \in Int
      OBVIOUS
    <3> QED
      BY <3>1, <3>4, <3>5
  <2>2. Between(P) = 0
    <3> HIDE DEF apart
    <3>1. \A u \in apart : u <= 0
      BY <2>1
    <3> QED
      BY <1>4, <3>1
  <2> QED
    BY <1>5, <2>2 DEF SpanOf
<1>6. CASE ~(last < 2)
  <2>1. 1 \in 1..last /\ last \in 1..last
    BY <1>2, <1>6
  <2> DEFINE p == where[1]
             q == where[last]
             s == topic[q].time - topic[p].time
  <2>2. p \in P /\ q \in P /\ items[1] = topic[p] /\ items[last] = topic[q]
    BY <1>2, <2>1
  <2>3. s \in apart /\ s \in Int
    <3>1. s \in apart
      <4> HIDE DEF apart
      <4> QED
        BY <1>2a, <2>2
    <3> HIDE DEF s, apart
    <3> QED
      BY <1>3, <3>1
  <2>4. ASSUME NEW i \in P PROVE topic[p].time <= topic[i].time /\ topic[i].time <= topic[q].time
    <3>1. PICK k \in 1..last : where[k] = i
      BY <1>1 DEF HoldsAt
    <3>2. topic[p].time <= topic[i].time
      <4>1. CASE k = 1
        BY <3>1, <4>1
      <4>2. CASE 1 < k
        <5>1. p < i
          BY <1>1, <2>1, <3>1, <4>2 DEF HoldsAt
        <5> QED
          BY <2>2, <5>1
      <4> QED
        BY <1>2, <3>1, <4>1, <4>2
    <3>3. topic[i].time <= topic[q].time
      <4>1. CASE k = last
        <5>1. i = q /\ topic[i].time \in Int
          BY <3>1, <4>1
        <5> QED
          BY <5>1
      <4>2. CASE k < last
        <5>1. i < q
          BY <1>1, <2>1, <3>1, <4>2 DEF HoldsAt
        <5> QED
          BY <2>2, <5>1
      <4> QED
        BY <1>2, <3>1, <4>1, <4>2
    <3> QED
      BY <3>2, <3>3
  <2>5. ASSUME NEW u \in apart PROVE u <= s
    <3>1. PICK i \in P, j \in P : u = topic[j].time - topic[i].time
      BY <2>5
    <3> HIDE DEF p, q, apart
    <3>2. topic[p].time <= topic[i].time /\ topic[j].time <= topic[q].time
      BY <2>4
    <3>3. /\ topic[p].time \in Int /\ topic[q].time \in Int
          /\ topic[i].time \in Int /\ topic[j].time \in Int
      BY <2>2
    <3> QED
      BY <3>1, <3>2, <3>3
  <2>6. SpanOf(items) = s
    BY <1>6, <2>2 DEF SpanOf
  <2> HIDE DEF s, apart
  <2> QED
    BY <1>4, <2>3, <2>5, <2>6
<1> QED
  BY <1>5, <1>6

-----------------------------------------------------------------------------
\* metrics() over the events at K and T.
LEMMA MetricsExact ==
  ASSUME NEW S, NEW w, w.kills \in Seq(S), w.ticks \in Seq(S),
         NEW K, K \subseteq Nat, Holds(w.kills, K), Ordered(K),
         NEW T, T \subseteq Nat, Holds(w.ticks, T), Ordered(T),
         NEW n, Recent("kill", n) = K, Recent("tick", n) = T
  PROVE  MomentumAt(n, Metrics(w))
<1> DEFINE kills == w.kills
           ct == {i \in K : topic[i].victim = "T"}
           counted == {i \in 1..Len(kills) : kills[i].victim = "T"}
           both == {SpanOf(w.ticks), SpanOf(kills)}
           metrics == Metrics(w)
<1>1. /\ IsFiniteSet(K) /\ Cardinality(K) = Len(kills)
      /\ Cardinality(T) = Len(w.ticks)
      /\ Len(kills) \in Nat /\ Len(w.ticks) \in Nat
  <2>1. IsFiniteSet(K) /\ Cardinality(K) = Len(w.kills)
    BY HeldLength
  <2>2. Cardinality(T) = Len(w.ticks)
    BY HeldLength
  <2> QED
    BY <2>1, <2>2
<1>2. IsFiniteSet(ct) /\ Cardinality(ct) = Cardinality(counted) /\ Cardinality(ct) \in Nat
  <2>1. ct = KillsOfCT(K) /\ counted = CountedForCT(kills)
    BY DEF KillsOfCT, CountedForCT
  <2>2. /\ IsFiniteSet(KillsOfCT(K)) /\ Cardinality(KillsOfCT(K)) \in Nat
        /\ Cardinality(KillsOfCT(K)) = Cardinality(CountedForCT(kills))
    BY <1>1, KillsCounted
  <2> HIDE DEF ct, kills, counted
  <2> QED
    BY <2>1, <2>2
<1>3. Cardinality(K \ ct) = Len(kills) - Cardinality(counted)
  <2>1. K \cap ct = ct
    OBVIOUS
  <2> HIDE DEF ct, counted
  <2>2. Cardinality(K \ ct) = Cardinality(K) - Cardinality(K \cap ct)
    BY <1>1, FS_Difference
  <2> QED
    BY <1>1, <1>2, <2>1, <2>2
<1>4. /\ Between(K) = SpanOf(kills) /\ SpanOf(kills) \in Int
      /\ Between(T) = SpanOf(w.ticks) /\ SpanOf(w.ticks) \in Int
  BY HeldSpan DEF Ordered
<1>5. /\ metrics.kills_ct = Cardinality(counted)
      /\ metrics.kills_t = Len(kills) - Cardinality(counted)
      /\ metrics.kill_delta = 2 * Cardinality(counted) - Len(kills)
      /\ metrics.ticks = Len(w.ticks)
      /\ metrics.span = CHOOSE s \in both : \A t \in both : t <= s
  BY DEF Metrics
<1>6. metrics.span \in both /\ \A t \in both : t <= metrics.span
  <2>1. \E s \in both : \A t \in both : t <= s
    <3>1. CASE SpanOf(w.ticks) <= SpanOf(kills)
      BY <1>4, <3>1
    <3>2. CASE ~(SpanOf(w.ticks) <= SpanOf(kills))
      BY <1>4, <3>2
    <3> QED
      BY <3>1, <3>2
  <2> HIDE DEF both, metrics
  <2> QED
    BY <1>5, <2>1
<1>7. both = {Between(K), Between(T)}
  BY <1>4
<1> HIDE DEF metrics, counted, both, kills
<1>8. metrics.kill_delta = metrics.kills_ct - metrics.kills_t
  BY <1>1, <1>2, <1>5
<1>9. metrics.kills_ct = Cardinality(ct) /\ metrics.kills_t = Cardinality(K \ ct)
  BY <1>2, <1>3, <1>5
<1> QED
  BY <1>1, <1>5, <1>6, <1>7, <1>8, <1>9 DEF MomentumAt, metrics

-----------------------------------------------------------------------------
\* No boundary of their match was handled between the events at i and j.
Joined(i, j) ==
  \A b \in (i + 1)..j :
    b \notin shed /\ topic[b].match = topic[i].match => ~Boundary(topic, b)

\* Without a boundary between them two events are of one round, and the other
\* way round, if no round start was shed.
LEMMA RoundIsSegment ==
  ASSUME topic \in Topics, \A s \in shed : topic[s].type # "round_start",
         NEW i \in 1..Len(topic), NEW j \in 1..Len(topic), i <= j,
         InRound(topic, i), InRound(topic, j), topic[i].match = topic[j].match
  PROVE  Joined(i, j) <=> SameRound(topic, i, j)
<1>0. Len(topic) \in Nat /\ i \in Nat /\ j \in Nat
  BY TopicsAssumption
<1>1. PICK s \in 1..(i - 1) :
        /\ topic[s].type = "round_start" /\ SameRound(topic, s, i)
        /\ \A b \in (s + 1)..(i - 1) : Boundary(topic, b) => topic[b].match # topic[i].match
  BY RoundsAssumption
<1>2. PICK u \in 1..(j - 1) :
        /\ topic[u].type = "round_start" /\ SameRound(topic, u, j)
        /\ \A b \in (u + 1)..(j - 1) : Boundary(topic, b) => topic[b].match # topic[j].match
  BY RoundsAssumption
<1>3. Boundary(topic, s) /\ Boundary(topic, u) /\ s \notin shed /\ u \notin shed
  BY <1>1, <1>2 DEF Boundary
<1>4. ASSUME Joined(i, j) PROVE SameRound(topic, i, j)
  <2>1. topic[u].match = topic[i].match /\ topic[s].match = topic[j].match
    BY <1>1, <1>2 DEF SameRound
  <2>2. u < i
    <3>1. ~(u \in (i + 1)..j)
      BY <1>3, <1>4, <2>1 DEF Joined
    <3>2. u # i
      BY <1>2 DEF InRound
    <3> QED
      BY <1>0, <1>2, <3>1, <3>2
  <2>3. ~(s < u)
    <3>1. s < u => u \in (s + 1)..(i - 1)
      BY <1>0, <2>2
    <3> QED
      BY <1>1, <1>3, <2>1, <3>1
  <2>4. ~(u < s)
    <3>1. u < s => s \in (u + 1)..(j - 1)
      BY <1>0
    <3> QED
      BY <1>2, <1>3, <2>1, <3>1
  <2>5. s = u
    BY <1>0, <2>3, <2>4
  <2> QED
    BY <1>1, <1>2, <2>5 DEF SameRound
<1>5. ASSUME SameRound(topic, i, j), NEW b \in (i + 1)..j, topic[b].match = topic[i].match
      PROVE  ~Boundary(topic, b)
  <2>1. SameRound(topic, s, u) /\ SameRound(topic, u, s)
    BY <1>1, <1>2, <1>5 DEF SameRound
  <2>2. s \in 1..Len(topic) /\ u \in 1..Len(topic)
    BY <1>0
  <2>3. ~(s < u)
    <3>1. s < u => s \in 1..(u - 1)
      BY <1>0
    <3> QED
      BY <1>1, <1>2, <2>1, <2>2, <3>1, RoundsAssumption
  <2>4. ~(u < s)
    <3>1. u < s => u \in 1..(s - 1)
      BY <1>0
    <3> QED
      BY <1>1, <1>2, <2>1, <2>2, <3>1, RoundsAssumption
  <2>5. s = u
    BY <1>0, <2>3, <2>4
  <2>6. CASE b = j
    BY <2>6 DEF InRound, Boundary
  <2>7. CASE b # j
    <3>1. b \in (u + 1)..(j - 1)
      BY <1>0, <2>5, <2>7
    <3>2. topic[b].match = topic[j].match
      BY <1>5
    <3> QED
      BY <1>2, <3>1, <3>2
  <2> QED
    BY <2>6, <2>7
<1> QED
  BY <1>4, <1>5 DEF Joined

Kinds == {"tick", "kill"}

LEMMA SegmentInOrder ==
  ASSUME topic \in Topics, \A s \in shed : topic[s].type # "round_start",
         NEW m, NEW type \in Kinds, NEW d \in 0..Len(topic)
  PROVE  Ordered(Segment(m, type, d)) /\ Segment(m, type, d) \subseteq 1..d
<1>0. Len(topic) \in Nat
  BY TopicsAssumption
<1>1. ASSUME NEW p \in Segment(m, type, d)
      PROVE  /\ p \in 1..d /\ p \in 1..Len(topic) /\ topic[p].time \in Int
             /\ InRound(topic, p) /\ topic[p].type = type /\ topic[p].match = m
  <2>1. p \in 1..d /\ topic[p].type = type /\ topic[p].match = m
    BY DEF Segment
  <2>2. p \in 1..Len(topic)
    BY <1>0, <2>1
  <2> QED
    BY <2>1, <2>2, RoundsAssumption DEF InRound, Kinds
<1>2. ASSUME NEW p \in Segment(m, type, d), NEW q \in Segment(m, type, d), p < q
      PROVE  topic[p].time <= topic[q].time
  <2>1. Joined(p, q)
    <3>1. \A b \in (p + 1)..q : b \in (p + 1)..d
      BY <1>0, <1>1
    <3> QED
      BY <1>1, <3>1 DEF Segment, Joined
  <2>2. SameRound(topic, p, q)
    <3>1. /\ p \in 1..Len(topic) /\ q \in 1..Len(topic) /\ p <= q
          /\ topic[p].match = topic[q].match
      BY <1>0, <1>1, <1>2
    <3> QED
      BY <1>1, <2>1, <3>1, RoundIsSegment
  <2>3. p \in 1..(q - 1)
    BY <1>1, <1>2
  <2> QED
    BY <1>1, <2>2, <2>3, RoundsAssumption
<1> QED
  BY <1>1, <1>2 DEF Ordered

\* What the tick at n is to be judged by is what is held when it was handled.
LEMMA RecentIsHeld ==
  ASSUME topic \in Topics, \A s \in shed : topic[s].type # "round_start",
         NEW type \in Kinds, NEW n \in 1..Len(topic), InRound(topic, n)
  PROVE  Recent(type, n) = Held(topic[n].match, type, n)
<1> DEFINE heard == {i \in (1..n) \ shed :
                       /\ topic[i].type = type /\ topic[i].round = topic[n].round
                       /\ topic[i].match = topic[n].match /\ topic[i].play = topic[n].play}
           all == Segment(topic[n].match, type, n)
<1>0. Len(topic) \in Nat
  BY TopicsAssumption
<1>1. ASSUME NEW i \in (1..n) \ shed, topic[i].type = type, topic[i].match = topic[n].match
      PROVE  i \in heard <=> i \in all
  <2>1. i \in 1..Len(topic) /\ i <= n /\ InRound(topic, i)
    BY <1>0, <1>1 DEF InRound, Kinds
  <2>2. Joined(i, n) <=> SameRound(topic, i, n)
    BY <1>1, <2>1, RoundIsSegment
  <2>3. i \in heard <=> SameRound(topic, i, n)
    BY <1>1 DEF SameRound
  <2>4. i \in all <=> Joined(i, n)
    BY <1>1 DEF Segment, Joined
  <2> HIDE DEF heard, all
  <2> QED
    BY <2>2, <2>3, <2>4
<1>2. heard = all
  <2>1. \A i \in all : i \in (1..n) \ shed /\ topic[i].type = type /\ topic[i].match = topic[n].match
    BY DEF Segment
  <2>2. \A i \in heard : i \in (1..n) \ shed /\ topic[i].type = type /\ topic[i].match = topic[n].match
    OBVIOUS
  <2> HIDE DEF heard, all
  <2> QED
    BY <1>1, <2>1, <2>2
<1>3. Recent(type, n) = {i \in heard : \A j \in heard : topic[j].time - topic[i].time <= WindowSpan}
  BY DEF Recent
<1> HIDE DEF heard
<1> QED
  BY <1>2, <1>3 DEF Held

-----------------------------------------------------------------------------
\* The event at n does not concern the segment.
PassedOver(m, type, n) ==
  \/ n \in shed \/ topic[n].match # m
  \/ topic[n].type # type /\ ~Boundary(topic, n)

LEMMA SegmentStays ==
  ASSUME NEW m, NEW type, NEW n \in Nat \ {0},
         PassedOver(m, type, n)
  PROVE  Segment(m, type, n) = Segment(m, type, n - 1)
<1>0. \/ n \in shed \/ topic[n].match # m
      \/ topic[n].type # type /\ ~Boundary(topic, n)
  BY DEF PassedOver
<1>1. ASSUME NEW i \in Segment(m, type, n) PROVE i \in Segment(m, type, n - 1)
  <2>1. i \in 1..n /\ i # n
    BY <1>0, <1>1 DEF Segment, Boundary
  <2>2. i \in 1..(n - 1)
    BY <2>1
  <2>3. \A b \in (i + 1)..(n - 1) : b \in (i + 1)..n
    BY <2>1
  <2> QED
    BY <1>1, <2>2, <2>3 DEF Segment
<1>2. ASSUME NEW i \in Segment(m, type, n - 1) PROVE i \in Segment(m, type, n)
  <2>1. i \in 1..(n - 1) /\ i \in 1..n
    BY <1>2 DEF Segment
  <2>2. \A b \in (i + 1)..n : b \in (i + 1)..(n - 1) \/ b = n
    BY <2>1
  <2> QED
    BY <1>0, <1>2, <2>1, <2>2 DEF Segment
<1> QED
  BY <1>1, <1>2

LEMMA SegmentGrows ==
  ASSUME NEW m, NEW type \in Kinds, NEW n \in Nat \ {0},
         n \notin shed, topic[n].match = m, topic[n].type = type
  PROVE  Segment(m, type, n) = Segment(m, type, n - 1) \union {n}
<1>1. ASSUME NEW i \in Segment(m, type, n), i # n PROVE i \in Segment(m, type, n - 1)
  <2>1. i \in 1..n
    BY <1>1 DEF Segment
  <2>2. i \in 1..(n - 1)
    BY <1>1, <2>1
  <2>3. \A b \in (i + 1)..(n - 1) : b \in (i + 1)..n
    BY <2>1
  <2> QED
    BY <1>1, <2>2, <2>3 DEF Segment
<1>2. ASSUME NEW i \in Segment(m, type, n - 1) PROVE i \in Segment(m, type, n)
  <2>1. i \in 1..(n - 1) /\ i \in 1..n
    BY <1>2 DEF Segment
  <2>2. \A b \in (i + 1)..n : b \in (i + 1)..(n - 1) \/ b = n
    BY <2>1
  <2>3. ~Boundary(topic, n)
    BY DEF Boundary, Kinds
  <2> QED
    BY <1>2, <2>1, <2>2, <2>3 DEF Segment
<1>3. n \in Segment(m, type, n)
  <2>1. n \in 1..n /\ (n + 1)..n = {}
    OBVIOUS
  <2> QED
    BY <2>1 DEF Segment
<1> QED
  BY <1>1, <1>2, <1>3

LEMMA SegmentEnds ==
  ASSUME NEW m, NEW type \in Kinds, NEW n \in Nat \ {0},
         n \notin shed, topic[n].match = m, Boundary(topic, n)
  PROVE  Segment(m, type, n) = {}
<1> SUFFICES ASSUME NEW i \in Segment(m, type, n) PROVE FALSE
  OBVIOUS
<1>1. i \in 1..n /\ i # n
  BY DEF Segment, Boundary, Kinds
<1>2. n \in (i + 1)..n
  BY <1>1
<1> QED
  BY <1>2 DEF Segment

\* The events held after one of their kind.
LEMMA HeldGrows ==
  ASSUME topic \in Topics, \A s \in shed : topic[s].type # "round_start",
         NEW m, NEW type \in Kinds, NEW n \in 1..Len(topic),
         n \notin shed, topic[n].match = m, topic[n].type = type
  PROVE  Held(m, type, n) = Within(Held(m, type, n - 1) \union {n}, n, WindowSpan)
<1> DEFINE old == Segment(m, type, n - 1)
           all == Segment(m, type, n)
<1>0. Len(topic) \in Nat /\ n \in Nat \ {0} /\ n \in 0..Len(topic) /\ WindowSpan \in Nat
  BY TopicsAssumption, TrackerAssumption
<1>1. all = old \union {n} /\ Ordered(all) /\ all \subseteq 1..n
  BY <1>0, SegmentGrows, SegmentInOrder
<1> HIDE DEF all, old
<1>2. ASSUME NEW j \in all PROVE topic[j].time \in Int /\ topic[j].time <= topic[n].time
  <2>1. j \in Nat /\ n \in Nat /\ j <= n
    BY <1>0, <1>1
  <2>2. topic[j].time \in Int
    BY <1>1 DEF Ordered
  <2>3. CASE j = n
    BY <2>2, <2>3
  <2>4. CASE j < n
    BY <1>1, <2>4 DEF Ordered
  <2> QED
    BY <2>1, <2>2, <2>3, <2>4
<1>3. Held(m, type, n) = {i \in all : \A j \in all : topic[j].time - topic[i].time <= WindowSpan}
  BY DEF Held, all
<1>4. Held(m, type, n - 1) = {i \in old : \A j \in old : topic[j].time - topic[i].time <= WindowSpan}
  BY DEF Held, old
<1>5. ASSUME NEW p \in all
      PROVE  p \in Held(m, type, n) <=> topic[n].time - topic[p].time <= WindowSpan
  <2>1. ASSUME NEW j \in all, topic[n].time - topic[p].time <= WindowSpan
        PROVE  topic[j].time - topic[p].time <= WindowSpan
    <3>1. n \in all
      BY <1>1
    <3>2. /\ topic[j].time \in Int /\ topic[p].time \in Int /\ topic[n].time \in Int
          /\ topic[j].time <= topic[n].time
      BY <1>2, <3>1
    <3> QED
      BY <1>0, <2>1, <3>2
  <2> QED
    BY <1>1, <1>3, <2>1
<1>6. ASSUME NEW p \in old, topic[n].time - topic[p].time <= WindowSpan
      PROVE  p \in Held(m, type, n - 1)
  <2>1. ASSUME NEW j \in old PROVE topic[j].time - topic[p].time <= WindowSpan
    <3>1. j \in all /\ p \in all /\ n \in all
      BY <1>1
    <3>2. /\ topic[j].time \in Int /\ topic[p].time \in Int /\ topic[n].time \in Int
          /\ topic[j].time <= topic[n].time
      BY <1>2, <3>1
    <3> QED
      BY <1>0, <1>6, <3>2
  <2> QED
    BY <1>4, <2>1
<1>7. Held(m, type, n) \subseteq all /\ Held(m, type, n - 1) \subseteq old
  BY <1>3, <1>4
<1> QED
  BY <1>1, <1>5, <1>6, <1>7 DEF Within

LEMMA HeldEmpty ==
  ASSUME NEW m, NEW type, NEW d, Segment(m, type, d) = {}
  PROVE  Held(m, type, d) = {} /\ Holds(<<>>, Held(m, type, d))
<1>1. Held(m, type, d) = {}
  BY DEF Held
<1> DEFINE nowhere == [i \in 1..0 |-> i]
<1>2. nowhere \in [1..Len(<<>>) -> {}] /\ HoldsAt(<<>>, {}, nowhere)
  BY DEF HoldsAt
<1> HIDE DEF nowhere
<1> QED
  BY <1>1, <1>2 DEF Holds

Windows == [ticks : Seq(TopicEvents), kills : Seq(TopicEvents), current : Int]

\* Window w holds what is to be held of match m.
Follows(w, m, d) ==
  /\ w \in Windows
  /\ Holds(w.ticks, Held(m, "tick", d))
  /\ Holds(w.kills, Held(m, "kill", d))

LEMMA AppendFollows ==
  ASSUME topic \in Topics, \A s \in shed : topic[s].type # "round_start",
         NEW type \in Kinds, NEW n \in 1..Len(topic),
         n \notin shed, NEW m, topic[n].match = m, topic[n].type = type,
         NEW items \in Seq(TopicEvents), Holds(items, Held(m, type, n - 1))
  PROVE  /\ AppendEvicting(items, topic[n], WindowSpan) \in Seq(TopicEvents)
         /\ Holds(AppendEvicting(items, topic[n], WindowSpan), Held(m, type, n))
<1> DEFINE P == Held(m, type, n - 1)
<1>0. Len(topic) \in Nat /\ n \in Nat \ {0} /\ n \in 0..Len(topic) /\ WindowSpan \in Nat
  BY TopicsAssumption, TrackerAssumption
<1>1. topic[n] \in TopicEvents
  BY DEF TopicEvents
<1>2. /\ Segment(m, type, n) = Segment(m, type, n - 1) \union {n}
      /\ Ordered(Segment(m, type, n))
  BY <1>0, SegmentGrows, SegmentInOrder
<1>3. P \subseteq Segment(m, type, n - 1) /\ \A p \in P : p \in 1..(n - 1)
  BY DEF Held, Segment
<1>4. Ordered(P \union {n})
  BY <1>2, <1>3 DEF Ordered
<1>5. Held(m, type, n) = Within(P \union {n}, n, WindowSpan)
  BY HeldGrows
<1>6. P \subseteq Nat /\ n \in Nat /\ \A p \in P : p < n
  BY <1>0, <1>3
<1> HIDE DEF P
<1>7. Holds(items, P)
  BY DEF P
<1> DEFINE kept == AppendEvicting(items, topic[n], WindowSpan)
<1>8. /\ kept \in Seq(TopicEvents)
      /\ Holds(kept, Within(P \union {n}, n, WindowSpan))
  BY <1>0, <1>1, <1>4, <1>6, <1>7, AppendEvictingHolds
<1> QED
  BY <1>5, <1>8

-----------------------------------------------------------------------------
\* observe() of an event of the match; at the end of the match the window goes.
LEMMA ObserveFollows ==
  ASSUME topic \in Topics, \A s \in shed : topic[s].type # "round_start",
         NEW n \in 1..Len(topic), n \notin shed, NEW m, topic[n].match = m,
         NEW w, Follows(w, m, n - 1)
  PROVE  /\ topic[n].type = "match_end" => Follows(EmptyWindow, m, n)
         /\ topic[n].type # "match_end" => Follows(Observe(w, topic[n], WindowSpan), m, n)
<1> DEFINE e == topic[n]
           new == Observe(w, e, WindowSpan)
<1>0. /\ n \in Nat \ {0} /\ "tick" \in Kinds /\ "kill" \in Kinds /\ e.round \in Int
      /\ w \in Windows
  BY TopicsAssumption, RoundsAssumption DEF Kinds, Follows
<1>1. ASSUME Boundary(topic, n)
      PROVE  \A r \in Int : Follows([EmptyWindow EXCEPT !.current = r], m, n)
  <2>1. Segment(m, "tick", n) = {} /\ Segment(m, "kill", n) = {}
    BY <1>0, <1>1, SegmentEnds
  <2>2. Holds(<<>>, Held(m, "tick", n)) /\ Holds(<<>>, Held(m, "kill", n))
    BY <2>1, HeldEmpty
  <2> SUFFICES ASSUME NEW r \in Int
               PROVE  Follows([EmptyWindow EXCEPT !.current = r], m, n)
    OBVIOUS
  <2> DEFINE fresh == [EmptyWindow EXCEPT !.current = r]
  <2>3. fresh = [ticks |-> <<>>, kills |-> <<>>, current |-> r]
    BY DEF EmptyWindow
  <2> HIDE DEF fresh
  <2>4. fresh.ticks = <<>> /\ fresh.kills = <<>> /\ fresh \in Windows
    BY <2>3 DEF Windows
  <2>5. Follows(fresh, m, n)
    BY <2>2, <2>4 DEF Follows
  <2> QED
    BY <2>5 DEF fresh
<1>2. ASSUME NEW type \in Kinds, e.type # type, ~Boundary(topic, n)
      PROVE  Held(m, type, n) = Held(m, type, n - 1)
  <2>1. Segment(m, type, n) = Segment(m, type, n - 1)
    BY <1>0, <1>2, SegmentStays DEF PassedOver
  <2> QED
    BY <2>1 DEF Held
<1>3. CASE e.type = "match_end"
  <2>1. [EmptyWindow EXCEPT !.current = NoRound] = EmptyWindow /\ NoRound \in Int
    BY DEF EmptyWindow, NoRound
  <2>2. Boundary(topic, n)
    BY <1>3 DEF Boundary
  <2>3. Follows([EmptyWindow EXCEPT !.current = NoRound], m, n)
    BY <1>1, <2>1, <2>2
  <2> QED
    BY <1>3, <2>1, <2>3
<1>4. CASE e.type = "round_start"
  <2>1. Boundary(topic, n) /\ new = [EmptyWindow EXCEPT !.current = e.round]
    BY <1>4 DEF Boundary, Observe
  <2> QED
    BY <1>0, <1>1, <1>4, <2>1
<1>5. CASE e.type = "tick"
  <2> DEFINE kept == AppendEvicting(w.ticks, e, WindowSpan)
  <2>1. new = [w EXCEPT !.ticks = kept, !.current = e.round] /\ ~Boundary(topic, n)
    BY <1>5 DEF Observe, Boundary
  <2>2. w.ticks \in Seq(TopicEvents) /\ Holds(w.ticks, Held(m, "tick", n - 1))
    BY DEF Follows, Windows
  <2>3. kept \in Seq(TopicEvents) /\ Holds(kept, Held(m, "tick", n))
    BY <1>0, <1>5, <2>2, AppendFollows
  <2>4. Holds(w.kills, Held(m, "kill", n))
    BY <1>0, <1>2, <1>5, <2>1 DEF Follows
  <2> HIDE DEF kept
  <2>5. new \in Windows /\ new.ticks = kept /\ new.kills = w.kills
    BY <1>0, <2>1, <2>3 DEF Windows
  <2> QED
    BY <1>5, <2>3, <2>4, <2>5 DEF Follows
<1>6. CASE e.type = "kill"
  <2> DEFINE kept == AppendEvicting(w.kills, e, WindowSpan)
  <2>1. new = [w EXCEPT !.kills = kept] /\ ~Boundary(topic, n)
    BY <1>6 DEF Observe, Boundary
  <2>2. w.kills \in Seq(TopicEvents) /\ Holds(w.kills, Held(m, "kill", n - 1))
    BY DEF Follows, Windows
  <2>3. kept \in Seq(TopicEvents) /\ Holds(kept, Held(m, "kill", n))
    BY <1>0, <1>6, <2>2, AppendFollows
  <2>4. Holds(w.ticks, Held(m, "tick", n))
    BY <1>0, <1>2, <1>6, <2>1 DEF Follows
  <2> HIDE DEF kept
  <2>5. new \in Windows /\ new.kills = kept /\ new.ticks = w.ticks
    BY <1>0, <2>1, <2>3 DEF Windows
  <2> QED
    BY <1>6, <2>3, <2>4, <2>5 DEF Follows
<1>7. CASE e.type \notin {"match_end", "round_start", "tick", "kill"}
  <2>1. new = w /\ ~Boundary(topic, n)
    BY <1>7 DEF Observe, Boundary
  <2>2. Held(m, "tick", n) = Held(m, "tick", n - 1) /\ Held(m, "kill", n) = Held(m, "kill", n - 1)
    BY <1>0, <1>2, <1>7, <2>1
  <2> QED
    BY <1>7, <2>1, <2>2 DEF Follows
<1> QED
  BY <1>3, <1>4, <1>5, <1>6, <1>7

\* An event of another match, and one that is shed.
LEMMA OthersFollow ==
  ASSUME topic \in Topics, NEW n \in 1..Len(topic),
         NEW m, n \in shed \/ topic[n].match # m,
         NEW w, Follows(w, m, n - 1)
  PROVE  Follows(w, m, n)
<1>1. ASSUME NEW type \in Kinds PROVE Held(m, type, n) = Held(m, type, n - 1)
  <2>1. n \in Nat \ {0} /\ PassedOver(m, type, n)
    BY TopicsAssumption DEF PassedOver
  <2>2. Segment(m, type, n) = Segment(m, type, n - 1)
    BY <2>1, SegmentStays
  <2> QED
    BY <2>2 DEF Held
<1> QED
  BY <1>1 DEF Follows, Kinds
\* The momentum of a window that follows its match up to a tick.
LEMMA FollowedMomentum ==
  ASSUME topic \in Topics, \A s \in shed : topic[s].type # "round_start",
         NEW n \in 1..Len(topic), topic[n].type = "tick",
         NEW w, Follows(w, topic[n].match, n)
  PROVE  MomentumAt(n, Metrics(w))
<1> DEFINE m == topic[n].match
<1>0. Len(topic) \in Nat /\ n \in 0..Len(topic) /\ "tick" \in Kinds /\ "kill" \in Kinds
      /\ InRound(topic, n)
  BY TopicsAssumption DEF Kinds, InRound
<1>1. ASSUME NEW type \in Kinds
      PROVE  /\ Recent(type, n) = Held(m, type, n)
             /\ Held(m, type, n) \subseteq Nat /\ Ordered(Held(m, type, n))
  <2>1. Recent(type, n) = Held(m, type, n)
    BY <1>0, RecentIsHeld
  <2>2. Ordered(Segment(m, type, n)) /\ Segment(m, type, n) \subseteq 1..n
    BY <1>0, SegmentInOrder
  <2>3. Held(m, type, n) \subseteq Segment(m, type, n)
    BY DEF Held
  <2> QED
    BY <1>0, <2>1, <2>2, <2>3 DEF Ordered
<1> DEFINE K == Held(m, "kill", n)
           T == Held(m, "tick", n)
<1>2. /\ Recent("kill", n) = K /\ K \subseteq Nat /\ Ordered(K)
      /\ Recent("tick", n) = T /\ T \subseteq Nat /\ Ordered(T)
  BY <1>0, <1>1
<1>3. /\ w.kills \in Seq(TopicEvents) /\ w.ticks \in Seq(TopicEvents)
      /\ Holds(w.kills, K) /\ Holds(w.ticks, T)
  BY DEF Follows, Windows
<1> HIDE DEF K, T
<1> QED
  BY <1>2, <1>3, MetricsExact

-----------------------------------------------------------------------------
\* The snapshot is that of the tick at n.
SnapshotAt(n, snapshot) ==
  /\ topic[n].type = "tick" /\ n \notin shed
  /\ snapshot.seq = topic[n].seq /\ snapshot.play = topic[n].play
  /\ MomentumAt(n, snapshot.momentum)

Unbroken == restarts = 0 /\ \A i \in shed : topic[i].type # "round_start"

Stored(m) == \E n \in 1..(pos - 1) : topic[n].match = m /\ SnapshotAt(n, snapshots[m])

\* A tracker that missed no round start follows every match.
Followed ==
  /\ shed \subseteq 1..(pos - 1)
  /\ \A m \in Matches : Follows(WindowFor(m), m, Passed)
  /\ phase = "set_snapshot" => SnapshotAt(pos, pending)
  /\ \A m \in Matches : snapshots[m] # Absent => Stored(m)

MomentumTypes ==
  /\ topic \in Topics /\ pos \in Nat \ {0} /\ pos <= Len(topic) + 1
  /\ phase # "idle" => pos <= Len(topic)
  /\ phase = "set_snapshot" => Event.type = "tick"
  /\ restarts \in Nat
  /\ snapshots = [m \in Matches |-> snapshots[m]]

MomentumInv == MomentumTypes /\ (Unbroken => Followed)

-----------------------------------------------------------------------------
LEMMA MomentumInitInv == TrackerInit => MomentumInv
<1> SUFFICES ASSUME TrackerInit PROVE MomentumInv
  OBVIOUS
<1>1. MomentumTypes
  BY DEF TrackerInit, MomentumTypes
<1>2. \A m \in Matches : snapshots[m] = Absent /\ windows[m] = Absent
  BY DEF TrackerInit
<1>3. Passed = 0 /\ shed = {} /\ phase = "idle"
  BY DEF TrackerInit, Passed
<1>4. ASSUME NEW m \in Matches PROVE Follows(WindowFor(m), m, Passed)
  <2>1. Segment(m, "tick", 0) = {} /\ Segment(m, "kill", 0) = {}
    BY DEF Segment
  <2>2. Holds(<<>>, Held(m, "tick", 0)) /\ Holds(<<>>, Held(m, "kill", 0))
    BY <2>1, HeldEmpty
  <2>3. EmptyWindow \in Windows /\ EmptyWindow.ticks = <<>> /\ EmptyWindow.kills = <<>>
    BY DEF EmptyWindow, Windows, NoRound
  <2>4. WindowFor(m) = EmptyWindow
    BY <1>2 DEF WindowFor
  <2> QED
    BY <1>3, <2>2, <2>3, <2>4 DEF Follows
<1> QED
  BY <1>1, <1>2, <1>3, <1>4 DEF MomentumInv, Followed

\* Nothing up to n is shed now.
NoneShed(n) ==
  \/ shed' = shed
  \/ pos \in Nat /\ n < pos /\ shed' = shed \union {pos}

\* What was said of a handled tick stays so when a later event is shed.
LEMMA SnapshotStays ==
  ASSUME NEW n \in Nat, UNCHANGED topic, NoneShed(n),
         NEW snapshot, SnapshotAt(n, snapshot)
  PROVE  SnapshotAt(n, snapshot)'
<1>1. (1..n) \ shed' = (1..n) \ shed /\ n \notin shed'
  BY DEF SnapshotAt, NoneShed
<1>2. ASSUME NEW type PROVE Recent(type, n)' = Recent(type, n)
  BY <1>1 DEF Recent
<1>3. ASSUME NEW P PROVE Between(P)' = Between(P)
  BY DEF Between
<1>4. MomentumAt(n, snapshot.momentum)' <=> MomentumAt(n, snapshot.momentum)
  BY <1>2, <1>3 DEF MomentumAt
<1> QED
  BY <1>1, <1>4 DEF SnapshotAt

\* The snapshots that are stored stay good.
LEMMA StoredStays ==
  ASSUME MomentumInv, Followed, UNCHANGED topic, pos' \in {pos, pos + 1},
         shed' \in {shed, shed \union {pos}},
         NEW m \in Matches, snapshots[m] # Absent, snapshots'[m] = snapshots[m]
  PROVE  Stored(m)'
<1>1. PICK n \in 1..(pos - 1) : topic[n].match = m /\ SnapshotAt(n, snapshots[m])
  BY DEF Followed, Stored
<1>2. PICK snapshot : snapshot = snapshots[m]
  OBVIOUS
<1>3. pos \in Nat /\ n \in Nat /\ n < pos /\ n \in 1..(pos' - 1)
  BY DEF MomentumInv, MomentumTypes
<1>4. SnapshotAt(n, snapshot)'
  <2>1. SnapshotAt(n, snapshot)
    BY <1>1, <1>2
  <2>2. NoneShed(n)
    BY <1>3 DEF NoneShed
  <2> QED
    BY <1>3, <2>1, <2>2, SnapshotStays
<1>5. SnapshotAt(n, snapshots[m])'
  BY <1>2, <1>4
<1> QED
  BY <1>1, <1>3, <1>5 DEF Stored

\* A window that is not touched follows its match as before.
LEMMA FollowsStays ==
  ASSUME UNCHANGED <<topic, shed>>, NEW w, NEW m, NEW d
  PROVE  Follows(w, m, d)' <=> Follows(w, m, d)
<1>1. ASSUME NEW type PROVE Held(m, type, d)' = Held(m, type, d)
  BY DEF Held, Segment, Boundary
<1>2. ASSUME NEW items, NEW P PROVE Holds(items, P)' <=> Holds(items, P)
  BY DEF Holds, HoldsAt
<1> QED
  BY <1>1, <1>2 DEF Follows

\* Steps that leave the windows and the position of what they follow alone.
LEMMA WindowsStay ==
  ASSUME Followed, UNCHANGED <<topic, shed, windows>>, Passed' = Passed,
         NEW m \in Matches
  PROVE  Follows(WindowFor(m), m, Passed)'
<1>1. PICK w : w = WindowFor(m)
  OBVIOUS
<1>2. PICK d : d = Passed
  OBVIOUS
<1>3. Follows(w, m, d)'
  BY <1>1, <1>2, FollowsStays DEF Followed
<1>4. WindowFor(m)' = w /\ Passed' = d
  BY <1>1, <1>2 DEF WindowFor
<1> QED
  BY <1>3, <1>4

LEMMA MomentumEvent ==
  ASSUME MomentumTypes, pos <= Len(topic)
  PROVE  /\ pos \in 1..Len(topic) /\ Len(topic) \in Nat /\ Event = topic[pos]
         /\ Event.match \in Matches
<1>1. Len(topic) \in Nat /\ pos \in 1..Len(topic)
  BY TopicsAssumption DEF MomentumTypes
<1>2. topic[pos].match \in Matches
  BY <1>1, TopicsAssumption DEF MomentumTypes
<1> QED
  BY <1>1, <1>2 DEF Event

\* handle() up to the store call.
LEMMA HandleFollows ==
  ASSUME MomentumInv, Unbroken, Handle
  PROVE  /\ Passed' = pos /\ pos \notin shed
         /\ \A m \in Matches : Follows(WindowFor(m), m, Passed)'
         /\ phase' = "set_snapshot" => SnapshotAt(pos, pending)'
<1>1. /\ phase = "idle" /\ pos <= Len(topic) /\ UNCHANGED <<topic, shed>>
      /\ topic \in Topics /\ Followed /\ \A s \in shed : topic[s].type # "round_start"
  BY DEF Handle, HandleIn, MomentumInv, MomentumTypes, Unbroken
<1>2. /\ pos \in 1..Len(topic) /\ Len(topic) \in Nat /\ Event = topic[pos]
      /\ Event.match \in Matches /\ pos \in Nat \ {0}
  BY <1>1, MomentumEvent DEF MomentumInv, MomentumTypes
<1>3. pos \notin shed /\ Passed = pos - 1
  BY <1>1, <1>2 DEF Followed, Passed
<1> DEFINE m0 == Event.match
           new == Observe(WindowFor(m0), Event, WindowSpan)
           left == IF Event.type = "match_end" THEN Absent ELSE new
<1>4. /\ windows' = [m \in Matches |-> IF m = m0 THEN left ELSE windows[m]]
      /\ Event.type = "tick" =>
           phase' = "set_snapshot" /\ pending' = SnapshotOf(Event, new) /\ pos' = pos
      /\ Event.type = "round_end" => phase' = "get_history" /\ pos' = pos
      /\ Event.type = "match_end" => phase' = "final_history" /\ pos' = pos
      /\ Event.type \notin {"tick", "round_end", "match_end"} => phase' = "idle" /\ pos' = pos + 1
  <2>1. /\ windows' = [m \in Matches |-> IF m \in {m0} THEN left ELSE windows[m]]
        /\ CASE Event.type = "tick" ->
                  phase' = "set_snapshot" /\ pending' = SnapshotOf(Event, new) /\ pos' = pos
             [] Event.type = "round_end" ->
                  phase' = "get_history" /\ pending' = Absent /\ pos' = pos
             [] Event.type = "match_end" ->
                  phase' = "final_history" /\ pending' = Absent /\ pos' = pos
             [] OTHER -> Finished
    BY DEF Handle, HandleIn
  <2> HIDE DEF left, new, m0
  <2>2. windows' = [m \in Matches |-> IF m = m0 THEN left ELSE windows[m]]
    BY <2>1
  <2>3. /\ Event.type = "tick" =>
             phase' = "set_snapshot" /\ pending' = SnapshotOf(Event, new) /\ pos' = pos
        /\ Event.type = "round_end" => phase' = "get_history" /\ pos' = pos
        /\ Event.type = "match_end" => phase' = "final_history" /\ pos' = pos
        /\ Event.type \notin {"tick", "round_end", "match_end"} => Finished
    BY <2>1
  <2> QED
    BY <2>2, <2>3 DEF Finished
<1>5. Passed' = pos
  BY <1>2, <1>4 DEF Passed
<1>6. PICK n \in 1..Len(topic) : n = pos
  BY <1>2
<1>7. ASSUME NEW m \in Matches PROVE Follows(WindowFor(m), m, n - 1)
  BY <1>1, <1>3, <1>6 DEF Followed
<1>8. /\ Event.type = "match_end" => Follows(EmptyWindow, m0, n)
      /\ Event.type # "match_end" => Follows(new, m0, n)
  BY <1>1, <1>2, <1>3, <1>6, <1>7, ObserveFollows
<1>9. ASSUME NEW m \in Matches PROVE Follows(WindowFor(m), m, Passed)'
  <2>1. PICK w : w = WindowFor(m)'
    OBVIOUS
  <2>2. Follows(w, m, n)
    <3>1. CASE m # m0
      <4>1. w = WindowFor(m)
        BY <1>4, <2>1, <3>1 DEF WindowFor
      <4>2. Follows(w, m, n - 1)
        BY <1>7, <4>1
      <4> QED
        BY <1>1, <1>2, <1>6, <3>1, <4>2, OthersFollow
    <3>2. CASE m = m0 /\ Event.type = "match_end"
      <4>1. w = EmptyWindow
        BY <1>2, <1>4, <2>1, <3>2 DEF WindowFor
      <4> QED
        BY <1>8, <3>2, <4>1
    <3>3. CASE m = m0 /\ Event.type # "match_end"
      <4>1. new # Absent
        BY <1>8, <3>3, AbsentAssumption DEF Follows, Windows
      <4> HIDE DEF new
      <4>2. w = new
        BY <1>2, <1>4, <2>1, <3>3, <4>1 DEF WindowFor
      <4> QED
        BY <1>8, <3>3, <4>2
    <3> QED
      BY <3>1, <3>2, <3>3
  <2>3. Follows(w, m, n)'
    BY <1>1, <2>2, FollowsStays
  <2> QED
    BY <1>5, <1>6, <2>1, <2>3
<1>10. ASSUME phase' = "set_snapshot" PROVE SnapshotAt(pos, pending)'
  <2>1. Event.type = "tick" /\ pos' = pos /\ pending' = SnapshotOf(Event, new)
    BY <1>4, <1>10
  <2>2. PICK w : w = new
    OBVIOUS
  <2>3. Follows(w, topic[n].match, n)
    BY <1>2, <1>6, <1>8, <2>1, <2>2
  <2>4. MomentumAt(n, Metrics(w))
    BY <1>1, <1>2, <1>6, <2>1, <2>3, FollowedMomentum
  <2>5. PICK snapshot : snapshot = pending'
    OBVIOUS
  <2>6. snapshot = [seq |-> topic[n].seq, play |-> topic[n].play, momentum |-> Metrics(w)]
    BY <1>2, <1>6, <2>1, <2>2, <2>5 DEF SnapshotOf
  <2>7. SnapshotAt(n, snapshot)
    BY <1>2, <1>3, <1>6, <2>1, <2>4, <2>6 DEF SnapshotAt
  <2>8. SnapshotAt(n, snapshot)'
    <3>1. n \in Nat
      BY <1>2, <1>6
    <3>2. NoneShed(n)
      BY <1>1 DEF NoneShed
    <3> QED
      BY <1>1, <2>7, <3>1, <3>2, SnapshotStays
  <2> QED
    BY <1>6, <2>1, <2>5, <2>8
<1> QED
  BY <1>3, <1>5, <1>9, <1>10

LEMMA HandleTracks == MomentumInv /\ Handle => MomentumInv'
<1> SUFFICES ASSUME MomentumInv, Handle PROVE MomentumInv'
  OBVIOUS
<1>1. /\ pos \in Nat \ {0} /\ pos <= Len(topic)
      /\ UNCHANGED <<topic, shed, restarts, snapshots>>
      /\ pos' \in {pos, pos + 1}
      /\ phase' # "idle" => pos' = pos
      /\ phase' = "set_snapshot" => Event.type = "tick"
  BY DEF Handle, HandleIn, Finished, MomentumInv, MomentumTypes
<1>2. MomentumTypes'
  BY <1>1 DEF MomentumInv, MomentumTypes, Event
<1>3. ASSUME Unbroken' PROVE Followed'
  <2>1. Unbroken /\ Followed
    BY <1>1, <1>3 DEF Unbroken, MomentumInv
  <2>2. shed' \subseteq 1..(pos' - 1)
    <3>1. pos \in Int /\ pos' \in Int /\ pos <= pos'
      BY <1>1
    <3>2. CASE pos' = pos
      BY <1>1, <2>1, <3>2 DEF Followed
    <3>3. CASE pos' = pos + 1
      <4>1. \A i \in 1..(pos - 1) : i \in 1..pos
        BY <3>1
      <4>2. pos' - 1 = pos
        BY <3>1, <3>3
      <4> QED
        BY <1>1, <2>1, <4>1, <4>2 DEF Followed
    <3> QED
      BY <1>1, <3>2, <3>3
  <2>3. ASSUME NEW m \in Matches, snapshots'[m] # Absent PROVE Stored(m)'
    BY <1>1, <2>1, <2>3, StoredStays
  <2> QED
    BY <2>1, <2>2, <2>3, HandleFollows DEF Followed
<1> QED
  BY <1>2, <1>3 DEF MomentumInv

\* A call of the store begins, goes on or is over; or nothing of the kind.
CallMoves ==
  \/ UNCHANGED <<pos, phase, pending>>
  \/ phase # "idle" /\ pos' = pos /\ phase' \notin {"idle", "set_snapshot"}
  \/ phase # "idle" /\ pos' = pos + 1 /\ phase' = "idle"

\* Steps within a call of the store, and back from it.
LEMMA CallTracks ==
  ASSUME MomentumInv, UNCHANGED <<topic, shed, restarts, windows>>, CallMoves,
         snapshots' = [m \in Matches |-> snapshots'[m]],
         Unbroken => \A m \in Matches : snapshots'[m] # Absent => Stored(m)'
  PROVE  MomentumInv'
<1>1. /\ pos \in Nat \ {0} /\ pos' \in {pos, pos + 1} /\ pos' \in Nat \ {0}
      /\ Passed' = Passed
      /\ phase' = "set_snapshot" => phase = "set_snapshot" /\ UNCHANGED <<pos, pending>>
      /\ phase' # "idle" => phase # "idle" /\ pos' = pos
      /\ pos' = pos \/ phase # "idle"
  BY DEF MomentumInv, MomentumTypes, CallMoves, Passed
<1>2. MomentumTypes'
  <2>1. Len(topic) \in Nat
    BY TopicsAssumption DEF MomentumInv, MomentumTypes
  <2>2. pos' <= Len(topic) + 1
    BY <1>1, <2>1 DEF MomentumInv, MomentumTypes
  <2> QED
    BY <1>1, <2>2 DEF MomentumInv, MomentumTypes, Event
<1>3. ASSUME Unbroken' PROVE Followed'
  <2>1. Unbroken /\ Followed
    BY <1>3 DEF Unbroken, MomentumInv
  <2>2. shed' \subseteq 1..(pos' - 1)
    BY <1>1, <2>1 DEF Followed
  <2>3. ASSUME NEW m \in Matches PROVE Follows(WindowFor(m), m, Passed)'
    BY <1>1, <2>1, WindowsStay
  <2>4. ASSUME phase' = "set_snapshot" PROVE SnapshotAt(pos, pending)'
    <3>1. PICK n : n = pos
      OBVIOUS
    <3>2. PICK snapshot : snapshot = pending
      OBVIOUS
    <3>3. n \in Nat /\ NoneShed(n) /\ SnapshotAt(n, snapshot)
      BY <1>1, <2>1, <2>4, <3>1, <3>2 DEF Followed, NoneShed
    <3>4. SnapshotAt(n, snapshot)'
      BY <3>3, SnapshotStays
    <3> QED
      BY <1>1, <2>4, <3>1, <3>2, <3>4
  <2> QED
    BY <2>1, <2>2, <2>3, <2>4 DEF Followed
<1> QED
  BY <1>2, <1>3 DEF MomentumInv

\* Those of them that leave the snapshots alone, or lose some.
LEMMA QuietTracks ==
  ASSUME MomentumInv, UNCHANGED <<topic, shed, restarts, windows>>, CallMoves,
         snapshots' = [m \in Matches |-> snapshots'[m]],
         \A m \in Matches : snapshots'[m] # Absent => snapshots'[m] = snapshots[m]
  PROVE  MomentumInv'
<1>1. pos' \in {pos, pos + 1} /\ shed' \in {shed, shed \union {pos}}
  BY DEF CallMoves
<1>2. ASSUME Unbroken, NEW m \in Matches, snapshots'[m] # Absent PROVE Stored(m)'
  <2>1. Followed
    BY <1>2 DEF MomentumInv
  <2> QED
    BY <1>1, <1>2, <2>1, StoredStays
<1> QED
  BY <1>2, CallTracks

LEMMA SetSnapshotTracks == MomentumInv /\ SetSnapshot => MomentumInv'
<1> SUFFICES ASSUME MomentumInv, SetSnapshot PROVE MomentumInv'
  OBVIOUS
<1>1. /\ phase = "set_snapshot" /\ pos <= Len(topic) /\ MomentumTypes
      /\ snapshots' = [snapshots EXCEPT ![Event.match] = pending]
      /\ UNCHANGED <<topic, shed, restarts, windows>>
      /\ pos' = pos + 1 /\ phase' = "idle"
  BY DEF SetSnapshot, Finished, MomentumInv, MomentumTypes
<1>2. pos \in 1..Len(topic) /\ Event = topic[pos] /\ Event.match \in Matches
  BY <1>1, MomentumEvent
<1>3. snapshots' = [m \in Matches |-> snapshots'[m]] /\ snapshots'[Event.match] = pending
  BY <1>1, <1>2 DEF MomentumTypes
<1>4. ASSUME Unbroken, NEW m \in Matches, snapshots'[m] # Absent PROVE Stored(m)'
  <2>1. Followed
    BY <1>4 DEF MomentumInv
  <2>2. CASE m = Event.match
    <3>1. PICK n : n = pos
      OBVIOUS
    <3>2. PICK snapshot : snapshot = pending
      OBVIOUS
    <3>3. n \in Nat /\ NoneShed(n) /\ SnapshotAt(n, snapshot) /\ n \in 1..(pos' - 1)
      BY <1>1, <1>2, <2>1, <3>1, <3>2 DEF Followed, NoneShed
    <3>4. SnapshotAt(n, snapshot)'
      BY <1>1, <3>3, SnapshotStays
    <3>5. SnapshotAt(n, snapshots[m])'
      BY <1>3, <2>2, <3>2, <3>4
    <3>6. topic'[n].match = m
      BY <1>1, <1>2, <2>2, <3>1
    <3> QED
      BY <3>3, <3>5, <3>6 DEF Stored
  <2>3. CASE m # Event.match
    <3>1. snapshots'[m] = snapshots[m]
      BY <1>1, <2>3 DEF MomentumTypes
    <3>2. pos' \in {pos, pos + 1} /\ shed' \in {shed, shed \union {pos}}
      BY <1>1
    <3> QED
      BY <1>1, <1>4, <2>1, <3>1, <3>2, StoredStays
  <2> QED
    BY <2>2, <2>3
<1>5. CallMoves
  BY <1>1 DEF CallMoves
<1> QED
  BY <1>1, <1>3, <1>4, <1>5, CallTracks

LEMMA ShedTracks == MomentumInv /\ Shed => MomentumInv'
<1> SUFFICES ASSUME MomentumInv, Shed PROVE MomentumInv'
  OBVIOUS
<1>1. /\ phase = "idle" /\ phase' = "idle" /\ pos <= Len(topic) /\ MomentumTypes
      /\ shed' = shed \union {pos} /\ pos' = pos + 1 /\ pos \in Nat \ {0}
      /\ UNCHANGED <<topic, restarts, windows, snapshots>>
  BY DEF Shed, MomentumInv, MomentumTypes
<1>2. MomentumTypes'
  BY <1>1 DEF MomentumTypes, Event
<1>3. ASSUME Unbroken' PROVE Followed'
  <2>1. Unbroken /\ Followed
    BY <1>1, <1>3 DEF Unbroken, MomentumInv
  <2>2. shed' \subseteq 1..(pos' - 1)
    BY <1>1, <2>1 DEF Followed
  <2>3. ASSUME NEW m \in Matches PROVE Follows(WindowFor(m), m, Passed)'
    <3>1. PICK n \in Nat \ {0} : n = pos
      BY <1>1
    <3>2. PICK w : w = WindowFor(m)
      OBVIOUS
    <3>3. Follows(w, m, n - 1)
      BY <1>1, <2>1, <3>1, <3>2 DEF Followed, Passed
    <3>4. ASSUME NEW type \in Kinds PROVE Held(m, type, n)' = Held(m, type, n - 1)
      <4>1. ASSUME NEW i \in Segment(m, type, n)' PROVE i \in Segment(m, type, n - 1)
        <5>1. i \in 1..n /\ i \notin shed' /\ topic[i].match = m /\ topic[i].type = type
          BY <1>1, <4>1 DEF Segment
        <5>2. i \in 1..(n - 1) /\ i \notin shed
          BY <1>1, <3>1, <5>1
        <5>3. ASSUME NEW b \in (i + 1)..(n - 1), b \notin shed, topic[b].match = m
              PROVE  ~Boundary(topic, b)
          <6>1. b \in (i + 1)..n /\ b \notin shed'
            BY <1>1, <3>1, <5>2, <5>3
          <6> QED
            BY <1>1, <4>1, <5>3, <6>1 DEF Segment, Boundary
        <5> QED
          BY <5>1, <5>2, <5>3 DEF Segment
      <4>2. ASSUME NEW i \in Segment(m, type, n - 1) PROVE i \in Segment(m, type, n)'
        <5>1. i \in 1..(n - 1) /\ i \notin shed /\ topic[i].match = m /\ topic[i].type = type
          BY <4>2 DEF Segment
        <5>2. i \in 1..n /\ i \notin shed'
          BY <1>1, <3>1, <5>1
        <5>3. ASSUME NEW b \in (i + 1)..n, b \notin shed', topic[b].match = m
              PROVE  ~Boundary(topic, b)
          <6>1. b \in (i + 1)..(n - 1) /\ b \notin shed
            BY <1>1, <3>1, <5>1, <5>3
          <6> QED
            BY <4>2, <5>3, <6>1 DEF Segment
        <5> QED
          BY <1>1, <5>1, <5>2, <5>3 DEF Segment, Boundary
      <4>3. Segment(m, type, n)' = Segment(m, type, n - 1)
        BY <4>1, <4>2
      <4> QED
        BY <1>1, <4>3 DEF Held
    <3>5. ASSUME NEW items, NEW P PROVE Holds(items, P)' <=> Holds(items, P)
      BY <1>1 DEF Holds, HoldsAt
    <3>6. Follows(w, m, n)'
      BY <3>3, <3>4, <3>5 DEF Follows, Kinds
    <3>7. WindowFor(m)' = w /\ Passed' = n
      BY <1>1, <3>1, <3>2 DEF WindowFor, Passed
    <3> QED
      BY <3>6, <3>7
  <2>4. ASSUME NEW m \in Matches, snapshots'[m] # Absent PROVE Stored(m)'
    <3>1. /\ pos' \in {pos, pos + 1} /\ shed' \in {shed, shed \union {pos}}
          /\ snapshots[m] # Absent /\ snapshots'[m] = snapshots[m]
      BY <1>1, <2>4
    <3> QED
      BY <1>1, <2>1, <3>1, StoredStays
  <2> QED
    BY <1>1, <2>1, <2>2, <2>3, <2>4 DEF Followed
<1> QED
  BY <1>2, <1>3 DEF MomentumInv

LEMMA RestartTracks == MomentumInv /\ Restart => MomentumInv'
<1> SUFFICES ASSUME MomentumInv, Restart PROVE MomentumInv'
  OBVIOUS
<1>1. /\ restarts' = restarts + 1 /\ restarts \in Nat /\ phase' = "idle"
      /\ pos \in Nat \ {0} /\ pos' \in 1..pos /\ UNCHANGED <<topic, snapshots>>
      /\ MomentumTypes
  BY DEF Restart, MomentumInv, MomentumTypes
<1>2. MomentumTypes'
  BY <1>1 DEF MomentumTypes
<1>3. ~Unbroken'
  BY <1>1 DEF Unbroken
<1> QED
  BY <1>2, <1>3 DEF MomentumInv

LEMMA MomentumStep == MomentumInv /\ [TrackerNext]_trackerVars => MomentumInv'
<1> SUFFICES ASSUME MomentumInv, [TrackerNext]_trackerVars PROVE MomentumInv'
  OBVIOUS
<1>0. snapshots = [m \in Matches |-> snapshots[m]]
  BY DEF MomentumInv, MomentumTypes
<1>1. CASE GetHistory
  BY <1>0, <1>1, QuietTracks DEF GetHistory, CallMoves
<1>2. CASE SetHistory
  BY <1>0, <1>2, QuietTracks DEF SetHistory, Finished, CallMoves
<1>3. CASE Finalise
  BY <1>0, <1>3, QuietTracks DEF Finalise, Finished, CallMoves
<1>4. CASE StoreFails
  BY <1>0, <1>4, QuietTracks DEF StoreFails, Finished, CallMoves
<1>5. ASSUME NEW m \in Matches, EntryLost(m) PROVE MomentumInv'
  <2>1. /\ snapshots' \in {snapshots, [snapshots EXCEPT ![m] = Absent]}
        /\ UNCHANGED <<topic, shed, restarts, windows>> /\ CallMoves
    BY <1>5 DEF EntryLost, CallMoves
  <2>2. /\ snapshots' = [n \in Matches |-> snapshots'[n]]
        /\ \A n \in Matches : snapshots'[n] # Absent => snapshots'[n] = snapshots[n]
    BY <1>0, <2>1
  <2> QED
    BY <2>1, <2>2, QuietTracks
<1>6. CASE UNCHANGED trackerVars
  BY <1>0, <1>6, QuietTracks DEF trackerVars, CallMoves
<1> QED
  BY <1>1, <1>2, <1>3, <1>4, <1>5, <1>6, HandleTracks, SetSnapshotTracks, ShedTracks,
     RestartTracks DEF TrackerNext

(***************************************************************************)
(* The inductive invariant of the windows: while the tracker has neither   *)
(* restarted nor missed a round start, the window of every match holds     *)
(* exactly the events of its round that are not older than one span before *)
(* the last of their kind, in their order, whatever was shed, failed or    *)
(* came in between; and what was made of a tick is what they say.          *)
(***************************************************************************)
THEOREM MomentumInvariant == TrackerSpec => []MomentumInv
BY MomentumInitInv, MomentumStep, PTL DEF TrackerSpec

(***************************************************************************)
(* A stored snapshot counts, of its own match and round, the kills within  *)
(* one span of the last kill heard and the ticks within one span of the    *)
(* last tick, whatever the distance from the kills to the tick.            *)
(***************************************************************************)
THEOREM MomentumAlwaysExact == TrackerSpec => []MomentumExact
<1>1. MomentumInv => MomentumExact
  <2> SUFFICES ASSUME MomentumInv, Unbroken, NEW m \in Matches, snapshots[m] # Absent,
                      NEW n \in 1..Len(topic), topic[n].type = "tick", topic[n].match = m,
                      n \notin shed, topic[n].play = snapshots[m].play,
                      topic[n].seq = snapshots[m].seq
               PROVE  MomentumAt(n, snapshots[m].momentum)
    BY DEF MomentumExact, Unbroken
  <2>1. PICK k \in 1..(pos - 1) : topic[k].match = m /\ SnapshotAt(k, snapshots[m])
    BY DEF MomentumInv, Followed, Stored
  <2>2. k = n
    <3>1. topic \in Topics /\ Len(topic) \in Nat /\ pos \in Nat /\ pos <= Len(topic) + 1
      BY TopicsAssumption DEF MomentumInv, MomentumTypes
    <3>2. k \in Nat /\ k > 0 /\ n \in Nat /\ n > 0
      BY <3>1
    <3>3. /\ topic[k].type = "tick" /\ topic[k].match = topic[n].match
          /\ topic[k].play = topic[n].play /\ topic[k].seq = topic[n].seq
      BY <2>1 DEF SnapshotAt
    <3>4. CASE k < n
      <4>1. k \in 1..(n - 1)
        BY <3>2, <3>4
      <4> QED
        BY <3>1, <3>3, <4>1, RoundsAssumption
    <3>5. CASE n < k
      <4>1. n \in 1..(k - 1)
        BY <3>2, <3>5
      <4>2. k \in 1..Len(topic)
        BY <3>1
      <4> QED
        BY <3>1, <3>3, <4>1, <4>2, RoundsAssumption
    <3> QED
      BY <3>2, <3>4, <3>5
  <2> QED
    BY <2>1, <2>2 DEF SnapshotAt
<1> QED
  BY <1>1, MomentumInvariant, PTL


=============================================================================
