-------------------------- MODULE SyncServerProofs --------------------------
(***************************************************************************)
(* Safety of the sync server for every set of handlers, operations,        *)
(* batches and compaction bounds; and that the library's document agrees   *)
(* with the server's projection over every history.                        *)
(***************************************************************************)
EXTENDS SyncDocument, ProjectionProofs, FiniteSetTheorems

(* The inductive invariant.  Sequence n has been reached by the log: what a *)
(* handler remembers of latest_sequence stays true of later states.         *)
Reached(n) == n = 0 \/ \E r \in history : n <= r.seq

HistoryBelowCounter == \A r \in history : r.seq <= lastSeq

(* The newest operation is Retain or more ahead of the horizon.             *)
HorizonBehindTail ==
  minAvailable = 0 \/ \E r \in history : minAvailable + Retain <= r.seq

(* Row is how operation r leaves its entity.                                *)
RowOf(row, r) ==
  /\ r.seq = row.seq /\ r.op.stamp = row.stamp
  /\ r.op.kind # "patch" => row.deleted = r.op.deleted
  /\ row.deleted = "yes" => r.op.deleted # "no"

(* What a transaction t has prepared: fresh sequence numbers and op_ids,    *)
(* rows that are those of the database or win over them by an operation of  *)
(* its own, and nothing older than a write accepted so far.                 *)
Prepared(t) ==
  /\ lastSeq <= t.seq
  /\ \A r \in t.inserted : lastSeq < r.seq /\ r.seq <= t.seq
  /\ \A r, q \in log \cup t.inserted : r.op.id = q.op.id => r = q
  /\ \A e \in Entity :
       \/ t.rows[e] = rows[e]
       \/ /\ t.rows[e] # NoRow
          /\ rows[e] # NoRow => Wins(t.rows[e].stamp, rows[e].stamp)
          /\ \E r \in t.inserted : r.op.entity = e /\ RowOf(t.rows[e], r)
  /\ \A r \in history \cup t.inserted : r.op.kind # "patch" =>
       /\ t.rows[r.op.entity] # NoRow
       /\ ~Wins(r.op.stamp, t.rows[r.op.entity].stamp)

TransactionPrepared == tx.owner # NoHandler => Prepared(tx)

(* What handlers carry from one statement to the next: rows once committed, *)
(* and in compaction and latest_sequence a sequence the log has reached.    *)
ReadsReached ==
  \A h \in Handler :
    /\ reg[h].found \subseteq history
    /\ pc[h] \in {"compactCount", "compactMin", "compactDelete"} =>
         reg[h].sequence > Retain /\ Reached(reg[h].sequence)
    /\ pc[h] = "latestStore" => Reached(reg[h].sequence)

Inductive ==
  /\ TypeOK
  /\ LogIsHistoryAboveHorizon /\ HistoryBelowCounter /\ HorizonBehindTail
  /\ LoggedOnce /\ ProjectionFromHistory /\ ProjectionKeepsWinner
  /\ TransactionPrepared /\ ReadsReached /\ Reached(cached)
-----------------------------------------------------------------------------

(* latest_sequence_from_db: compaction never hides the newest operation.    *)
LEMMA LatestIsNewest ==
  ASSUME TypeOK, LogIsHistoryAboveHorizon, HistoryBelowCounter, HorizonBehindTail,
         ProjectionFromHistory
  PROVE  /\ LatestSeq \in Nat
         /\ Reached(LatestSeq)
         /\ \A r \in history : r.seq <= LatestSeq
<1> DEFINE Present == {e \in Entity : rows[e] # NoRow}
           S == {0} \cup {r.seq : r \in log} \cup {rows[e].seq : e \in Present}
<1>1. \A r \in history : r.seq \in Nat \ {0}
  BY DEF TypeOK, LogRow
<1>2. \A n \in S : n = 0 \/ \E r \in history : n = r.seq
  <2>1. \A r \in log : r \in history
    BY DEF LogIsHistoryAboveHorizon
  <2>2. \A e \in Present : \E r \in history : r.seq = rows[e].seq
    BY DEF ProjectionFromHistory
  <2>3. QED
    BY <2>1, <2>2
<1>4. LatestSeq = Max(S)
  BY DEF LatestSeq
<1>6. 0 \in S /\ \A r \in log : r.seq \in S
  OBVIOUS
<1> HIDE DEF S
<1>3. S \in SUBSET Nat /\ S # {} /\ lastSeq \in Nat /\ \A n \in S : n <= lastSeq
  <2>1. lastSeq \in Nat
    BY DEF TypeOK
  <2>2. QED
    BY <2>1, <1>1, <1>2, <1>6 DEF HistoryBelowCounter
<1>5. Max(S) \in S /\ \A n \in S : n <= Max(S)
  BY <1>3, MaxOfBounded
<1>7. \A r \in history : r.seq <= Max(S)
  <2>1. SUFFICES ASSUME NEW r \in history, r \notin log
                 PROVE  r.seq <= Max(S)
    BY <1>5, <1>6
  <2>2. r.seq <= minAvailable /\ minAvailable # 0 /\ minAvailable \in Nat
    BY <2>1, <1>1 DEF LogIsHistoryAboveHorizon, TypeOK
  <2>3. PICK q \in history : minAvailable + Retain <= q.seq
    BY <2>2 DEF HorizonBehindTail
  <2>4. q \in log /\ r.seq <= q.seq
    BY <2>2, <2>3, <1>1, CompactionAssumption DEF LogIsHistoryAboveHorizon
  <2>5. q.seq <= Max(S) /\ Max(S) \in Nat
    BY <2>4, <1>3, <1>5, <1>6
  <2>6. QED
    BY <2>4, <2>5, <1>1
<1>8. Max(S) \in Nat /\ Reached(Max(S))
  BY <1>1, <1>2, <1>3, <1>5 DEF Reached
<1>9. QED
  BY <1>4, <1>7, <1>8

(* So whatever was once reached is at most the latest sequence.             *)
LEMMA ReachedBelowLatest ==
  ASSUME Inductive, NEW n \in Nat, Reached(n)
  PROVE  n <= LatestSeq
<1>1. \A r \in history : r.seq \in Nat
  BY DEF Inductive, TypeOK, LogRow
<1>2. QED
  BY <1>1, LatestIsNewest DEF Inductive, Reached
-----------------------------------------------------------------------------
(* Steps that leave the database alone: a handler h moves on, and may open, *)
(* extend or roll back the transaction or replace the cached sequence.      *)

HandlersTyped ==
  pc \in [Handler -> Labels] /\ req \in [Handler -> Requests] /\ reg \in [Handler -> Locals]

LEMMA MemoryStep ==
  ASSUME Inductive, UNCHANGED <<db, history>>, HandlersTyped',
         NEW h \in Handler,
         \A g \in Handler \ {h} : pc'[g] = pc[g] /\ reg'[g] = reg[g],
         reg'[h].found \subseteq history,
         pc'[h] \in {"compactCount", "compactMin", "compactDelete"} =>
           reg'[h].sequence > Retain /\ Reached(reg'[h].sequence),
         pc'[h] = "latestStore" => Reached(reg'[h].sequence),
         cached' \in Nat, Reached(cached'),
         tx' \in Transactions, TransactionPrepared'
  PROVE  Inductive'
<1>1. TypeOK'
  BY DEF Inductive, TypeOK, HandlersTyped, db
<1>2. /\ LogIsHistoryAboveHorizon' /\ HistoryBelowCounter' /\ HorizonBehindTail'
      /\ LoggedOnce' /\ ProjectionFromHistory' /\ ProjectionKeepsWinner'
  BY DEF Inductive, db, LogIsHistoryAboveHorizon, HistoryBelowCounter, HorizonBehindTail,
         LoggedOnce, ProjectionFromHistory, ProjectionKeepsWinner
<1>3. ReadsReached' /\ Reached(cached)'
  BY DEF Inductive, ReadsReached, Reached
<1>4. QED
  BY <1>1, <1>2, <1>3 DEF Inductive

LEMMA TransactionKept ==
  ASSUME Inductive, UNCHANGED <<db, tx, history>>
  PROVE  tx' \in Transactions /\ TransactionPrepared'
BY DEF Inductive, TypeOK, db, TransactionPrepared, Prepared

LEMMA NoTxTyped == NoTx \in Transactions /\ NoTx.owner = NoHandler
BY DEF NoTx, Transactions, Table

LEMMA IdleTyped == Idle \in Locals /\ NoRequest \in Requests /\ Idle.found = {}
BY DEF Idle, Locals, NoRequest, Requests

LEMMA StartStep ==
  ASSUME Inductive, NEW h \in Handler,
         NEW label \in Labels, NEW request \in Requests, NEW locals \in Locals,
         locals.found = {}, label \in {"push", "pullMin", "snapshotTable"},
         Start(h, label, request, locals)
  PROVE  Inductive'
<1>1. HandlersTyped' /\ pc'[h] = label /\ reg'[h].found \subseteq history
      /\ \A g \in Handler \ {h} : pc'[g] = pc[g] /\ reg'[g] = reg[g]
  BY DEF Inductive, TypeOK, Start, Goto, HandlersTyped
<1>2. UNCHANGED <<db, tx, history>> /\ cached' = cached
  BY DEF Start
<1>3. cached' \in Nat /\ Reached(cached')
  BY <1>2 DEF Inductive, TypeOK
<1>4. QED
  BY <1>1, <1>2, <1>3, MemoryStep, TransactionKept

LEMMA RequestStep ==
  ASSUME Inductive, NEW h \in Handler, Request(h)
  PROVE  Inductive'
<1>1. CASE PushStart(h)
  <2>1. PICK batch \in Batch :
          Start(h, "push", [NoRequest EXCEPT !.batch = batch], [Idle EXCEPT !.todo = batch])
    BY <1>1 DEF PushStart
  <2>2. batch \in Seq(Operation)
    BY RequestAssumption
  <2>3. /\ [NoRequest EXCEPT !.batch = batch] \in Requests
        /\ [Idle EXCEPT !.todo = batch] \in Locals
        /\ [Idle EXCEPT !.todo = batch].found = {}
    BY <2>2, IdleTyped DEF Requests, Locals
  <2>4. "push" \in Labels
    BY DEF Labels
  <2>5. QED
    BY <2>1, <2>3, <2>4, StartStep
<1>2. CASE PullStart(h)
  <2>1. PICK device \in Device, limit \in PullLimit, since \in {0} \cup {r.seq : r \in history} :
          Start(h, "pullMin",
                [NoRequest EXCEPT !.device = device, !.since = since, !.limit = limit], Idle)
    BY <1>2 DEF PullStart
  <2>2. since \in Nat
    BY DEF Inductive, TypeOK, LogRow
  <2>3. [NoRequest EXCEPT !.device = device, !.since = since, !.limit = limit] \in Requests
    <3>1. limit \in Nat \ {0}
      BY RequestAssumption
    <3>2. QED
      BY <2>2, <3>1, IdleTyped DEF Requests
  <2>4. "pullMin" \in Labels
    BY DEF Labels
  <2>5. QED
    BY <2>1, <2>3, <2>4, IdleTyped, StartStep
<1>3. CASE SnapshotStart(h)
  BY <1>3, IdleTyped, StartStep DEF SnapshotStart, Labels
<1>4. QED
  BY <1>1, <1>2, <1>3 DEF Request

LEMMA LatestReached ==
  ASSUME Inductive
  PROVE  LatestSeq \in Nat /\ Reached(LatestSeq)
BY LatestIsNewest DEF Inductive

(* Locals that hold only rows which were committed.                         *)
Sound(locals) == locals \in Locals /\ locals.found \subseteq history

LEMMA SoundUpdated ==
  ASSUME NEW l, Sound(l)
  PROVE  /\ \A n \in Nat : /\ Sound([l EXCEPT !.sequence = n])
                           /\ [l EXCEPT !.sequence = n].sequence = n
         /\ \A b \in BOOLEAN : Sound([l EXCEPT !.required = b])
         /\ \A f \in SUBSET LogRow, b \in BOOLEAN :
              f \subseteq history => Sound([l EXCEPT !.found = f, !.more = b])
         /\ \A i \in SUBSET SnapshotItem, t \in 1..3 :
              Sound([l EXCEPT !.items = i, !.table = t])
         /\ \A todo \in Seq(Operation), n \in Nat :
              /\ Sound([l EXCEPT !.todo = todo])
              /\ Sound([l EXCEPT !.todo = todo, !.accepted = n])
BY DEF Locals, Sound

LEMMA LocalsSound ==
  ASSUME Inductive, NEW h \in Handler
  PROVE  Sound(reg[h])
BY DEF Inductive, TypeOK, ReadsReached, Sound

(* A statement that only reads: h moves to label with locals.               *)
LEMMA ReadStep ==
  ASSUME Inductive, UNCHANGED <<db, tx, req, history>>, NEW h \in Handler,
         NEW label \in Labels, NEW locals, Sound(locals),
         pc' = [pc EXCEPT ![h] = label], reg' = [reg EXCEPT ![h] = locals],
         label \in {"compactCount", "compactMin", "compactDelete"} =>
           locals.sequence > Retain /\ Reached(locals.sequence),
         label = "latestStore" => Reached(locals.sequence),
         cached' \in Nat, Reached(cached')
  PROVE  Inductive'
<1>1. /\ HandlersTyped' /\ pc'[h] = label /\ reg'[h] = locals
      /\ \A g \in Handler \ {h} : pc'[g] = pc[g] /\ reg'[g] = reg[g]
  BY DEF Inductive, TypeOK, HandlersTyped, Sound
<1>2. QED
  BY <1>1, MemoryStep, TransactionKept DEF Sound

(* The statement that stores a sequence in the locals.                      *)
LEMMA SequenceRead ==
  ASSUME Inductive, NEW h \in Handler, NEW n \in Nat,
         reg' = [reg EXCEPT ![h] = [reg[h] EXCEPT !.sequence = n]]
  PROVE  \E locals : Sound(locals) /\ locals.sequence = n /\ reg' = [reg EXCEPT ![h] = locals]
BY LocalsSound, SoundUpdated, Zenon

LEMMA CacheSound ==
  ASSUME Inductive
  PROVE  /\ cached \in Nat /\ Reached(cached)
         /\ LatestSeq \in Nat /\ Reached(LatestSeq)
<1>1. LatestSeq \in Nat /\ Reached(LatestSeq)
  BY LatestIsNewest DEF Inductive
<1>2. QED
  BY <1>1 DEF Inductive, TypeOK

LEMMA CompactReadStep ==
  ASSUME Inductive, NEW h \in Handler,
         CompactLatest(h) \/ CompactCount(h) \/ CompactMin(h) \/ PushLatest(h)
  PROVE  Inductive'
<1>1. \A label \in {"compactCount", "compactMin", "compactDelete", "pushLatest", "done"} :
        label \in Labels
  BY DEF Labels
<1>2. CASE CompactLatest(h)
  <2>1. reg' = [reg EXCEPT ![h] = [reg[h] EXCEPT !.sequence = LatestSeq]]
    BY <1>2, Zenon DEF CompactLatest
  <2>2. PICK locals : /\ Sound(locals) /\ locals.sequence = LatestSeq
                      /\ reg' = [reg EXCEPT ![h] = locals]
    BY <2>1, CacheSound, SequenceRead
  <2>3. PICK label \in {"compactCount", "pushLatest"} :
          /\ pc' = [pc EXCEPT ![h] = label]
          /\ label = "compactCount" => ~(LatestSeq <= Retain)
    BY <1>2, Zenon DEF CompactLatest, Goto
  <2>4. label = "compactCount" => LatestSeq > Retain
    BY <2>3, CacheSound, CompactionAssumption
  <2>5. UNCHANGED <<db, tx, req, history>> /\ cached' = cached
    BY <1>2 DEF CompactLatest
  <2>6. QED
    BY <1>1, <2>2, <2>3, <2>4, <2>5, CacheSound, ReadStep
<1>3. CASE CompactCount(h) \/ CompactMin(h)
  <2>1. reg[h].sequence > Retain /\ Reached(reg[h].sequence)
    BY <1>3 DEF Inductive, ReadsReached, CompactCount, CompactMin
  <2>2. PICK label \in {"compactMin", "compactDelete", "pushLatest"} :
          pc' = [pc EXCEPT ![h] = label]
    BY <1>3 DEF CompactCount, CompactMin, Goto
  <2>3. UNCHANGED <<db, tx, req, history>> /\ reg' = reg /\ cached' = cached
    BY <1>3 DEF CompactCount, CompactMin
  <2>4. reg' = [reg EXCEPT ![h] = reg[h]]
    BY <2>3 DEF Inductive, TypeOK
  <2>5. QED
    BY <1>1, <2>1, <2>2, <2>3, <2>4, LocalsSound, CacheSound, ReadStep
<1>4. CASE PushLatest(h)
  <2>1. reg' = [reg EXCEPT ![h] = [reg[h] EXCEPT !.sequence = LatestSeq]]
    BY <1>4, Zenon DEF PushLatest
  <2>2. PICK locals : Sound(locals) /\ reg' = [reg EXCEPT ![h] = locals]
    BY <2>1, CacheSound, SequenceRead
  <2>3. cached' \in Nat /\ Reached(cached')
    BY <1>4, CacheSound DEF PushLatest, RememberLatest
  <2>4. UNCHANGED <<db, tx, req, history>> /\ pc' = [pc EXCEPT ![h] = "done"]
    BY <1>4 DEF PushLatest, Goto
  <2>5. QED
    BY <1>1, <2>2, <2>3, <2>4, ReadStep
<1>5. QED
  BY <1>2, <1>3, <1>4

LEMMA FoundTyped ==
  ASSUME Inductive, NEW h \in Handler
  PROVE  /\ FirstRows(Wanted(h), req[h].limit) \in SUBSET LogRow
         /\ FirstRows(Wanted(h), req[h].limit) \subseteq history
BY DEF Inductive, TypeOK, FirstRows, Wanted, LogIsHistoryAboveHorizon

LEMMA ItemsTyped ==
  ASSUME Inductive, NEW h \in Handler, NEW items \in SUBSET SnapshotItem, NEW t \in 1..3
  PROVE  items \cup {[entity |-> e, row |-> rows[e]] : e \in Live(t)} \in SUBSET SnapshotItem
<1>1. Tables[t] \subseteq Entity
  BY DEF Tables, Entity
<1>2. \A e \in Live(t) : e \in Entity /\ rows[e] \in StateRow
  BY <1>1 DEF Live, Inductive, TypeOK, Table
<1>3. QED
  BY <1>2 DEF SnapshotItem

LEMMA ReadRequestStep ==
  ASSUME Inductive, NEW h \in Handler,
         PullMin(h) \/ PullRows(h) \/ SnapshotTable(h)
  PROVE  Inductive'
<1>1. {"latest", "pullRows", "snapshotTable"} \subseteq Labels
  BY DEF Labels
<1>2. UNCHANGED <<db, tx, req, history>> /\ cached' = cached
  BY DEF PullMin, PullRows, SnapshotTable
<1>3. PICK label \in {"latest", "pullRows", "snapshotTable"} : pc' = [pc EXCEPT ![h] = label]
  BY DEF PullMin, PullRows, SnapshotTable, Goto
<1>4. SUFFICES \E locals : Sound(locals) /\ reg' = [reg EXCEPT ![h] = locals]
  BY <1>1, <1>2, <1>3, CacheSound, ReadStep
<1>5. CASE PullMin(h)
  <2>1. reg' = [reg EXCEPT ![h] = [reg[h] EXCEPT !.required = req[h].since < minAvailable]]
    BY <1>5, Zenon DEF PullMin
  <2>2. (req[h].since < minAvailable) \in BOOLEAN
    OBVIOUS
  <2>3. QED
    BY <2>1, <2>2, LocalsSound, SoundUpdated, Zenon
<1>6. CASE PullRows(h)
  <2>1. reg' = [reg EXCEPT ![h] = [reg[h] EXCEPT
                  !.found = FirstRows(Wanted(h), req[h].limit),
                  !.more = Cardinality(Wanted(h)) > req[h].limit]]
    BY <1>6, Zenon DEF PullRows
  <2>2. (Cardinality(Wanted(h)) > req[h].limit) \in BOOLEAN
    OBVIOUS
  <2>3. QED
    BY <2>1, <2>2, FoundTyped, LocalsSound, SoundUpdated, Zenon
<1>7. CASE SnapshotTable(h)
  <2> DEFINE items == reg[h].items \cup {[entity |-> e, row |-> rows[e]] : e \in Live(reg[h].table)}
             table == IF reg[h].table = 3 THEN 1 ELSE reg[h].table + 1
  <2>1. reg' = [reg EXCEPT ![h] = [reg[h] EXCEPT !.items = items, !.table = table]]
    BY <1>7, Zenon DEF SnapshotTable
  <2>2. reg[h].table \in 1..3 /\ reg[h].items \in SUBSET SnapshotItem
    BY LocalsSound DEF Sound, Locals
  <2>3. table \in 1..3 /\ items \in SUBSET SnapshotItem
    BY <2>2, ItemsTyped
  <2> HIDE DEF items, table
  <2>4. QED
    BY <2>1, <2>3, LocalsSound, SoundUpdated, Zenon
<1>8. QED
  BY <1>5, <1>6, <1>7

LEMMA ReportedTyped ==
  ASSUME Inductive, NEW h \in Handler, NEW n \in Nat
  PROVE  Reported(h, n) \in Nat
<1>1. CASE reg[h].found = {}
  BY <1>1 DEF Reported
<1>2. CASE reg[h].found # {}
  <2> DEFINE S == {r.seq : r \in reg[h].found}
  <2>1. \A r \in reg[h].found : r.seq \in Nat /\ r.seq <= lastSeq
    BY DEF Inductive, ReadsReached, HistoryBelowCounter, TypeOK, LogRow
  <2>2. S \in SUBSET Nat /\ S # {} /\ lastSeq \in Nat /\ \A x \in S : x <= lastSeq
    BY <1>2, <2>1 DEF Inductive, TypeOK
  <2>3. Max(S) \in S
    <3> HIDE DEF S
    <3> QED
      BY <2>2, MaxOfBounded
  <2>4. QED
    BY <1>2, <2>2, <2>3 DEF Reported
<1>3. QED
  BY <1>1, <1>2

LEMMA LatestStep ==
  ASSUME Inductive, NEW h \in Handler, Latest(h) \/ LatestStore(h)
  PROVE  Inductive'
<1>1. {"done", "latestStore"} \subseteq Labels
  BY DEF Labels
<1>2. UNCHANGED <<db, tx, req, history>>
  BY DEF Latest, LatestStore
<1>3. CASE Latest(h)
  <2>1. PICK n : /\ n = IF cached > 0 THEN Reported(h, cached) ELSE LatestSeq
                 /\ reg' = [reg EXCEPT ![h] = [reg[h] EXCEPT !.sequence = n]]
    BY <1>3, Zenon DEF Latest
  <2>2. n \in Nat
    BY <2>1, CacheSound, ReportedTyped
  <2>3. PICK locals : Sound(locals) /\ locals.sequence = n /\ reg' = [reg EXCEPT ![h] = locals]
    BY <2>1, <2>2, SequenceRead
  <2>4. PICK label \in {"done", "latestStore"} :
          /\ pc' = [pc EXCEPT ![h] = label]
          /\ label = "latestStore" => ~(cached > 0)
    BY <1>3, Zenon DEF Latest, Goto
  <2>5. label = "latestStore" => Reached(locals.sequence)
    BY <2>1, <2>3, <2>4, CacheSound
  <2>6. cached' = cached
    BY <1>3 DEF Latest
  <2>7. QED
    BY <1>1, <1>2, <2>3, <2>4, <2>5, <2>6, CacheSound, ReadStep
<1>4. CASE LatestStore(h)
  <2>1. PICK n : /\ n = Reported(h, reg[h].sequence)
                 /\ reg' = [reg EXCEPT ![h] = [reg[h] EXCEPT !.sequence = n]]
    BY <1>4, Zenon DEF LatestStore
  <2>2. reg[h].sequence \in Nat
    BY LocalsSound DEF Sound, Locals
  <2>3. n \in Nat
    BY <2>1, <2>2, ReportedTyped
  <2>4. PICK locals : Sound(locals) /\ reg' = [reg EXCEPT ![h] = locals]
    BY <2>1, <2>3, SequenceRead
  <2>5. cached' = reg[h].sequence /\ Reached(reg[h].sequence)
    BY <1>4 DEF LatestStore, StoreLatest, Inductive, ReadsReached
  <2>6. pc' = [pc EXCEPT ![h] = "done"]
    BY <1>4 DEF LatestStore, Goto
  <2>7. QED
    BY <1>1, <1>2, <2>2, <2>4, <2>5, <2>6, ReadStep
<1>5. QED
  BY <1>3, <1>4
-----------------------------------------------------------------------------
(* Steps that end a request without touching the database.                  *)

LEMMA ReleaseStep ==
  ASSUME Inductive, NEW h \in Handler, Answer(h) \/ Abandon(h) \/ Busy(h)
  PROVE  Inductive'
<1>1. /\ Release(h) /\ UNCHANGED <<db, cached, history>>
      /\ tx' = tx \/ tx' = NoTx
  BY DEF Answer, Busy, Abandon
<1>2. /\ HandlersTyped' /\ pc'[h] = "idle" /\ reg'[h].found \subseteq history
      /\ \A g \in Handler \ {h} : pc'[g] = pc[g] /\ reg'[g] = reg[g]
  <2>1. "idle" \in Labels
    BY DEF Labels
  <2>2. QED
    BY <1>1, <2>1, IdleTyped DEF Inductive, TypeOK, HandlersTyped, Release, Goto
<1>3. tx' \in Transactions /\ TransactionPrepared'
  BY <1>1, NoTxTyped, TransactionKept DEF TransactionPrepared
<1>4. QED
  BY <1>1, <1>2, <1>3, CacheSound, MemoryStep

LEMMA RestartStep ==
  ASSUME Inductive, Restart
  PROVE  Inductive'
<1>1. /\ UNCHANGED <<db, history>> /\ tx' = NoTx /\ cached' = 0
      /\ \A h \in Handler : pc'[h] = "idle" /\ reg'[h] = Idle
  BY DEF Restart
<1>2. TypeOK'
  <2>1. "idle" \in Labels
    BY DEF Labels
  <2>2. QED
    BY <1>1, <2>1, NoTxTyped, IdleTyped DEF Restart, Inductive, TypeOK, db
<1>3. /\ LogIsHistoryAboveHorizon' /\ HistoryBelowCounter' /\ HorizonBehindTail'
      /\ LoggedOnce' /\ ProjectionFromHistory' /\ ProjectionKeepsWinner'
  BY <1>1 DEF Inductive, db, LogIsHistoryAboveHorizon, HistoryBelowCounter, HorizonBehindTail,
              LoggedOnce, ProjectionFromHistory, ProjectionKeepsWinner
<1>4. TransactionPrepared' /\ ReadsReached' /\ Reached(cached)'
  BY <1>1, NoTxTyped, IdleTyped DEF TransactionPrepared, ReadsReached, Reached
<1>5. QED
  BY <1>2, <1>3, <1>4 DEF Inductive
-----------------------------------------------------------------------------
(* Push.                                                                    *)

LEMMA OpenedPrepared ==
  ASSUME Inductive, NEW h \in Handler, tx.owner \in {NoHandler, h}
  PROVE  Opened(h) \in Transactions /\ Opened(h).owner = h /\ Prepared(Opened(h))
<1>1. CASE tx.owner = h
  BY <1>1, HandlerAssumption DEF Opened, Inductive, TypeOK, TransactionPrepared
<1>2. CASE tx.owner # h
  <2>1. Opened(h) = [owner |-> h, inserted |-> {}, rows |-> rows, seq |-> lastSeq]
    BY <1>2 DEF Opened
  <2>2. Opened(h) \in Transactions /\ Opened(h).owner = h
    BY <2>1 DEF Inductive, TypeOK, Transactions
  <2>3. Prepared(Opened(h))
    BY <2>1 DEF Prepared, Inductive, TypeOK, LoggedOnce, ProjectionKeepsWinner
  <2>4. QED
    BY <2>2, <2>3
<1>3. QED
  BY <1>1, <1>2

(* An insert that is ignored may use up a sequence number.                  *)
LEMMA SkippedSeq ==
  ASSUME Inductive, NEW t \in Transactions, Prepared(t),
         NEW u, u = [t EXCEPT !.seq = t.seq + 1]
  PROVE  u \in Transactions /\ u.owner = t.owner /\ Prepared(u)
<1>1. /\ u \in Transactions /\ u.owner = t.owner /\ t.seq \in Nat /\ u.seq = t.seq + 1
      /\ u.inserted = t.inserted /\ u.rows = t.rows
  BY DEF Transactions
<1>2. lastSeq \in Nat /\ \A r \in t.inserted : r.seq \in Nat
  BY DEF Inductive, TypeOK, Transactions, LogRow
<1>3. QED
  BY <1>1, <1>2 DEF Prepared

(* An insert that goes in takes its projection with it.                     *)
LEMMA InsertPrepared ==
  ASSUME Inductive, NEW t \in Transactions, Prepared(t),
         NEW op \in Operation,
         NEW n, n = t.seq + 1,
         \A r \in log \cup t.inserted : r.op.id # op.id,
         NEW u, u = [t EXCEPT !.seq = n,
                              !.inserted = t.inserted \cup {[seq |-> n, op |-> op]},
                              !.rows = [t.rows EXCEPT ![op.entity] =
                                          ApplyState(t.rows[op.entity], op, n)]]
  PROVE  u \in Transactions /\ u.owner = t.owner /\ Prepared(u)
<1> DEFINE new == [seq |-> n, op |-> op]
           e == op.entity
           row == ApplyState(t.rows[e], op, n)
<1>1. /\ t.seq \in Nat /\ n \in Nat \ {0} /\ lastSeq \in Nat /\ lastSeq <= t.seq
      /\ t.rows \in Table /\ t.inserted \in SUBSET LogRow /\ rows \in Table
  BY DEF Transactions, Inductive, TypeOK, Prepared
<1>2. e \in Entity /\ op.stamp \in Stamp /\ new \in LogRow /\ new.seq = n /\ new.op = op
  BY <1>1, OperationParts DEF LogRow
<1>3. t.rows[e] \in StateRow \cup {NoRow} /\ rows[e] \in StateRow \cup {NoRow}
  BY <1>1, <1>2 DEF Table
<1>4. /\ row \in StateRow \cup {NoRow}
      /\ \/ row = t.rows[e]
         \/ /\ row # NoRow /\ row.stamp = op.stamp /\ row.seq = n
            /\ t.rows[e] = NoRow \/ Wins(row.stamp, t.rows[e].stamp)
            /\ op.kind # "patch" => row.deleted = op.deleted
            /\ row.deleted = "yes" => op.deleted # "no"
  <2>1. n \in Nat
    BY <1>1
  <2> HIDE DEF e
  <2>2. PICK old \in StateRow \cup {NoRow} : old = t.rows[e]
    BY <1>3
  <2>3. row = ApplyState(old, op, n)
    BY <2>2
  <2> HIDE DEF row
  <2>4. QED
    BY <2>1, <2>2, <2>3, ApplyStateAdvances
<1>5. op.kind # "patch" => row # NoRow /\ ~Wins(op.stamp, row.stamp)
  BY <1>1, <1>3, ApplyStateKeepsWinner
<1> HIDE DEF row, e
<1>6. t.rows[e] # NoRow => row # NoRow /\ row.stamp \in Stamp
  BY <1>3, <1>4, NoRowAssumption DEF StateRow
<1>7. /\ u \in Transactions /\ u.owner = t.owner /\ u.seq = n
      /\ u.inserted = t.inserted \cup {new}
      /\ u.rows = [t.rows EXCEPT ![e] = row]
  <2>1. [t.rows EXCEPT ![e] = row] \in Table
    BY <1>1, <1>4 DEF Table
  <2>2. t.inserted \cup {new} \in SUBSET LogRow
    BY <1>1, <1>2
  <2>3. u = [t EXCEPT !.seq = n, !.inserted = t.inserted \cup {new},
                      !.rows = [t.rows EXCEPT ![e] = row]]
    BY DEF row, e
  <2> HIDE DEF new
  <2>4. QED
    BY <1>1, <2>1, <2>2, <2>3 DEF Transactions
<1>8. u.rows[e] = row /\ \A x \in Entity \ {e} : u.rows[x] = t.rows[x]
  BY <1>1, <1>2, <1>7 DEF Table
<1> HIDE DEF new
<1>9. /\ lastSeq <= u.seq
      /\ \A r \in u.inserted : lastSeq < r.seq /\ r.seq <= u.seq
  <2>1. \A r \in t.inserted : r.seq \in Nat /\ lastSeq < r.seq /\ r.seq <= t.seq
    BY <1>1 DEF Prepared, LogRow
  <2>2. QED
    BY <1>1, <1>2, <1>7, <2>1
<1>10. \A r, q \in log \cup u.inserted : r.op.id = q.op.id => r = q
  BY <1>2, <1>7 DEF Prepared
<1>11. ASSUME NEW x \in Entity
       PROVE  \/ u.rows[x] = rows[x]
              \/ /\ u.rows[x] # NoRow
                 /\ rows[x] # NoRow => Wins(u.rows[x].stamp, rows[x].stamp)
                 /\ \E r \in u.inserted : r.op.entity = x /\ RowOf(u.rows[x], r)
  <2>1. \/ t.rows[x] = rows[x]
        \/ /\ t.rows[x] # NoRow
           /\ rows[x] # NoRow => Wins(t.rows[x].stamp, rows[x].stamp)
           /\ \E r \in t.inserted : r.op.entity = x /\ RowOf(t.rows[x], r)
    BY DEF Prepared
  <2>2. CASE u.rows[x] = t.rows[x]
    BY <1>7, <2>1, <2>2
  <2>3. CASE x = e /\ row # t.rows[e]
    <3>1. row # NoRow /\ row.stamp = op.stamp /\ row.seq = n
          /\ (t.rows[e] = NoRow \/ Wins(row.stamp, t.rows[e].stamp))
      BY <1>4, <2>3
    <3>2. new.op.entity = e /\ RowOf(row, new)
      BY <1>2, <1>4, <2>3 DEF RowOf, e
    <3>3. rows[e] # NoRow => Wins(row.stamp, rows[e].stamp)
      <4>1. t.rows[e] # NoRow => t.rows[e].stamp \in Stamp
        BY <1>3 DEF StateRow
      <4>2. rows[e] # NoRow => rows[e].stamp \in Stamp
        BY <1>3 DEF StateRow
      <4>3. QED
        BY <1>2, <2>1, <2>3, <3>1, <4>1, <4>2, WinsIsStrictTotalOrder
    <3>4. QED
      BY <1>7, <1>8, <2>3, <3>1, <3>2, <3>3
  <2>4. QED
    BY <1>8, <2>2, <2>3
<1>12. ASSUME NEW r \in history \cup u.inserted, r.op.kind # "patch"
       PROVE  u.rows[r.op.entity] # NoRow /\ ~Wins(r.op.stamp, u.rows[r.op.entity].stamp)
  <2>1. CASE r = new
    BY <1>2, <1>5, <1>8, <1>12, <2>1 DEF e
  <2>2. CASE r # new
    <3>1. r \in history \cup t.inserted /\ r \in LogRow
      BY <1>1, <1>7, <2>2 DEF Inductive, TypeOK
    <3>2. r.op.entity \in Entity /\ r.op.stamp \in Stamp
      BY <3>1, OperationParts DEF LogRow
    <3>3. t.rows[r.op.entity] # NoRow /\ ~Wins(r.op.stamp, t.rows[r.op.entity].stamp)
      BY <1>12, <3>1 DEF Prepared
    <3>4. CASE u.rows[r.op.entity] = t.rows[r.op.entity]
      BY <3>3, <3>4
    <3>5. CASE r.op.entity = e /\ row # t.rows[e]
      <4>1. /\ t.rows[e].stamp \in Stamp /\ row # NoRow /\ row.stamp \in Stamp
            /\ Wins(row.stamp, t.rows[e].stamp)
        BY <1>3, <1>4, <1>6, <3>3, <3>5 DEF StateRow
      <4>2. ~Wins(r.op.stamp, row.stamp)
        BY <3>2, <3>3, <3>5, <4>1, LosersKeepLosing
      <4>3. QED
        BY <1>8, <3>5, <4>1, <4>2
    <3>6. QED
      BY <1>8, <3>2, <3>4, <3>5
  <2>3. QED
    BY <2>1, <2>2
<1>13. QED
  BY <1>7, <1>9, <1>10, <1>11, <1>12 DEF Prepared

LEMMA PushInsertStep ==
  ASSUME Inductive, NEW h \in Handler, PushInsert(h)
  PROVE  Inductive'
<1> DEFINE op == Head(reg[h].todo)
           t == Opened(h)
<1>1. /\ t \in Transactions /\ t.owner = h /\ Prepared(t)
  BY OpenedPrepared DEF PushInsert
<1>2. reg[h].todo \in Seq(Operation) /\ reg[h].todo # <<>> /\ reg[h].accepted \in Nat
  BY LocalsSound DEF PushInsert, Sound, Locals
<1>3. op \in Operation /\ Tail(reg[h].todo) \in Seq(Operation)
  BY <1>2
<1>4. UNCHANGED <<db, cached, pc, req, history>>
  BY DEF PushInsert
<1>5. tx' \in Transactions /\ Prepared(tx')
  <2>1. CASE tx' \in {t, [t EXCEPT !.seq = t.seq + 1]}
    BY <1>1, <2>1, SkippedSeq
  <2>2. CASE /\ ~Known(t, op)
             /\ tx' = [t EXCEPT !.seq = t.seq + 1,
                                !.inserted = t.inserted \cup {[seq |-> t.seq + 1, op |-> op]},
                                !.rows = [t.rows EXCEPT ![op.entity] =
                                            ApplyState(t.rows[op.entity], op, t.seq + 1)]]
    <3>1. \A r \in log \cup t.inserted : r.op.id # op.id
      BY <2>2 DEF Known
    <3> HIDE DEF t, op
    <3>2. QED
      BY <1>1, <1>3, <2>2, <3>1, InsertPrepared
  <2>3. QED
    BY <2>1, <2>2 DEF PushInsert
<1>6. TransactionPrepared'
  BY <1>4, <1>5 DEF TransactionPrepared, Prepared, db
<1>7. PICK locals : Sound(locals) /\ reg' = [reg EXCEPT ![h] = locals]
  <2>1. \/ reg' = [reg EXCEPT ![h] = [reg[h] EXCEPT !.todo = Tail(reg[h].todo)]]
        \/ reg' = [reg EXCEPT ![h] = [reg[h] EXCEPT !.todo = Tail(reg[h].todo),
                                                   !.accepted = reg[h].accepted + 1]]
    BY Zenon DEF PushInsert
  <2>2. reg[h].accepted + 1 \in Nat
    BY <1>2
  <2>3. QED
    BY <1>3, <2>1, <2>2, LocalsSound, SoundUpdated, Zenon
<1>8. /\ HandlersTyped' /\ pc'[h] = "push" /\ reg'[h].found \subseteq history
      /\ \A g \in Handler \ {h} : pc'[g] = pc[g] /\ reg'[g] = reg[g]
  BY <1>4, <1>7 DEF Inductive, TypeOK, HandlersTyped, PushInsert, Sound
<1>9. QED
  BY <1>4, <1>5, <1>6, <1>8, CacheSound, MemoryStep

(* The horizon is behind the counter, so what commits stays pullable.       *)
LEMMA HorizonBelowCounter ==
  ASSUME Inductive
  PROVE  minAvailable <= lastSeq
<1>1. /\ minAvailable \in Nat /\ lastSeq \in Nat
      /\ \A r \in history : r.seq \in Nat /\ r.seq <= lastSeq
  BY DEF Inductive, TypeOK, HistoryBelowCounter, LogRow
<1>2. QED
  BY <1>1, CompactionAssumption DEF Inductive, HorizonBehindTail

LEMMA PushCommitStep ==
  ASSUME Inductive, NEW h \in Handler, PushCommit(h)
  PROVE  Inductive'
<1>1. /\ HandlersTyped' /\ reg' = reg /\ cached' = cached /\ minAvailable' = minAvailable
      /\ pc'[h] \in {"compactLatest", "pushLatest"}
      /\ \A g \in Handler \ {h} : pc'[g] = pc[g]
  <2>1. {"compactLatest", "pushLatest"} \subseteq Labels
    BY DEF Labels
  <2>2. QED
    BY <2>1 DEF Inductive, TypeOK, HandlersTyped, PushCommit, Goto
<1>2. CASE tx.owner # h
  <2>1. UNCHANGED <<db, tx, history>>
    BY <1>2 DEF PushCommit, db
  <2>2. reg'[h].found \subseteq history
    BY <1>1, LocalsSound DEF Sound
  <2>3. QED
    BY <1>1, <2>1, <2>2, CacheSound, TransactionKept, MemoryStep
<1>3. CASE tx.owner = h
  <2>1. /\ log' = log \cup tx.inserted /\ history' = history \cup tx.inserted
        /\ rows' = tx.rows /\ lastSeq' = tx.seq /\ tx' = NoTx
    BY <1>3 DEF PushCommit
  <2>2. Prepared(tx) /\ tx \in Transactions
    BY <1>3, HandlerAssumption DEF Inductive, TransactionPrepared, TypeOK
  <2>3. /\ tx.inserted \in SUBSET LogRow /\ tx.rows \in Table /\ tx.seq \in Nat
        /\ lastSeq \in Nat /\ minAvailable \in Nat
        /\ \A r \in history \cup tx.inserted : r.seq \in Nat
    BY <2>2 DEF Transactions, Inductive, TypeOK, LogRow
  <2>4. TypeOK'
    BY <1>1, <2>1, <2>3, NoTxTyped DEF Inductive, TypeOK, HandlersTyped
  <2>5. LogIsHistoryAboveHorizon'
    <3>1. \A r \in tx.inserted : r.seq > minAvailable
      BY <2>2, <2>3, HorizonBelowCounter DEF Prepared
    <3>2. log = {r \in history : r.seq > minAvailable}
      BY DEF Inductive, LogIsHistoryAboveHorizon
    <3>3. QED
      BY <1>1, <2>1, <3>1, <3>2 DEF LogIsHistoryAboveHorizon
  <2>6. HistoryBelowCounter' /\ HorizonBehindTail' /\ Reached(cached)'
    BY <1>1, <2>1, <2>2, <2>3
       DEF Inductive, Prepared, HistoryBelowCounter, HorizonBehindTail, Reached
  <2>7. LoggedOnce'
    BY <2>1, <2>2 DEF Prepared, LoggedOnce
  <2>8. ProjectionFromHistory'
    <3>1. ASSUME NEW e \in Entity, tx.rows[e] # NoRow
          PROVE  \E r \in history \cup tx.inserted : r.op.entity = e /\ RowOf(tx.rows[e], r)
      <4>1. CASE tx.rows[e] = rows[e]
        BY <3>1, <4>1 DEF Inductive, ProjectionFromHistory, RowOf
      <4>2. CASE tx.rows[e] # rows[e]
        BY <2>2, <4>2 DEF Prepared
      <4>3. QED
        BY <4>1, <4>2
    <3>2. QED
      BY <2>1, <3>1 DEF ProjectionFromHistory, RowOf
  <2>9. ProjectionKeepsWinner'
    BY <2>1, <2>2 DEF Prepared, ProjectionKeepsWinner
  <2>10. TransactionPrepared' /\ ReadsReached'
    <3>1. TransactionPrepared'
      BY <2>1, NoTxTyped DEF TransactionPrepared
    <3>2. \A n : Reached(n) => Reached(n)'
      BY <2>1 DEF Reached
    <3>3. QED
      BY <1>1, <2>1, <3>1, <3>2 DEF Inductive, ReadsReached, Reached
  <2>11. QED
    BY <2>4, <2>5, <2>6, <2>7, <2>8, <2>9, <2>10 DEF Inductive
<1>4. QED
  BY <1>2, <1>3
-----------------------------------------------------------------------------
(* Compaction.  The horizon moves up to a cutoff Retain behind a sequence   *)
(* the log has reached, and only together with the rows up to it.           *)

LEMMA CompactDeleteStep ==
  ASSUME Inductive, NEW h \in Handler, CompactDelete(h)
  PROVE  Inductive'
<1> DEFINE doomed == {r \in log : r.seq <= Cutoff(h)}
<1>1. /\ HandlersTyped' /\ reg' = reg /\ cached' = cached /\ pc'[h] = "pushLatest"
      /\ \A g \in Handler \ {h} : pc'[g] = pc[g]
      /\ UNCHANGED <<rows, lastSeq, tx, history>>
  <2>1. "pushLatest" \in Labels
    BY DEF Labels
  <2>2. QED
    BY <2>1 DEF Inductive, TypeOK, HandlersTyped, CompactDelete, Goto
<1>2. /\ reg[h].sequence \in Nat /\ reg[h].sequence > Retain /\ Reached(reg[h].sequence)
      /\ Retain \in Nat \ {0}
  BY LocalsSound, CompactionAssumption
     DEF Sound, Locals, CompactDelete, Inductive, ReadsReached
<1>3. Cutoff(h) \in Nat /\ Cutoff(h) # 0 /\ Cutoff(h) + Retain = reg[h].sequence
  BY <1>2 DEF Cutoff
<1>4. /\ minAvailable \in Nat /\ \A r \in history : r.seq \in Nat
      /\ log = {r \in history : r.seq > minAvailable}
  BY DEF Inductive, TypeOK, LogRow, LogIsHistoryAboveHorizon
<1>5. /\ log' = log \ doomed
      /\ doomed = {} => minAvailable' = minAvailable
      /\ doomed # {} => minAvailable' = Cutoff(h) /\ minAvailable' > minAvailable
  <2>1. log' = log \ doomed /\ minAvailable' = NewHorizon(h, doomed)
    BY DEF CompactDelete
  <2>2. doomed # {} => Cutoff(h) > minAvailable
    BY <1>3, <1>4
  <2>3. QED
    BY <2>1, <2>2 DEF NewHorizon
<1>6. TypeOK'
  <2>1. log' \in SUBSET LogRow /\ minAvailable' \in Nat
    BY <1>3, <1>4, <1>5 DEF Inductive, TypeOK
  <2>2. QED
    BY <1>1, <2>1 DEF Inductive, TypeOK, HandlersTyped
<1>7. LogIsHistoryAboveHorizon'
  <2>1. CASE doomed = {}
    BY <1>1, <1>4, <1>5, <2>1 DEF LogIsHistoryAboveHorizon
  <2>2. CASE doomed # {}
    <3>1. log \ doomed = {r \in history : r.seq > Cutoff(h)}
      BY <1>3, <1>4, <1>5, <2>2
    <3>2. QED
      BY <1>1, <1>5, <2>2, <3>1 DEF LogIsHistoryAboveHorizon
  <2>3. QED
    BY <2>1, <2>2
<1>8. HorizonBehindTail'
  <2>1. CASE doomed = {}
    BY <1>1, <1>5, <2>1 DEF Inductive, HorizonBehindTail
  <2>2. CASE doomed # {}
    BY <1>1, <1>2, <1>3, <1>5, <2>2 DEF HorizonBehindTail, Reached
  <2>3. QED
    BY <2>1, <2>2
<1>9. /\ HistoryBelowCounter' /\ LoggedOnce' /\ ProjectionFromHistory'
      /\ ProjectionKeepsWinner' /\ Reached(cached)'
  BY <1>1, <1>5 DEF Inductive, HistoryBelowCounter, LoggedOnce, ProjectionFromHistory,
                    ProjectionKeepsWinner, Reached
<1>10. TransactionPrepared' /\ ReadsReached'
  <2>1. TransactionPrepared'
    BY <1>1 DEF CompactDelete, TransactionPrepared
  <2>2. QED
    BY <1>1, <2>1 DEF Inductive, ReadsReached, Reached
<1>11. QED
  BY <1>6, <1>7, <1>8, <1>9, <1>10 DEF Inductive
-----------------------------------------------------------------------------
LEMMA InitInductive == Init => Inductive
<1> SUFFICES ASSUME Init PROVE Inductive
  OBVIOUS
<1>1. TypeOK
  <2>1. "idle" \in Labels
    BY DEF Labels
  <2>2. QED
    BY <2>1, IdleTyped, NoTxTyped DEF Init, TypeOK, Table
<1>2. LogIsHistoryAboveHorizon /\ HistoryBelowCounter /\ HorizonBehindTail /\ LoggedOnce
  BY DEF Init, LogIsHistoryAboveHorizon, HistoryBelowCounter, HorizonBehindTail, LoggedOnce
<1>3. ProjectionFromHistory /\ ProjectionKeepsWinner
  BY DEF Init, ProjectionFromHistory, ProjectionKeepsWinner
<1>4. TransactionPrepared /\ ReadsReached /\ Reached(cached)
  BY NoTxTyped, IdleTyped DEF Init, TransactionPrepared, ReadsReached, Reached
<1>5. QED
  BY <1>1, <1>2, <1>3, <1>4 DEF Inductive

LEMMA StutterInductive ==
  ASSUME Inductive, UNCHANGED vars
  PROVE  Inductive'
BY DEF Inductive, vars, TypeOK, LogIsHistoryAboveHorizon, HistoryBelowCounter,
       HorizonBehindTail, LoggedOnce, ProjectionFromHistory, ProjectionKeepsWinner,
       TransactionPrepared, Prepared, ReadsReached, Reached

LEMMA NextInductive ==
  ASSUME Inductive, Next
  PROVE  Inductive'
<1>1. CASE Restart
  BY <1>1, RestartStep
<1>2. ASSUME NEW h \in Handler, Request(h) \/ Statement(h) \/ Abandon(h)
      PROVE  Inductive'
  BY <1>2, RequestStep, PushInsertStep, PushCommitStep, CompactReadStep, CompactDeleteStep,
     ReadRequestStep, LatestStep, ReleaseStep DEF Statement
<1>3. QED
  BY <1>1, <1>2 DEF Next

(* The strengthened invariant holds of every reachable state.               *)
THEOREM InductiveInvariant == Spec => []Inductive
<1>1. Inductive /\ [Next]_vars => Inductive'
  BY NextInductive, StutterInductive
<1>2. QED
  BY InitInductive, <1>1, PTL DEF Spec

(* Every variable keeps its kind, whatever the handlers do.                 *)
THEOREM TypeCorrect == Spec => []TypeOK
<1>1. Inductive => TypeOK
  BY DEF Inductive
<1>2. QED
  BY <1>1, InductiveInvariant, PTL

(* Concurrent compactions remove what the horizon says, and nothing else.   *)
THEOREM LogMatchesHorizon == Spec => []LogIsHistoryAboveHorizon
<1>1. Inductive => LogIsHistoryAboveHorizon
  BY DEF Inductive
<1>2. QED
  BY <1>1, InductiveInvariant, PTL

(* Compaction keeps the newest Retain sequence numbers.                     *)
THEOREM TailIsRetained == Spec => []TailRetained
<1>1. ASSUME Inductive PROVE TailRetained
  <2>1. SUFFICES ASSUME NEW r \in history, r.seq + Retain > LatestSeq
                 PROVE  r \in log
    BY DEF TailRetained
  <2>2. LatestSeq \in Nat /\ \A q \in history : q.seq <= LatestSeq
    BY <1>1, LatestIsNewest DEF Inductive
  <2>3. /\ minAvailable \in Nat /\ Retain \in Nat
        /\ \A q \in history : q.seq \in Nat \ {0}
        /\ log = {q \in history : q.seq > minAvailable}
    BY <1>1, CompactionAssumption DEF Inductive, TypeOK, LogRow, LogIsHistoryAboveHorizon
  <2>4. minAvailable = 0 \/ minAvailable + Retain <= LatestSeq
    BY <1>1, <2>2, <2>3 DEF Inductive, HorizonBehindTail
  <2>5. QED
    BY <2>1, <2>2, <2>3, <2>4
<1>2. QED
  BY <1>1, InductiveInvariant, PTL

(* A redelivered operation is not logged twice while the log remembers it.  *)
THEOREM RetriesAreIdempotent == Spec => []LoggedOnce
<1>1. Inductive => LoggedOnce
  BY DEF Inductive
<1>2. QED
  BY <1>1, InductiveInvariant, PTL

(* The projection holds the winner of every accepted write, and no version  *)
(* that was not accepted.                                                   *)
THEOREM ProjectionIsWinner == Spec => [](ProjectionKeepsWinner /\ ProjectionFromHistory)
<1>1. Inductive => ProjectionKeepsWinner /\ ProjectionFromHistory
  BY DEF Inductive
<1>2. QED
  BY <1>1, InductiveInvariant, PTL

(* The cache never names an operation that is not committed.                *)
THEOREM CacheIsPast == Spec => []CacheNotAhead
<1>1. ASSUME Inductive PROVE CacheNotAhead
  BY <1>1, CacheSound, ReachedBelowLatest DEF CacheNotAhead
<1>2. QED
  BY <1>1, InductiveInvariant, PTL
-----------------------------------------------------------------------------
(* What a step can do to the database: nothing, a commit or a truncation.   *)

Commits ==
  /\ Prepared(tx) /\ tx \in Transactions
  /\ log' = log \cup tx.inserted /\ history' = history \cup tx.inserted
  /\ rows' = tx.rows /\ minAvailable' = minAvailable

Truncates ==
  /\ minAvailable' > minAvailable
  /\ \E r \in history : minAvailable' < r.seq
  /\ log' = {r \in log : r.seq > minAvailable'}
  /\ rows' = rows /\ history' = history

LEMMA DeleteTruncates ==
  ASSUME Inductive, NEW h \in Handler, CompactDelete(h)
  PROVE  Truncates \/ UNCHANGED <<log, rows, minAvailable, history>>
<1> DEFINE doomed == {r \in log : r.seq <= Cutoff(h)}
<1>1. /\ log' = log \ doomed /\ minAvailable' = NewHorizon(h, doomed)
      /\ rows' = rows /\ history' = history
  BY DEF CompactDelete
<1>2. CASE doomed = {}
  BY <1>1, <1>2 DEF NewHorizon
<1>3. CASE doomed # {}
  <2>1. minAvailable' = Cutoff(h)
    BY <1>1, <1>3 DEF NewHorizon
  <2>2. /\ reg[h].sequence \in Nat /\ Retain \in Nat \ {0} /\ reg[h].sequence > Retain
        /\ Reached(reg[h].sequence)
    BY LocalsSound, CompactionAssumption
       DEF Sound, Locals, CompactDelete, Inductive, ReadsReached
  <2>3. /\ minAvailable \in Nat /\ \A r \in history : r.seq \in Nat
        /\ log = {r \in history : r.seq > minAvailable}
    BY DEF Inductive, TypeOK, LogRow, LogIsHistoryAboveHorizon
  <2>4. Cutoff(h) \in Nat /\ Cutoff(h) + Retain = reg[h].sequence
    BY <2>2 DEF Cutoff
  <2>5. Cutoff(h) > minAvailable
    BY <1>3, <2>3, <2>4
  <2>6. \E r \in history : Cutoff(h) < r.seq
    BY <2>2, <2>3, <2>4 DEF Reached
  <2>7. log \ doomed = {r \in log : r.seq > Cutoff(h)}
    BY <2>3, <2>4
  <2>8. QED
    BY <1>1, <2>1, <2>5, <2>6, <2>7 DEF Truncates
<1>4. QED
  BY <1>2, <1>3

LEMMA DatabaseSteps ==
  ASSUME Inductive, [Next]_vars
  PROVE  Commits \/ Truncates \/ UNCHANGED <<log, rows, minAvailable, history>>
<1>1. CASE Restart \/ UNCHANGED vars
  BY <1>1 DEF Restart, vars, db
<1>2. ASSUME NEW h \in Handler, PushCommit(h)
      PROVE  Commits \/ UNCHANGED <<log, rows, minAvailable, history>>
  <2>1. CASE tx.owner = h
    <3>1. Prepared(tx) /\ tx \in Transactions
      BY <2>1, HandlerAssumption DEF Inductive, TransactionPrepared, TypeOK
    <3>2. QED
      BY <1>2, <2>1, <3>1 DEF PushCommit, Commits
  <2>2. CASE tx.owner # h
    BY <1>2, <2>2 DEF PushCommit
  <2>3. QED
    BY <2>1, <2>2
<1>3. ASSUME NEW h \in Handler, Request(h) \/ Statement(h) \/ Abandon(h),
             ~PushCommit(h), ~CompactDelete(h)
      PROVE  UNCHANGED <<log, rows, minAvailable, history>>
  BY <1>3 DEF Request, PushStart, PullStart, SnapshotStart, Start, Statement, PushInsert,
              CompactLatest, CompactCount, CompactMin, PushLatest, PullMin, PullRows,
              SnapshotTable, Latest, LatestStore, Answer, Busy, Abandon, db
<1>4. QED
  BY <1>1, <1>2, <1>3, DeleteTruncates DEF Next

(* A row of the projection is only ever replaced by a newer version.        *)
THEOREM ProjectionAdvances == Spec => ProjectionMovesForward
<1> DEFINE Forward == \A e \in Entity : rows'[e] # rows[e] =>
                        /\ rows'[e] # NoRow
                        /\ rows[e] # NoRow => Wins(rows'[e].stamp, rows[e].stamp)
<1>1. ASSUME Inductive, [Next]_vars PROVE Forward
  <2>1. CASE Commits
    BY <2>1 DEF Commits, Prepared
  <2>2. CASE Truncates \/ UNCHANGED <<log, rows, minAvailable, history>>
    BY <2>2 DEF Truncates
  <2>3. QED
    BY <1>1, <2>1, <2>2, DatabaseSteps
<1>2. Inductive /\ [Next]_vars => [Forward]_vars
  BY <1>1
<1>3. QED
  BY <1>2, InductiveInvariant, PTL DEF Spec, ProjectionMovesForward

(* The server implements the operation log: each of its steps appends,      *)
(* truncates, or leaves the log and the projected versions as they are.     *)
THEOREM ServerKeepsPromise == Spec => KeepsPromise
<1> DEFINE version == [e \in Entity |-> VersionOf(rows[e])]
<1>e. Promise!Entity = Entity
  BY DEF Promise!Entity, Entity
<1>1. ASSUME Init PROVE Promise!LogInit
  <2>1. \A e \in Entity : VersionOf(rows[e]) = NoRow
    BY <1>1 DEF Init, VersionOf
  <2>2. QED
    BY <1>e, <1>1, <2>1 DEF Init, Promise!LogInit
<1>2. ASSUME Inductive, Commits PROVE Promise!Append
  <2>1. /\ Prepared(tx) /\ log' = log \cup tx.inserted
        /\ history' = history \cup tx.inserted /\ rows' = tx.rows
        /\ minAvailable' = minAvailable
    BY <1>2 DEF Commits
  <2>2. /\ lastSeq \in Nat /\ log \subseteq history
        /\ \A r \in history : r.seq \in Nat /\ r.seq <= lastSeq
        /\ \A r \in tx.inserted : r.seq \in Nat /\ lastSeq < r.seq
    BY <1>2, <2>1 DEF Commits, Inductive, TypeOK, Transactions, LogRow, Prepared,
                      HistoryBelowCounter, LogIsHistoryAboveHorizon
  <2>3. history' \ history = tx.inserted
    BY <2>1, <2>2
  <2>4. \A new \in tx.inserted, old \in history : old.seq < new.seq
    BY <2>2
  <2>5. \A new \in tx.inserted, old \in log : old.op.id # new.op.id
    <3>1. \A new \in tx.inserted, old \in log : old # new
      BY <2>2
    <3>2. QED
      BY <2>1, <3>1 DEF Prepared
  <2>6. ASSUME NEW e \in Entity PROVE Promise!Advances(e, tx.inserted)
    <3>1. version[e] = VersionOf(rows[e]) /\ version'[e] = VersionOf(tx.rows[e])
      BY <2>1
    <3>2. CASE tx.rows[e] = rows[e]
      BY <3>1, <3>2 DEF Promise!Advances
    <3>3. CASE tx.rows[e] # rows[e]
      <4>1. /\ tx.rows[e] # NoRow
            /\ rows[e] # NoRow => Wins(tx.rows[e].stamp, rows[e].stamp)
            /\ \E r \in tx.inserted : r.op.entity = e /\ r.op.stamp = tx.rows[e].stamp
        BY <2>1, <3>3 DEF Prepared, RowOf
      <4>2. VersionOf(tx.rows[e]) = tx.rows[e].stamp
        BY <4>1 DEF VersionOf
      <4>3. rows[e] = NoRow => VersionOf(rows[e]) = NoRow
        BY DEF VersionOf
      <4>4. rows[e] # NoRow => VersionOf(rows[e]) = rows[e].stamp
        BY DEF VersionOf
      <4>5. QED
        BY <3>1, <4>1, <4>2, <4>3, <4>4 DEF Promise!Advances, Promise!Wins, Wins,
           Promise!HlcLess, HlcLess, Promise!HlcEqual, HlcEqual
    <3>4. QED
      BY <3>2, <3>3
  <2>7. QED
    BY <1>e, <2>1, <2>3, <2>4, <2>5, <2>6 DEF Promise!Append
<1>3. ASSUME Inductive, Truncates PROVE Promise!Truncate
  BY <1>3 DEF Truncates, Promise!Truncate
<1>4. ASSUME UNCHANGED <<log, rows, minAvailable, history>>
      PROVE  UNCHANGED Promise!logVars
  BY <1>4 DEF Promise!logVars
<1>5. Inductive /\ [Next]_vars => [Promise!Append \/ Promise!Truncate]_(Promise!logVars)
  BY <1>2, <1>3, <1>4, DatabaseSteps
<1>6. QED
  BY <1>1, <1>5, InductiveInvariant, PTL DEF Spec, KeepsPromise, Promise!LogSpec
-----------------------------------------------------------------------------
(* An answered push.                                                        *)

(* What a push has inserted or found: the operations of its batch that are  *)
(* no longer to do are committed or in its transaction; once the push goes  *)
(* on to compaction all of them are committed.                              *)
Inserted(h) == history \cup IF tx.owner = h THEN tx.inserted ELSE {}
Contains(S, op) == \E r \in S : r.op.id = op.id
Behind(h) == Len(req[h].batch) - Len(reg[h].todo)

Accounted(h) ==
  /\ pc[h] = "push" =>
       /\ Behind(h) >= 0
       /\ \A i \in 1..Len(reg[h].todo) : reg[h].todo[i] = req[h].batch[Behind(h) + i]
       /\ \A i \in 1..Behind(h) : Contains(Inserted(h), req[h].batch[i])
  /\ pc[h] \notin {"idle", "push"} =>
       \A i \in 1..Len(req[h].batch) : Contains(history, req[h].batch[i])

(* The steps of one handler leave what another has inserted in place.       *)
LEMMA OthersKept ==
  ASSUME Inductive, NEW g \in Handler, Request(g) \/ Statement(g) \/ Abandon(g),
         NEW h \in Handler \ {g}, Accounted(h)
  PROVE  Accounted(h)'
<1>1. /\ pc \in [Handler -> Labels] /\ req \in [Handler -> Requests]
      /\ reg \in [Handler -> Locals]
  BY DEF Inductive, TypeOK
<1>2. pc'[h] = pc[h] /\ req'[h] = req[h] /\ reg'[h] = reg[h]
  <2>1. CASE Request(g)
    BY <1>1, <2>1 DEF Request, PushStart, PullStart, SnapshotStart, Start, Goto
  <2>2. CASE PushInsert(g)
    <3>1. /\ UNCHANGED <<pc, req>>
          /\ \E locals : reg' = [reg EXCEPT ![g] = locals]
      BY <2>2, Zenon DEF PushInsert
    <3>2. QED
      BY <1>1, <3>1
  <2>3. CASE Answer(g) \/ Busy(g) \/ Abandon(g)
    BY <1>1, <2>3 DEF Answer, Busy, Abandon, Release, Goto
  <2>4. CASE \/ PushCommit(g) \/ CompactLatest(g) \/ CompactCount(g) \/ CompactMin(g)
             \/ CompactDelete(g) \/ PushLatest(g)
    BY <1>1, <2>4 DEF PushCommit, CompactLatest, CompactCount, CompactMin, CompactDelete,
                      PushLatest, Goto
  <2>5. CASE PullMin(g) \/ PullRows(g) \/ SnapshotTable(g) \/ Latest(g) \/ LatestStore(g)
    BY <1>1, <2>5 DEF PullMin, PullRows, SnapshotTable, Latest, LatestStore, Goto
  <2>6. QED
    BY <2>1, <2>2, <2>3, <2>4, <2>5 DEF Statement
<1>3. /\ history \subseteq history'
      /\ tx.owner = h => tx' = tx
  BY HandlerAssumption
     DEF Request, PushStart, PullStart, SnapshotStart, Start, Statement, PushInsert, PushCommit,
         CompactLatest, CompactCount, CompactMin, CompactDelete, PushLatest, PullMin, PullRows,
         SnapshotTable, Latest, LatestStore, Answer, Busy, Abandon
<1>4. Inserted(h) \subseteq Inserted(h)'
  BY <1>3 DEF Inserted
<1>5. Behind(h)' = Behind(h)
  BY <1>2 DEF Behind
<1>6. QED
  BY <1>2, <1>3, <1>4, <1>5 DEF Accounted, Contains

(* One turn of the loop accounts for one more operation of the batch.       *)
LEMMA InsertAccounts ==
  ASSUME Inductive, NEW h \in Handler, PushInsert(h), Accounted(h)
  PROVE  Accounted(h)'
<1> DEFINE todo == reg[h].todo
           batch == req[h].batch
           op == Head(todo)
<1>1. /\ todo \in Seq(Operation) /\ todo # <<>> /\ batch \in Seq(Operation)
      /\ pc[h] = "push"
  BY DEF Inductive, TypeOK, Locals, Requests, PushInsert
<1>2. /\ Behind(h) \in Nat
      /\ \A i \in 1..Len(todo) : todo[i] = batch[Behind(h) + i]
      /\ \A i \in 1..Behind(h) : Contains(Inserted(h), batch[i])
  <2>1. Len(todo) \in Nat /\ Len(batch) \in Nat
    BY <1>1
  <2>2. Behind(h) \in Int
    BY <2>1 DEF Behind
  <2>3. /\ Behind(h) >= 0
        /\ \A i \in 1..Len(todo) : todo[i] = batch[Behind(h) + i]
        /\ \A i \in 1..Behind(h) : Contains(Inserted(h), batch[i])
    BY <1>1, Zenon DEF Accounted
  <2>4. QED
    BY <2>2, <2>3
<1>3. reg'[h].todo = Tail(todo)
  <2>1. \/ reg' = [reg EXCEPT ![h] = [reg[h] EXCEPT !.todo = Tail(reg[h].todo)]]
        \/ reg' = [reg EXCEPT ![h] = [reg[h] EXCEPT !.todo = Tail(reg[h].todo),
                                                   !.accepted = reg[h].accepted + 1]]
    BY Zenon DEF PushInsert
  <2>2. reg \in [Handler -> Locals] /\ reg[h] \in Locals
    BY DEF Inductive, TypeOK
  <2>3. QED
    BY <2>1, <2>2 DEF Locals
<1>4. UNCHANGED <<pc, req, history, log>>
  BY DEF PushInsert, db
<1>5. /\ tx'.owner = h
      /\ Inserted(h) \subseteq history \cup tx'.inserted
      /\ Contains(history \cup tx'.inserted, op)
  <2> DEFINE t == Opened(h)
  <2>1. /\ t \in Transactions /\ t.owner = h /\ log \subseteq history
    BY OpenedPrepared DEF PushInsert, Inductive, LogIsHistoryAboveHorizon
  <2>2. Inserted(h) \subseteq history \cup t.inserted
    BY DEF Inserted, Opened
  <2>3. CASE Known(t, op) /\ tx' \in {t, [t EXCEPT !.seq = t.seq + 1]}
    <3>1. tx'.owner = h /\ tx'.inserted = t.inserted
      BY <2>1, <2>3 DEF Transactions
    <3>2. Contains(history \cup t.inserted, op)
      BY <2>1, <2>3 DEF Known, Contains
    <3>3. QED
      BY <2>2, <3>1, <3>2
  <2>4. CASE tx' = [t EXCEPT !.seq = t.seq + 1,
                             !.inserted = t.inserted \cup {[seq |-> t.seq + 1, op |-> op]},
                             !.rows = [t.rows EXCEPT ![op.entity] =
                                         ApplyState(t.rows[op.entity], op, t.seq + 1)]]
    <3>1. /\ tx'.owner = h
          /\ tx'.inserted = t.inserted \cup {[seq |-> t.seq + 1, op |-> op]}
      BY <2>1, <2>4 DEF Transactions
    <3> DEFINE new == [seq |-> t.seq + 1, op |-> op]
    <3>2. new \in tx'.inserted /\ new.op.id = op.id
      BY <3>1
    <3>3. Contains(history \cup tx'.inserted, op)
      BY <3>2, Zenon DEF Contains
    <3>4. QED
      BY <2>2, <3>1, <3>3
  <2>5. QED
    BY <2>3, <2>4 DEF PushInsert
<1>6. /\ Len(Tail(todo)) = Len(todo) - 1 /\ Len(todo) \in Nat \ {0} /\ Len(batch) \in Nat
      /\ \A i \in 1..Len(Tail(todo)) : Tail(todo)[i] = todo[i + 1] /\ i + 1 \in 1..Len(todo)
      /\ op = todo[1] /\ 1 \in 1..Len(todo)
  <2>1. Len(todo) \in Nat \ {0} /\ Len(batch) \in Nat /\ op = todo[1]
    BY <1>1
  <2>2. Len(Tail(todo)) = Len(todo) - 1
    BY <1>1
  <2>3. \A i \in 1..Len(Tail(todo)) : Tail(todo)[i] = todo[i + 1]
    BY <1>1
  <2>4. \A i \in 1..Len(Tail(todo)) : i + 1 \in 1..Len(todo)
    BY <2>1, <2>2
  <2>5. QED
    BY <2>1, <2>2, <2>3, <2>4
<1>7. Behind(h)' = Behind(h) + 1
  <2>1. Behind(h)' = Len(batch) - Len(Tail(todo))
    BY <1>3, <1>4 DEF Behind
  <2>2. Behind(h) = Len(batch) - Len(todo)
    BY DEF Behind
  <2> HIDE DEF batch, todo
  <2>3. QED
    BY <1>6, <2>1, <2>2
<1>8. \A i \in 1..Len(Tail(todo)) : Tail(todo)[i] = batch[Behind(h) + 1 + i]
  <2>1. ASSUME NEW i \in 1..Len(Tail(todo))
        PROVE  Tail(todo)[i] = batch[Behind(h) + 1 + i]
    <3>1. Tail(todo)[i] = batch[Behind(h) + (i + 1)]
      BY <1>2, <1>6
    <3>2. Behind(h) + (i + 1) = Behind(h) + 1 + i
      BY <1>2
    <3>3. QED
      BY <3>1, <3>2
  <2>2. QED
    BY <2>1
<1>9. \A i \in 1..Behind(h) + 1 : Contains(history \cup tx'.inserted, batch[i])
  <2>1. op = batch[Behind(h) + 1]
    BY <1>2, <1>6
  <2>2. \A i \in 1..Behind(h) + 1 : i \in 1..Behind(h) \/ i = Behind(h) + 1
    BY <1>2
  <2>3. \A i \in 1..Behind(h) : Contains(history \cup tx'.inserted, batch[i])
    BY <1>2, <1>5 DEF Contains
  <2>4. QED
    BY <1>5, <2>1, <2>2, <2>3
<1>10. Inserted(h)' = history \cup tx'.inserted
  BY <1>4, <1>5 DEF Inserted
<1>11. QED
  <2>1. Behind(h) + 1 >= 0
    BY <1>2
  <2>2. pc'[h] = "push" /\ req'[h].batch = batch
    BY <1>1, <1>4
  <2> HIDE DEF batch, todo
  <2>3. QED
    BY <2>1, <2>2, <1>3, <1>7, <1>8, <1>9, <1>10 DEF Accounted

(* The commit makes good what the transaction holds.                        *)
LEMMA CommitAccounts ==
  ASSUME Inductive, NEW h \in Handler, PushCommit(h), Accounted(h)
  PROVE  Accounted(h)'
<1>1. /\ pc[h] = "push" /\ reg[h].todo = <<>> /\ req' = req
      /\ pc'[h] \in {"compactLatest", "pushLatest"}
  BY DEF PushCommit, Goto, Inductive, TypeOK
<1>2. req[h].batch \in Seq(Operation)
  BY DEF Inductive, TypeOK, Requests
<1>3. Behind(h) = Len(req[h].batch)
  BY <1>1, <1>2 DEF Behind
<1>4. history' = Inserted(h)
  BY DEF PushCommit, Inserted
<1>5. QED
  BY <1>1, <1>3, <1>4 DEF Accounted

(* Every later statement of the push leaves it accounted for, and a request *)
(* without a batch has nothing to account for.                              *)
LEMMA OwnStepAccounts ==
  ASSUME Inductive, NEW h \in Handler, Request(h) \/ Statement(h) \/ Abandon(h), Accounted(h)
  PROVE  Accounted(h)'
<1>1. /\ pc \in [Handler -> Labels] /\ req \in [Handler -> Requests]
      /\ reg \in [Handler -> Locals]
  BY DEF Inductive, TypeOK
<1>2. CASE PushStart(h)
  <2>1. PICK batch \in Batch : Start(h, "push", [NoRequest EXCEPT !.batch = batch],
                                     [Idle EXCEPT !.todo = batch])
    BY <1>2 DEF PushStart
  <2>2. pc'[h] = "push" /\ req'[h].batch = batch /\ reg'[h].todo = batch
    BY <1>1, <2>1 DEF Start, Goto, NoRequest, Idle
  <2>3. batch \in Seq(Operation)
    BY RequestAssumption
  <2>4. Behind(h)' = 0
    BY <2>2, <2>3 DEF Behind
  <2>5. QED
    BY <2>2, <2>3, <2>4 DEF Accounted
<1>3. CASE PullStart(h) \/ SnapshotStart(h)
  <2>1. pc'[h] \in {"pullMin", "snapshotTable"}
    BY <1>1, <1>3 DEF PullStart, SnapshotStart, Start, Goto
  <2>2. req'[h].batch = <<>>
    <3>1. CASE PullStart(h)
      <4>1. PICK device, limit, since :
              req' = [req EXCEPT ![h] = [NoRequest EXCEPT !.device = device, !.since = since,
                                                          !.limit = limit]]
        BY <3>1 DEF PullStart, Start
      <4>2. req'[h] = [NoRequest EXCEPT !.device = device, !.since = since, !.limit = limit]
        BY <1>1, <4>1
      <4>3. QED
        BY <4>2 DEF NoRequest
    <3>2. CASE SnapshotStart(h)
      BY <1>1, <3>2 DEF SnapshotStart, Start, NoRequest
    <3>3. QED
      BY <1>3, <3>1, <3>2
  <2>3. QED
    BY <2>1, <2>2 DEF Accounted
<1>4. CASE PushInsert(h)
  BY <1>4, InsertAccounts
<1>5. CASE PushCommit(h)
  BY <1>5, CommitAccounts
<1>6. CASE \/ CompactLatest(h) \/ CompactCount(h) \/ CompactMin(h) \/ CompactDelete(h)
           \/ PushLatest(h) \/ PullMin(h) \/ PullRows(h) \/ SnapshotTable(h)
           \/ Latest(h) \/ LatestStore(h)
  <2>1. /\ req' = req /\ history' = history
        /\ pc[h] \notin {"idle", "push"} /\ pc'[h] \notin {"idle", "push"}
    BY <1>1, <1>6
       DEF CompactLatest, CompactCount, CompactMin, CompactDelete, PushLatest, PullMin,
           PullRows, SnapshotTable, Latest, LatestStore, Goto
  <2>2. QED
    BY <2>1 DEF Accounted
<1>7. CASE Answer(h) \/ Busy(h) \/ Abandon(h)
  <2>1. pc'[h] = "idle"
    BY <1>1, <1>7 DEF Answer, Busy, Abandon, Release, Goto
  <2>2. QED
    BY <2>1 DEF Accounted
<1>8. QED
  BY <1>2, <1>3, <1>4, <1>5, <1>6, <1>7 DEF Request, Statement

(* A push that was answered has every operation of its batch in the log's   *)
(* history, whatever handlers ran beside it and however often it was sent.  *)
THEOREM AnsweredPushIsCommitted == Spec => []AnsweredPushCommitted
<1> DEFINE AllAccounted == \A h \in Handler : Accounted(h)
<1>1. Init => AllAccounted
  BY DEF Init, Accounted
<1>2. ASSUME Inductive, AllAccounted, [Next]_vars PROVE AllAccounted'
  <2>1. CASE UNCHANGED vars
    BY <1>2, <2>1 DEF vars, Accounted, Behind, Inserted
  <2>2. CASE Restart
    BY <2>2 DEF Restart, Accounted
  <2>3. ASSUME NEW g \in Handler, Request(g) \/ Statement(g) \/ Abandon(g),
               NEW h \in Handler
        PROVE  Accounted(h)'
    BY <1>2, <2>3, OthersKept, OwnStepAccounts
  <2>4. QED
    BY <1>2, <2>1, <2>2, <2>3 DEF Next
<1>3. Inductive /\ AllAccounted => AnsweredPushCommitted
  <2>1. ASSUME Inductive, AllAccounted, NEW h \in Handler, pc[h] = "done",
               NEW i \in DOMAIN req[h].batch
        PROVE  \E r \in history : r.op.id = req[h].batch[i].id
    <3>1. DOMAIN req[h].batch = 1..Len(req[h].batch)
      BY <2>1 DEF Inductive, TypeOK, Requests
    <3>2. QED
      BY <2>1, <3>1 DEF Accounted, Contains
  <2>2. QED
    BY <2>1 DEF AnsweredPushCommitted
<1>4. QED
  BY <1>1, <1>2, <1>3, InductiveInvariant, PTL DEF Spec
-----------------------------------------------------------------------------
(* The numbers of the log: finitely many rows, none with another's number.  *)

RowsNumbered ==
  /\ IsFiniteSet(history) /\ IsFiniteSet(tx.inserted)
  /\ \A r, q \in history \cup tx.inserted : r.seq = q.seq => r = q

LEMMA OpenedNumbered ==
  ASSUME Inductive, RowsNumbered, NEW h \in Handler
  PROVE  /\ IsFiniteSet(Opened(h).inserted)
         /\ \A r, q \in history \cup Opened(h).inserted : r.seq = q.seq => r = q
BY FS_EmptySet DEF Opened, RowsNumbered

LEMMA InsertNumbered ==
  ASSUME Inductive, RowsNumbered, NEW h \in Handler, PushInsert(h)
  PROVE  RowsNumbered'
<1> DEFINE op == Head(reg[h].todo)
           t == Opened(h)
           new == [seq |-> t.seq + 1, op |-> op]
<1>1. /\ t \in Transactions /\ Prepared(t)
  BY OpenedPrepared DEF PushInsert
<1>2. /\ t.seq \in Nat /\ lastSeq \in Nat /\ lastSeq <= t.seq
      /\ \A r \in history : r.seq \in Nat /\ r.seq <= lastSeq
      /\ \A r \in t.inserted : r.seq \in Nat /\ r.seq <= t.seq
  BY <1>1 DEF Prepared, Transactions, Inductive, TypeOK, HistoryBelowCounter, LogRow
<1>3. /\ IsFiniteSet(t.inserted) /\ IsFiniteSet(history)
      /\ \A r, q \in history \cup t.inserted : r.seq = q.seq => r = q
  BY OpenedNumbered DEF RowsNumbered
<1>4. history' = history
  BY DEF PushInsert
<1>5. tx'.inserted = t.inserted \/ tx'.inserted = t.inserted \cup {new}
  <2>1. \/ tx' \in {t, [t EXCEPT !.seq = t.seq + 1]}
        \/ tx' = [t EXCEPT !.seq = t.seq + 1, !.inserted = @ \cup {new},
                           !.rows[op.entity] = ApplyState(@, op, t.seq + 1)]
    BY DEF PushInsert
  <2> HIDE DEF t, new, op
  <2>2. QED
    BY <1>1, <2>1 DEF Transactions
<1>6. \A r \in history \cup t.inserted : r.seq # new.seq
  BY <1>2
<1>7. IsFiniteSet(t.inserted \cup {new})
  BY <1>3, FS_AddElement
<1> HIDE DEF t, new
<1>8. QED
  BY <1>3, <1>4, <1>5, <1>6, <1>7 DEF RowsNumbered

LEMMA NextNumbered ==
  ASSUME Inductive, RowsNumbered, Next
  PROVE  RowsNumbered'
<1>1. CASE history' = history /\ (tx' = tx \/ tx' = NoTx)
  <2>1. tx'.inserted = tx.inserted \/ tx'.inserted = {}
    BY <1>1 DEF NoTx
  <2>2. QED
    BY <1>1, <2>1, FS_EmptySet DEF RowsNumbered
<1>2. ASSUME NEW h \in Handler, PushCommit(h)
      PROVE  RowsNumbered'
  <2>1. CASE tx.owner # h
    BY <1>1, <1>2, <2>1 DEF PushCommit
  <2>2. CASE tx.owner = h
    <3>1. history' = history \cup tx.inserted /\ tx'.inserted = {}
      BY <1>2, <2>2 DEF PushCommit, NoTx
    <3>2. IsFiniteSet(history \cup tx.inserted)
      BY FS_Union DEF RowsNumbered
    <3>3. QED
      BY <3>1, <3>2, FS_EmptySet DEF RowsNumbered
  <2>3. QED
    BY <2>1, <2>2
<1>3. CASE Restart
  BY <1>1, <1>3 DEF Restart
<1>4. ASSUME NEW h \in Handler, Request(h) \/ Statement(h) \/ Abandon(h), ~PushInsert(h),
             ~PushCommit(h)
      PROVE  history' = history /\ (tx' = tx \/ tx' = NoTx)
  <2>1. CASE Request(h)
    BY <2>1 DEF Request, PushStart, PullStart, SnapshotStart, Start
  <2>2. CASE Abandon(h) \/ Busy(h) \/ Answer(h)
    BY <2>2 DEF Abandon, Busy, Answer
  <2>3. CASE CompactLatest(h) \/ CompactCount(h) \/ CompactMin(h) \/ CompactDelete(h)
             \/ PushLatest(h)
    BY <2>3 DEF CompactLatest, CompactCount, CompactMin, CompactDelete, PushLatest
  <2>4. CASE PullMin(h) \/ PullRows(h) \/ SnapshotTable(h) \/ Latest(h) \/ LatestStore(h)
    BY <2>4 DEF PullMin, PullRows, SnapshotTable, Latest, LatestStore
  <2>5. QED
    BY <1>4, <2>1, <2>2, <2>3, <2>4 DEF Statement
<1>5. QED
  BY <1>1, <1>2, <1>3, <1>4, InsertNumbered DEF Next, Statement
-----------------------------------------------------------------------------
(* One handler: requests are served one after the other, and nothing comes  *)
(* between the reads of a pull or of a snapshot.                            *)

OneAtATime == \A g, h \in Handler : g = h

(* Who is at a statement serves a request of its kind.                      *)
Pushing == {"push", "compactLatest", "compactCount", "compactMin", "compactDelete", "pushLatest"}

Serves(h) ==
  /\ pc[h] \in Pushing => req[h].device = 0 /\ req[h].batch \in Batch
  /\ pc[h] \in {"pullMin", "pullRows"} => req[h].device # 0
  /\ pc[h] = "snapshotTable" => req[h].device = 0

(* What a pull knows of its page: the log goes back to its cursor, the page *)
(* is the first rows of what it wants, and it reports the last of them.     *)
PageRead(h) ==
  /\ pc[h] = "pullRows" => minAvailable <= req[h].since
  /\ pc[h] \in {"latest", "latestStore", "done"} /\ req[h].device # 0 /\ ~reg[h].required =>
       /\ minAvailable <= req[h].since
       /\ reg[h].found = FirstRows(Wanted(h), req[h].limit)
       /\ pc[h] = "done" /\ reg[h].found # {} =>
            reg[h].sequence = Max({r.seq : r \in reg[h].found})

Serial == RowsNumbered /\ \A h \in Handler : Serves(h) /\ PageRead(h)

(* The kinds of a step of the only handler, and what each changes.          *)
LEMMA ServesStep ==
  ASSUME Inductive, OneAtATime, Next, NEW h \in Handler, Serves(h)
  PROVE  Serves(h)'
<1>1. pc \in [Handler -> Labels] /\ req \in [Handler -> Requests]
  BY DEF Inductive, TypeOK
<1>2. CASE pc'[h] = "idle"
  BY <1>2 DEF Serves, Pushing
<1>3. CASE PushStart(h)
  <2>1. PICK batch \in Batch :
          pc'[h] = "push" /\ req'[h] = [NoRequest EXCEPT !.batch = batch]
    BY <1>1, <1>3 DEF PushStart, Start, Goto
  <2>2. req'[h].batch = batch /\ req'[h].device = 0
    BY <2>1 DEF NoRequest
  <2>3. QED
    BY <2>1, <2>2 DEF Serves, Pushing
<1>4. CASE PullStart(h)
  <2>1. PICK device \in Device, limit \in PullLimit, since \in {0} \cup {r.seq : r \in history} :
          Start(h, "pullMin",
                [NoRequest EXCEPT !.device = device, !.since = since, !.limit = limit], Idle)
    BY <1>4 DEF PullStart
  <2>2. req'[h].device = device /\ device # 0 /\ pc'[h] = "pullMin"
    BY <1>1, <2>1, DeviceAssumption DEF Start, Goto, NoRequest
  <2>3. QED
    BY <2>2 DEF Serves, Pushing
<1>5. CASE SnapshotStart(h)
  BY <1>1, <1>5 DEF SnapshotStart, Start, Goto, Serves, Pushing, NoRequest
<1>6. CASE req' = req /\ (pc[h] \in Pushing \/ pc'[h] \notin Pushing)
           /\ (pc[h] \in {"pullMin", "pullRows"} \/ pc'[h] \notin {"pullMin", "pullRows"})
           /\ (pc[h] = "snapshotTable" \/ pc'[h] # "snapshotTable")
  BY <1>6 DEF Serves
<1>7. CASE Restart
  BY <1>2, <1>7 DEF Restart
<1>8. CASE Abandon(h) \/ Busy(h) \/ Answer(h)
  BY <1>1, <1>2, <1>8 DEF Abandon, Busy, Answer, Release, Goto
<1>9. CASE PushInsert(h) \/ PushCommit(h)
  BY <1>1, <1>6, <1>9 DEF PushInsert, PushCommit, Goto, Pushing
<1>10. CASE CompactLatest(h) \/ CompactCount(h) \/ CompactMin(h) \/ CompactDelete(h)
            \/ PushLatest(h)
  BY <1>1, <1>6, <1>10
     DEF CompactLatest, CompactCount, CompactMin, CompactDelete, PushLatest, Goto, Pushing
<1>11. CASE PullMin(h) \/ PullRows(h) \/ SnapshotTable(h) \/ Latest(h) \/ LatestStore(h)
  BY <1>1, <1>6, <1>11 DEF PullMin, PullRows, SnapshotTable, Latest, LatestStore, Goto, Pushing
<1>12. Restart \/ Request(h) \/ Statement(h) \/ Abandon(h)
  BY DEF Next, OneAtATime
<1>13. QED
  BY <1>3, <1>4, <1>5, <1>7, <1>8, <1>9, <1>10, <1>11, <1>12 DEF Request, Statement

(* The reads of a pull.                                                     *)
Read == {"latest", "latestStore", "done"}

LEMMA PullMinRead ==
  ASSUME Inductive, NEW h \in Handler, PullMin(h)
  PROVE  PageRead(h)'
<1>1. pc \in [Handler -> Labels] /\ reg \in [Handler -> Locals] /\ reg[h] \in Locals
  BY DEF Inductive, TypeOK
<1>2. reg'[h] = [reg[h] EXCEPT !.required = req[h].since < minAvailable]
  BY <1>1 DEF PullMin
<1>3. reg'[h].required = (req[h].since < minAvailable)
  BY <1>1, <1>2 DEF Locals
<1>4. /\ pc'[h] = IF req[h].since < minAvailable THEN "latest" ELSE "pullRows"
      /\ req' = req /\ minAvailable' = minAvailable
  BY <1>1 DEF PullMin, Goto, db
<1>5. minAvailable \in Nat /\ req[h].since \in Nat
  BY DEF Inductive, TypeOK, Requests
<1>6. CASE req[h].since < minAvailable
  <2>1. reg'[h].required /\ pc'[h] = "latest"
    BY <1>3, <1>4, <1>6
  <2>2. QED
    BY <2>1 DEF PageRead
<1>7. CASE minAvailable <= req[h].since
  <2>1. pc'[h] = "pullRows" /\ minAvailable' <= req'[h].since
    BY <1>4, <1>5, <1>7
  <2>2. QED
    BY <2>1 DEF PageRead
<1>8. QED
  BY <1>5, <1>6, <1>7

LEMMA PullRowsRead ==
  ASSUME Inductive, NEW h \in Handler, PageRead(h), PullRows(h)
  PROVE  PageRead(h)'
<1>1. pc \in [Handler -> Labels] /\ reg \in [Handler -> Locals] /\ reg[h] \in Locals
  BY DEF Inductive, TypeOK
<1> DEFINE page == FirstRows(Wanted(h), req[h].limit)
           more == Cardinality(Wanted(h)) > req[h].limit
<1>2. reg'[h] = [reg[h] EXCEPT !.found = page, !.more = more]
  BY <1>1, Zenon DEF PullRows
<1>3. reg'[h].found = page
  <2> HIDE DEF page, more
  <2> QED
    BY <1>1, <1>2 DEF Locals
<1>4. /\ pc'[h] = "latest" /\ pc[h] = "pullRows"
      /\ req' = req /\ minAvailable' = minAvailable /\ log' = log
  BY <1>1 DEF PullRows, Goto, db
<1>5. FirstRows(Wanted(h), req[h].limit)' = page
  BY <1>4 DEF Wanted, FirstRows
<1>6. QED
  BY <1>3, <1>4, <1>5 DEF PageRead

(* What is read stays as it is until the answer.                            *)
LEMMA LatestRead ==
  ASSUME Inductive, NEW h \in Handler, PageRead(h), Latest(h) \/ LatestStore(h)
  PROVE  PageRead(h)'
<1>1. pc \in [Handler -> Labels] /\ reg \in [Handler -> Locals] /\ reg[h] \in Locals
  BY DEF Inductive, TypeOK
<1>2. PICK n : /\ reg'[h] = [reg[h] EXCEPT !.sequence = n]
               /\ pc'[h] = "done" /\ reg[h].found # {} =>
                    n = Max({r.seq : r \in reg[h].found})
  <2>1. CASE Latest(h)
    <3> DEFINE n == IF cached > 0 THEN Reported(h, cached) ELSE LatestSeq
    <3>1. reg'[h] = [reg[h] EXCEPT !.sequence = n]
      BY <1>1, <2>1, Zenon DEF Latest
    <3>2. pc'[h] = IF cached > 0 THEN "done" ELSE "latestStore"
      BY <1>1, <2>1, Zenon DEF Latest, Goto
    <3>3. pc'[h] = "done" /\ reg[h].found # {} => n = Max({r.seq : r \in reg[h].found})
      BY <3>2 DEF Reported
    <3> HIDE DEF n
    <3>4. QED
      BY <3>1, <3>3
  <2>2. CASE LatestStore(h)
    <3> DEFINE n == Reported(h, reg[h].sequence)
    <3>1. reg'[h] = [reg[h] EXCEPT !.sequence = n]
      BY <1>1, <2>2, Zenon DEF LatestStore
    <3>2. reg[h].found # {} => n = Max({r.seq : r \in reg[h].found})
      BY DEF Reported
    <3> HIDE DEF n
    <3>3. QED
      BY <3>1, <3>2
  <2>3. QED
    BY <2>1, <2>2
<1>3. /\ reg'[h].sequence = n /\ reg'[h].found = reg[h].found
      /\ reg'[h].required = reg[h].required
  BY <1>1, <1>2 DEF Locals
<1>4. /\ pc'[h] \in Read /\ pc[h] \in Read \ {"done"}
      /\ req' = req /\ minAvailable' = minAvailable /\ log' = log
  BY <1>1 DEF Latest, LatestStore, Goto, db, Read
<1>5. FirstRows(Wanted(h), req[h].limit)' = FirstRows(Wanted(h), req[h].limit)
  BY <1>4 DEF Wanted, FirstRows
<1>6. QED
  BY <1>2, <1>3, <1>4, <1>5 DEF PageRead, Read

LEMMA PageReadStep ==
  ASSUME Inductive, OneAtATime, Next, NEW h \in Handler, Serves(h), PageRead(h)
  PROVE  PageRead(h)'
<1>1. pc \in [Handler -> Labels]
  BY DEF Inductive, TypeOK
<1>2. CASE pc'[h] # "pullRows" /\ (pc'[h] \notin Read \/ req'[h].device = 0)
  BY <1>2 DEF PageRead, Read
<1>3. CASE Restart \/ Request(h)
  BY <1>1, <1>2, <1>3 DEF Restart, Request, PushStart, PullStart, SnapshotStart, Start, Goto, Read
<1>4. CASE Abandon(h) \/ Busy(h) \/ Answer(h)
  BY <1>1, <1>2, <1>4 DEF Abandon, Busy, Answer, Release, Goto, Read
<1>5. CASE PushInsert(h) \/ PushCommit(h)
  BY <1>1, <1>2, <1>5 DEF PushInsert, PushCommit, Goto, Read
<1>6. CASE CompactLatest(h) \/ CompactCount(h) \/ CompactMin(h) \/ CompactDelete(h)
  BY <1>1, <1>2, <1>6 DEF CompactLatest, CompactCount, CompactMin, CompactDelete, Goto, Read
<1>7. CASE PushLatest(h) \/ SnapshotTable(h)
  BY <1>1, <1>2, <1>7 DEF PushLatest, SnapshotTable, Goto, Read, Serves, Pushing
<1>8. Restart \/ Request(h) \/ Statement(h) \/ Abandon(h)
  BY DEF Next, OneAtATime
<1>9. QED
  BY <1>3, <1>4, <1>5, <1>6, <1>7, <1>8, PullMinRead, PullRowsRead, LatestRead DEF Statement

LEMMA SerialInvariant ==
  ASSUME OneAtATime
  PROVE  Spec => [](Inductive /\ Serial)
<1>1. Init => Serial
  <2> SUFFICES ASSUME Init PROVE Serial
    OBVIOUS
  <2>1. RowsNumbered
    <3>1. history = {} /\ tx.inserted = {}
      BY DEF Init, NoTx
    <3>2. QED
      BY <3>1, FS_EmptySet DEF RowsNumbered
  <2>2. ASSUME NEW h \in Handler PROVE pc[h] = "idle"
    BY DEF Init
  <2>3. QED
    BY <2>1, <2>2 DEF Serial, Serves, PageRead, Pushing
<1>2. Inductive /\ Serial /\ [Next]_vars => (Inductive /\ Serial)'
  <2> SUFFICES ASSUME Inductive, Serial, [Next]_vars PROVE (Inductive /\ Serial)'
    OBVIOUS
  <2>1. CASE UNCHANGED vars
    <3>1. RowsNumbered'
      BY <2>1 DEF Serial, RowsNumbered, vars
    <3>2. ASSUME NEW h \in Handler PROVE Serves(h)' /\ PageRead(h)'
      <4>1. Serves(h)'
        BY <2>1 DEF Serial, Serves, vars
      <4>2. FirstRows(Wanted(h), req[h].limit)' = FirstRows(Wanted(h), req[h].limit)
        BY <2>1 DEF FirstRows, Wanted, vars
      <4>3. PageRead(h)'
        BY <2>1, <4>2 DEF Serial, PageRead, vars
      <4>4. QED
        BY <4>1, <4>3
    <3>3. QED
      BY <2>1, <3>1, <3>2, StutterInductive DEF Serial
  <2>2. CASE Next
    BY <2>2, NextInductive, NextNumbered, ServesStep, PageReadStep DEF Serial
  <2>3. QED
    BY <2>1, <2>2
<1>3. QED
  BY InitInductive, <1>1, <1>2, PTL DEF Spec

(* The first rows of a page: a row that is wanted and not on a page with a  *)
(* row as late is one of those that the limit cuts off, so a page has all   *)
(* that is wanted up to its last row, and is empty only if nothing is.      *)
LEMMA PageTakesFirst ==
  ASSUME NEW W, IsFiniteSet(W), \A r \in W : r.seq \in Nat,
         \A r, q \in W : r.seq = q.seq => r = q,
         NEW n \in Nat \ {0}
  PROVE  /\ \A r \in W, q \in FirstRows(W, n) : r.seq <= q.seq => r \in FirstRows(W, n)
         /\ FirstRows(W, n) = {} => W = {}
<1> DEFINE Upto(r) == {q \in W : q.seq <= r.seq}
<1>1. \A r \in W : IsFiniteSet(Upto(r)) /\ Cardinality(Upto(r)) \in Nat
  BY FS_Subset, FS_CardinalityType
<1>2. ASSUME NEW r \in W, NEW q \in FirstRows(W, n), r.seq <= q.seq
      PROVE  r \in FirstRows(W, n)
  <2>1. q \in W /\ Cardinality(Upto(q)) <= n
    BY DEF FirstRows
  <2>2. Upto(r) \in SUBSET Upto(q)
    BY <1>2, <2>1
  <2>3. Cardinality(Upto(r)) <= Cardinality(Upto(q))
    BY <1>1, <2>1, <2>2, FS_Subset
  <2>4. Cardinality(Upto(r)) <= n
    <3> HIDE DEF Upto
    <3> QED
      BY <1>1, <2>1, <2>3
  <2>5. QED
    BY <2>4 DEF FirstRows
<1>3. ASSUME W # {} PROVE FirstRows(W, n) # {}
  <2>1. PICK r \in W : \A q \in W : r.seq <= q.seq
    <3> DEFINE T == {q.seq : q \in W}
    <3>1. T \in SUBSET Nat /\ T # {}
      BY <1>3
    <3>2. PICK t \in T : \A y \in T : t <= y
      <4> HIDE DEF T
      <4> QED
        BY <3>1, LeastOfNaturals
    <3>3. QED
      BY <3>2
  <2>2. Upto(r) = {r}
    BY <2>1
  <2>3. Cardinality(Upto(r)) = 1
    BY <2>2, FS_Singleton
  <2>4. r \in FirstRows(W, n)
    BY <2>3 DEF FirstRows
  <2>5. QED
    BY <2>4
<1>4. QED
  BY <1>2, <1>3

(* With requests served one after the other, an answer to a pull has every  *)
(* operation of another device between the cursor and the sequence that it  *)
(* reports (code: pull_operations; the horizon is read before the rows).    *)
THEOREM PullsAreComplete ==
  ASSUME OneAtATime
  PROVE  Spec => []PullComplete
<1>1. ASSUME Inductive, Serial, NEW h \in Handler, AnsweredPull(h)
      PROVE  Skipped(h) = {}
  <2> DEFINE W == Wanted(h)
             page == FirstRows(W, req[h].limit)
  <2>1. /\ minAvailable <= req[h].since /\ reg[h].found = page
        /\ page # {} => reg[h].sequence = Max({r.seq : r \in page})
    BY <1>1 DEF Serial, PageRead, AnsweredPull
  <2>2. /\ minAvailable \in Nat /\ req[h].since \in Nat /\ req[h].limit \in Nat \ {0}
        /\ lastSeq \in Nat
        /\ \A r \in history : r.seq \in Nat /\ r.seq <= lastSeq
        /\ log = {r \in history : r.seq > minAvailable}
    BY <1>1 DEF Inductive, TypeOK, Requests, LogRow, LogIsHistoryAboveHorizon,
                HistoryBelowCounter
  <2>3. W = {r \in history : r.seq > req[h].since /\ r.op.stamp.device # req[h].device}
    BY <2>1, <2>2 DEF Wanted
  <2>4. /\ IsFiniteSet(W) /\ \A r, q \in W : r.seq = q.seq => r = q
    BY <1>1, <2>3, FS_Subset DEF Serial, RowsNumbered
  <2>5. Skipped(h) = {r \in W \ page : r.seq <= reg[h].sequence}
    BY <2>1, <2>2, <2>3 DEF Skipped
  <2>6. /\ \A r \in W, q \in page : r.seq <= q.seq => r \in page
        /\ page = {} => W = {}
    BY <2>2, <2>3, <2>4, PageTakesFirst
  <2>7. CASE page = {}
    BY <2>5, <2>6, <2>7
  <2>8. CASE page # {}
    <3> DEFINE S == {r.seq : r \in page}
    <3>1. page \subseteq W
      BY DEF FirstRows
    <3>2. S \in SUBSET Nat /\ S # {} /\ \A n \in S : n <= lastSeq
      BY <2>2, <2>3, <2>8, <3>1
    <3>3. Max(S) \in S
      <4> HIDE DEF S
      <4> QED
        BY <2>2, <3>2, MaxOfBounded
    <3>4. \E q \in page : reg[h].sequence = q.seq
      BY <2>1, <2>8, <3>3
    <3>5. QED
      BY <2>5, <2>6, <3>4
  <2>9. QED
    BY <2>7, <2>8
<1>2. Inductive /\ Serial => PullComplete
  BY <1>1 DEF PullComplete
<1>3. QED
  BY <1>2, SerialInvariant, PTL
-----------------------------------------------------------------------------
(* The reads of a snapshot, one per table.                                  *)

NoEmptyPush == <<>> \notin Batch

(* The items are live rows, those of the given entities among them.         *)
LiveEntity(e) == rows[e] # NoRow /\ rows[e].deleted = "no"

ItemsAreLive(items) ==
  \A x \in items : x.entity \in Entity /\ x.row = rows[x.entity] /\ LiveEntity(x.entity)

ItemsHave(items, entities) ==
  \A e \in entities : LiveEntity(e) => \E x \in items : x.entity = e

TablesBefore(t) == UNION {Tables[u] : u \in 1..(t - 1)}

SnapshotRead(h) ==
  /\ pc[h] = "snapshotTable" =>
       ItemsAreLive(reg[h].items) /\ ItemsHave(reg[h].items, TablesBefore(reg[h].table))
  /\ pc[h] \in Read /\ req[h].device = 0 /\ req[h].batch = <<>> =>
       ItemsAreLive(reg[h].items) /\ ItemsHave(reg[h].items, Entity)

LEMMA TablesRead ==
  /\ TablesBefore(1) = {}
  /\ \A t \in 1..2 : TablesBefore(t + 1) = TablesBefore(t) \cup Tables[t]
  /\ TablesBefore(3) \cup Tables[3] = Entity
<1>1. TablesBefore(1) = {}
  BY DEF TablesBefore
<1>2. TablesBefore(2) = Repository
  <2>1. 1..(2 - 1) = {1} /\ Tables[1] = Repository
    BY DEF Tables
  <2>2. QED
    BY <2>1 DEF TablesBefore
<1>3. TablesBefore(3) = Repository \cup Memo
  <2>1. 1..(3 - 1) = {1, 2} /\ Tables[1] = Repository /\ Tables[2] = Memo
    BY DEF Tables
  <2>2. QED
    BY <2>1 DEF TablesBefore
<1>4. Tables[1] = Repository /\ Tables[2] = Memo /\ Tables[3] = Attachment
  BY DEF Tables
<1>5. QED
  BY <1>1, <1>2, <1>3, <1>4 DEF Entity

LEMMA TableRead ==
  ASSUME Inductive, NEW h \in Handler, Serves(h), SnapshotRead(h), SnapshotTable(h)
  PROVE  SnapshotRead(h)'
<1> DEFINE t == reg[h].table
           read == {[entity |-> e, row |-> rows[e]] : e \in Live(t)}
           items == reg[h].items \cup read
           next == IF t = 3 THEN 1 ELSE t + 1
<1>1. /\ pc \in [Handler -> Labels] /\ reg \in [Handler -> Locals] /\ reg[h] \in Locals
      /\ t \in 1..3
  BY DEF Inductive, TypeOK, Locals
<1>2. reg'[h] = [reg[h] EXCEPT !.items = items, !.table = next]
  BY <1>1, Zenon DEF SnapshotTable
<1>3. reg'[h].items = items /\ reg'[h].table = next
  <2> HIDE DEF items, next, t
  <2> QED
    BY <1>1, <1>2 DEF Locals
<1>4. /\ pc'[h] = (IF t = 3 THEN "latest" ELSE "snapshotTable")
      /\ rows' = rows /\ pc[h] = "snapshotTable"
  BY <1>1 DEF SnapshotTable, Goto, db
<1>5. ItemsAreLive(reg[h].items) /\ ItemsHave(reg[h].items, TablesBefore(t))
  BY <1>4 DEF SnapshotRead
<1>6. Live(t) = {e \in Tables[t] : LiveEntity(e)} /\ Tables[t] \subseteq Entity
  BY <1>1 DEF Live, LiveEntity, Tables, Entity
<1>7. ItemsAreLive(items)
  <2>1. \A x \in read : x.entity \in Entity /\ x.row = rows[x.entity] /\ LiveEntity(x.entity)
    BY <1>6
  <2>2. QED
    BY <1>5, <2>1 DEF ItemsAreLive
<1>8. ItemsHave(items, TablesBefore(t) \cup Tables[t])
  <2>1. ASSUME NEW e \in Tables[t], LiveEntity(e) PROVE \E x \in read : x.entity = e
    <3>1. [entity |-> e, row |-> rows[e]] \in read
      BY <1>6, <2>1
    <3>2. QED
      BY <3>1
  <2>2. QED
    BY <1>5, <2>1 DEF ItemsHave
<1> HIDE DEF read, items
<1>9. ItemsAreLive(reg[h].items)'
  BY <1>3, <1>4, <1>7 DEF ItemsAreLive, LiveEntity
<1>10. CASE t = 3
  <2>1. ItemsHave(items, Entity)
    BY <1>8, <1>10, TablesRead
  <2>2. ItemsHave(reg[h].items, Entity)'
    BY <1>3, <1>4, <2>1 DEF ItemsHave, LiveEntity
  <2>3. QED
    BY <1>4, <1>9, <1>10, <2>2 DEF SnapshotRead
<1>11. CASE t # 3
  <2>1. next = t + 1 /\ t \in 1..2
    BY <1>1, <1>11
  <2>2. ItemsHave(items, TablesBefore(next))
    BY <1>8, <2>1, TablesRead
  <2> HIDE DEF next
  <2>3. ItemsHave(reg[h].items, TablesBefore(reg[h].table))'
    BY <1>3, <1>4, <2>2 DEF ItemsHave, LiveEntity, TablesBefore
  <2>4. QED
    BY <1>4, <1>9, <1>11, <2>3 DEF SnapshotRead, Read
<1>12. QED
  BY <1>10, <1>11

LEMMA SnapshotReadStep ==
  ASSUME Inductive, OneAtATime, NoEmptyPush, Next, NEW h \in Handler, Serves(h), SnapshotRead(h)
  PROVE  SnapshotRead(h)'
<1>1. /\ pc \in [Handler -> Labels] /\ reg \in [Handler -> Locals] /\ reg[h] \in Locals
  BY DEF Inductive, TypeOK
<1>2. CASE /\ pc'[h] # "snapshotTable"
           /\ pc'[h] \in Read => req'[h].device # 0 \/ req'[h].batch # <<>>
  BY <1>2 DEF SnapshotRead
<1>3. CASE SnapshotStart(h)
  <2>1. pc'[h] = "snapshotTable" /\ reg'[h] = Idle
    BY <1>1, <1>3 DEF SnapshotStart, Start, Goto
  <2>2. reg'[h].items = {} /\ reg'[h].table = 1
    BY <2>1 DEF Idle
  <2>3. /\ ItemsAreLive(reg[h].items)'
        /\ ItemsHave(reg[h].items, TablesBefore(reg[h].table))'
    BY <2>2, TablesRead DEF ItemsAreLive, ItemsHave
  <2>4. QED
    BY <2>1, <2>3 DEF SnapshotRead, Read
<1>4. CASE Latest(h) \/ LatestStore(h)
  <2>1. PICK n : reg'[h] = [reg[h] EXCEPT !.sequence = n]
    BY <1>1, <1>4, Zenon DEF Latest, LatestStore
  <2>2. reg'[h].items = reg[h].items
    BY <1>1, <2>1 DEF Locals
  <2>3. pc'[h] \in Read /\ pc[h] \in Read /\ req' = req /\ rows' = rows
    BY <1>1, <1>4 DEF Latest, LatestStore, Goto, db, Read
  <2>4. /\ ItemsAreLive(reg[h].items)' <=> ItemsAreLive(reg[h].items)
        /\ ItemsHave(reg[h].items, Entity)' <=> ItemsHave(reg[h].items, Entity)
    BY <2>2, <2>3 DEF ItemsAreLive, ItemsHave, LiveEntity
  <2>5. QED
    BY <2>3, <2>4 DEF SnapshotRead, Read
<1>5. CASE Restart \/ PushStart(h) \/ PullStart(h)
  BY <1>1, <1>2, <1>5 DEF Restart, PushStart, PullStart, Start, Goto, Read
<1>6. CASE Abandon(h) \/ Busy(h) \/ Answer(h)
  BY <1>1, <1>2, <1>6 DEF Abandon, Busy, Answer, Release, Goto, Read
<1>7. CASE PushInsert(h) \/ PushCommit(h)
  BY <1>1, <1>2, <1>7 DEF PushInsert, PushCommit, Goto, Read
<1>8. CASE CompactLatest(h) \/ CompactCount(h) \/ CompactMin(h) \/ CompactDelete(h)
  BY <1>1, <1>2, <1>8 DEF CompactLatest, CompactCount, CompactMin, CompactDelete, Goto, Read
<1>9. CASE PushLatest(h) \/ PullMin(h) \/ PullRows(h)
  BY <1>1, <1>2, <1>9
     DEF PushLatest, PullMin, PullRows, Goto, Read, Serves, Pushing, NoEmptyPush
<1>10. Restart \/ Request(h) \/ Statement(h) \/ Abandon(h)
  BY DEF Next, OneAtATime
<1>11. QED
  BY <1>3, <1>4, <1>5, <1>6, <1>7, <1>8, <1>9, <1>10, TableRead DEF Statement, Request

(* With requests served one after the other, a snapshot shows the outcome of*)
(* every accepted operation: the winner's row, or the absence that a delete *)
(* at least as new has left (code: snapshot, snapshot_entities).            *)
THEOREM SnapshotsAreComplete ==
  ASSUME OneAtATime, NoEmptyPush
  PROVE  Spec => []SnapshotComplete
<1> DEFINE AllRead == \A h \in Handler : SnapshotRead(h)
<1>1. Init => AllRead
  <2> SUFFICES ASSUME Init, NEW h \in Handler PROVE SnapshotRead(h)
    OBVIOUS
  <2>1. pc[h] = "idle"
    BY DEF Init
  <2>2. QED
    BY <2>1 DEF SnapshotRead, Read
<1>2. Inductive /\ Serial /\ AllRead /\ [Next]_vars => AllRead'
  <2> SUFFICES ASSUME Inductive, Serial, AllRead, [Next]_vars, NEW h \in Handler
               PROVE  SnapshotRead(h)'
    OBVIOUS
  <2>1. CASE UNCHANGED vars
    <3>1. SnapshotRead(h)' <=> SnapshotRead(h)
      BY <2>1 DEF SnapshotRead, ItemsAreLive, ItemsHave, LiveEntity, TablesBefore, vars
    <3>2. QED
      BY <3>1
  <2>2. CASE Next
    BY <2>2, SnapshotReadStep DEF Serial
  <2>3. QED
    BY <2>1, <2>2
<1>3. Inductive /\ AllRead => SnapshotComplete
  <2> SUFFICES ASSUME Inductive, AllRead,
                      NEW h \in Handler, pc[h] = "done", req[h].device = 0, req[h].batch = <<>>,
                      NEW r \in history, r.op.kind # "patch"
               PROVE  SnapshotShows(reg[h].items, r)
    BY DEF SnapshotComplete
  <2> DEFINE e == r.op.entity
             items == reg[h].items
  <2>1. ItemsAreLive(items) /\ ItemsHave(items, Entity)
    BY DEF SnapshotRead, Read
  <2>2. r \in LogRow /\ e \in Entity /\ r.op.stamp \in Stamp
    BY OperationParts DEF Inductive, TypeOK, LogRow
  <2>3. rows[e] # NoRow /\ ~Wins(r.op.stamp, rows[e].stamp)
    BY DEF Inductive, ProjectionKeepsWinner
  <2>4. CASE LiveEntity(e)
    BY <2>1, <2>2, <2>3, <2>4 DEF ItemsAreLive, ItemsHave, SnapshotShows
  <2>5. CASE ~LiveEntity(e)
    <3>1. rows[e].deleted = "yes"
      BY <2>2, <2>3, <2>5 DEF LiveEntity, Inductive, TypeOK, Table, StateRow, Flag
    <3>2. PICK q \in history : /\ q.op.entity = e /\ q.op.stamp = rows[e].stamp
                               /\ q.op.deleted # "no"
      BY <2>2, <2>3, <3>1 DEF Inductive, ProjectionFromHistory
    <3>3. \A x \in items : x.entity # e
      BY <2>1, <2>5 DEF ItemsAreLive
    <3>4. QED
      BY <2>3, <3>2, <3>3 DEF SnapshotShows
  <2>6. QED
    BY <2>4, <2>5
<1> HIDE DEF AllRead
<1>4. QED
  BY <1>1, <1>2, <1>3, SerialInvariant, PTL DEF Spec
-----------------------------------------------------------------------------
(* The document that the library would hold, next to the projection.        *)

Entry == Versioned \cup {NoRow}

LEMMA AppliedTyped ==
  ASSUME NEW entry \in Entry, NEW op \in Operation
  PROVE  Applied(entry, op) \in Entry
<1>1. /\ op.stamp \in Stamp /\ op.kind \in {"upsert", "patch", "delete"}
      /\ op.kind = "upsert" => op.content \in Content /\ op.deleted \in Flag
      /\ op.kind = "patch" => op.content \in Patch /\ op.deleted \in Flag \cup {"unset"}
  BY OperationParts
<1>2. \A c \in Content, d \in Flag : Version(c, d, op) \in Versioned
  BY <1>1 DEF Version, Versioned
<1>3. entry # NoRow => entry.content \in Content /\ entry.deleted \in Flag
  BY DEF Entry, Versioned
<1>4. CASE op.kind = "upsert"
  BY <1>1, <1>2, <1>4 DEF Applied, Merged, Entry
<1>5. CASE op.kind = "patch" /\ Existing(entry, op)
  <2> DEFINE c == Patched(entry.content, op.content)
             d == IF op.deleted = "unset" THEN entry.deleted ELSE op.deleted
  <2>1. Applied(entry, op) = Version(c, d, op)
    BY <1>5 DEF Applied
  <2>2. c \in Content /\ d \in Flag
    BY <1>1, <1>3, <1>5, PatchedType DEF Existing
  <2> HIDE DEF c, d
  <2>3. QED
    BY <1>2, <2>1, <2>2 DEF Entry
<1>6. CASE op.kind = "delete" /\ Existing(entry, op)
  <2>1. Applied(entry, op) = Version(entry.content, "yes", op)
    BY <1>6 DEF Applied
  <2>2. QED
    BY <1>2, <1>3, <1>6, <2>1 DEF Existing, Entry, Flag
<1>7. CASE op.kind # "upsert" /\ ~Existing(entry, op)
  BY <1>7 DEF Applied
<1>8. QED
  BY <1>1, <1>4, <1>5, <1>6, <1>7

LEMMA TakenTyped ==
  ASSUME NEW H \in SUBSET LogRow, NEW e, NEW i, NEW entry \in Entry
  PROVE  Taken(H, e, i, entry) \in Entry
<1> DEFINE here == {r \in H : r.seq = i /\ r.op.entity = e}
           last == CHOOSE r \in here : TRUE
<1>1. Taken(H, e, i, entry) = IF here = {} THEN entry ELSE Applied(entry, last.op)
  BY DEF Taken
<1>2. here # {} => last \in LogRow
  OBVIOUS
<1> HIDE DEF here, last
<1>3. here # {} => Applied(entry, last.op) \in Entry
  BY <1>2, AppliedTyped DEF LogRow
<1>4. QED
  BY <1>1, <1>3

(* The entries after each number, one from the other.                       *)
Follows(f, H, e, n) ==
  /\ f[0] = NoRow
  /\ \A i \in 1..n : f[i] = Taken(H, e, i, f[i - 1])

LEMMA DocumentFollows ==
  ASSUME NEW H \in SUBSET LogRow, NEW e, NEW n \in Nat
  PROVE  \E f \in [0..n -> Entry] : Follows(f, H, e, n) /\ f[n] = Document(H, e, n)
<1> DEFINE step == [i \in 1..n |-> [entry \in Entry |-> Taken(H, e, i, entry)]]
<1>1. step \in [1..n -> [Entry -> Entry]] /\ NoRow \in Entry
  BY TakenTyped DEF Entry
<1>2. PICK f \in [0..n -> Entry] : Steps(f, n, NoRow, step)
  <2> HIDE DEF step
  <2>1. QED
    BY <1>1, StepsExist
<1>3. \A i \in 1..n : i - 1 \in 0..n /\ i \in 0..n /\ i # 0
  OBVIOUS
<1>4. \A i \in 1..n : step[i][f[i - 1]] = Taken(H, e, i, f[i - 1])
  BY <1>3
<1>5. f = [i \in 0..n |-> IF i = 0 THEN NoRow ELSE Taken(H, e, i, f[i - 1])]
  <2>1. \A i \in 0..n : i # 0 => i \in 1..n
    OBVIOUS
  <2> HIDE DEF step
  <2>2. \A i \in 0..n : f[i] = IF i = 0 THEN NoRow ELSE Taken(H, e, i, f[i - 1])
    BY <1>2, <1>4, <2>1 DEF Steps
  <2>3. QED
    BY <2>2
<1> DEFINE g == CHOOSE h : h = [i \in 0..n |-> IF i = 0 THEN NoRow ELSE Taken(H, e, i, h[i - 1])]
<1>6. g = [i \in 0..n |-> IF i = 0 THEN NoRow ELSE Taken(H, e, i, g[i - 1])]
  BY <1>5, Zenon
<1>7. Document(H, e, n) = g[n]
  BY Zenon DEF Document
<1> HIDE DEF g
<1>8. 0 \in 0..n /\ n \in 0..n
  OBVIOUS
<1>9. g[0] = NoRow /\ \A i \in 1..n : g[i] = Taken(H, e, i, g[i - 1])
  BY <1>3, <1>6, <1>8
<1>10. \A i \in 0..n : g[i] \in Entry
  <2>1. g[0] \in Entry
    BY <1>1, <1>9
  <2>2. \A i \in 1..n : g[i - 1] \in Entry => g[i] \in Entry
    BY <1>9, TakenTyped
  <2>3. QED
    BY <2>1, <2>2, StepsStay
<1>11. g \in [0..n -> Entry]
  BY <1>6, <1>10
<1>12. QED
  BY <1>7, <1>9, <1>11 DEF Follows

Numbered(here, entry) ==
  IF here = {} THEN entry ELSE Applied(entry, (CHOOSE r \in here : TRUE).op)

(* What is numbered later does not matter.                                  *)
LEMMA SamePrefix ==
  ASSUME NEW H \in SUBSET LogRow, NEW K \in SUBSET LogRow, NEW e, NEW n \in Nat,
         \A r \in LogRow : r.seq <= n => (r \in H <=> r \in K),
         NEW f, NEW g, Follows(f, H, e, n), Follows(g, K, e, n)
  PROVE  f[n] = g[n]
<1> DEFINE A == {i \in Nat : i <= n => f[i] = g[i]}
<1>1. 0 \in A
  BY DEF Follows
<1>2. ASSUME NEW i \in Nat, i \in A PROVE i + 1 \in A
  <2>1. SUFFICES ASSUME i + 1 <= n PROVE f[i + 1] = g[i + 1]
    OBVIOUS
  <2> DEFINE k == i + 1
             ofH == {r \in H : r.seq = k /\ r.op.entity = e}
             ofK == {r \in K : r.seq = k /\ r.op.entity = e}
  <2>2. k \in 1..n /\ k - 1 = i /\ f[i] = g[i] /\ k <= n
    BY <1>2, <2>1
  <2>3. ofH = ofK
    <3> HIDE DEF k
    <3>1. \A r \in LogRow : r.seq = k => (r \in H <=> r \in K)
      BY <2>2
    <3>2. QED
      BY <3>1
  <2>4. Taken(H, e, k, f[i]) = Taken(K, e, k, f[i])
    <3>1. Taken(H, e, k, f[i]) = Numbered(ofH, f[i]) /\ Taken(K, e, k, f[i]) = Numbered(ofK, f[i])
      BY DEF Taken, Numbered
    <3> HIDE DEF ofH, ofK
    <3>2. QED
      BY <2>3, <3>1
  <2> HIDE DEF k
  <2>5. f[k] = g[k]
    BY <2>2, <2>4 DEF Follows
  <2>6. QED
    BY <2>5 DEF k
<1> HIDE DEF A
<1>3. Nat \subseteq A
  BY <1>1, <1>2, NumbersByInduction
<1>4. QED
  BY <1>3 DEF A

(* One more number: the entry is taken on from the one before.              *)
LEMMA DocumentNext ==
  ASSUME NEW H \in SUBSET LogRow, NEW K \in SUBSET LogRow, NEW e, NEW n \in Nat,
         \A r \in LogRow : r.seq <= n => (r \in H <=> r \in K)
  PROVE  Document(K, e, n + 1) = Taken(K, e, n + 1, Document(H, e, n))
<1>1. PICK f \in [0..n -> Entry] : Follows(f, H, e, n) /\ f[n] = Document(H, e, n)
  BY DocumentFollows
<1>2. n + 1 \in Nat
  OBVIOUS
<1>3. PICK g \in [0..n + 1 -> Entry] : Follows(g, K, e, n + 1) /\ g[n + 1] = Document(K, e, n + 1)
  BY <1>2, DocumentFollows
<1>4. \A i \in 1..n : i \in 1..n + 1
  OBVIOUS
<1>5. Follows(g, K, e, n)
  BY <1>3, <1>4 DEF Follows
<1>6. f[n] = g[n]
  BY <1>1, <1>5, SamePrefix
<1>7. n + 1 \in 1..n + 1 /\ (n + 1) - 1 = n
  OBVIOUS
<1>8. g[n + 1] = Taken(K, e, n + 1, g[n])
  BY <1>3, <1>7 DEF Follows
<1>9. QED
  BY <1>1, <1>3, <1>6, <1>8

LEMMA DocumentOfNothing ==
  ASSUME NEW e
  PROVE  Document({}, e, 0) = NoRow
<1>1. {} \in SUBSET LogRow /\ 0 \in Nat
  OBVIOUS
<1>2. PICK f \in [0..0 -> Entry] : Follows(f, {}, e, 0) /\ f[0] = Document({}, e, 0)
  BY <1>1, DocumentFollows
<1>3. QED
  BY <1>2 DEF Follows

(* One operation does the same to an entry and to the row it shows, unless  *)
(* it deletes what is not there.                                            *)
LEMMA ShownTyped ==
  ASSUME NEW row \in StateRow \cup {NoRow}, row # NoRow => row.content \in Content
  PROVE  /\ Shown(row) \in Entry /\ (Shown(row) = NoRow) = (row = NoRow)
         /\ row # NoRow =>
              /\ Shown(row).content = row.content /\ Shown(row).deleted = row.deleted
              /\ Shown(row).stamp = row.stamp
<1>1. CASE row = NoRow
  BY <1>1 DEF Shown, Entry
<1>2. CASE row # NoRow
  <2> DEFINE entry == [content |-> row.content, deleted |-> row.deleted, stamp |-> row.stamp]
  <2>1. Shown(row) = entry
    BY <1>2 DEF Shown
  <2>2. entry \in Versioned
    BY <1>2 DEF StateRow, Versioned
  <2>3. entry # NoRow
    BY <2>2, NotVersionedAssumption
  <2>4. QED
    BY <1>2, <2>1, <2>2, <2>3 DEF Entry
<1>3. QED
  BY <1>1, <1>2

LEMMA AppliedAgrees ==
  ASSUME NEW row \in StateRow \cup {NoRow}, row # NoRow => row.content \in Content,
         NEW op \in Operation, row = NoRow => op.kind # "delete", NEW n \in Nat,
         NEW new, new = ApplyState(row, op, n)
  PROVE  /\ Applied(Shown(row), op) = Shown(new)
         /\ new = NoRow => row = NoRow /\ op.kind = "patch"
         /\ new # NoRow => new.content \in Content
<1> DEFINE entry == Shown(row)
<1>1. /\ op.stamp \in Stamp /\ op.kind \in {"upsert", "patch", "delete"}
      /\ op.kind = "upsert" => op.content \in Content /\ op.deleted \in Flag
      /\ op.kind = "patch" => op.content \in Patch /\ op.deleted \in Flag \cup {"unset"}
  BY OperationParts
<1>2. /\ (entry = NoRow) = (row = NoRow)
      /\ row # NoRow => entry.content = row.content /\ entry.deleted = row.deleted
                        /\ entry.stamp = row.stamp
  BY ShownTyped
<1> HIDE DEF entry
<1>3. ASSUME NEW c \in Content, NEW d \in Flag, new = StateRowOf(c, d, op, n)
      PROVE  Shown(new) = Version(c, d, op) /\ new # NoRow /\ new.content \in Content
  <2>1. new = [content |-> c, deleted |-> d, stamp |-> op.stamp, seq |-> n]
    BY <1>3 DEF StateRowOf
  <2>2. new \in StateRow
    BY <1>1, <2>1 DEF StateRow
  <2>3. new # NoRow
    BY <2>2, NoRowAssumption
  <2>4. new.content = c /\ new.deleted = d /\ new.stamp = op.stamp
    BY <2>1
  <2> HIDE <1>3
  <2>5. Shown(new) = [content |-> c, deleted |-> d, stamp |-> op.stamp]
    BY <2>3, <2>4 DEF Shown
  <2>6. QED
    BY <2>3, <2>4, <2>5 DEF Version
<1>4. CASE ~StateWins(row, op)
  <2>1. new = row /\ row # NoRow /\ ~Wins(op.stamp, row.stamp)
    BY <1>4 DEF ApplyState, StateWins
  <2>2. entry # NoRow /\ ~Wins(op.stamp, entry.stamp)
    BY <1>2, <2>1
  <2>3. Applied(entry, op) = entry
    BY <2>2 DEF Applied, Merged, Existing
  <2>4. QED
    BY <2>1, <2>3 DEF entry
<1>5. CASE StateWins(row, op) /\ op.kind = "upsert"
  <2>1. new = StateRowOf(op.content, op.deleted, op, n)
    BY <1>5 DEF ApplyState
  <2>2. entry = NoRow \/ Wins(op.stamp, entry.stamp)
    BY <1>2, <1>5 DEF StateWins
  <2>3. Applied(entry, op) = Version(op.content, op.deleted, op)
    BY <1>5, <2>2 DEF Applied, Merged
  <2>4. QED
    BY <1>1, <1>3, <1>5, <2>1, <2>3 DEF entry
<1>6. CASE StateWins(row, op) /\ op.kind = "delete"
  <2>1. row # NoRow /\ new = StateRowOf(row.content, "yes", op, n)
    BY <1>6 DEF ApplyState
  <2>2. Existing(entry, op)
    BY <1>2, <1>6, <2>1 DEF StateWins, Existing
  <2>3. Applied(entry, op) = Version(row.content, "yes", op)
    BY <1>2, <1>6, <2>1, <2>2 DEF Applied
  <2>4. row.content \in Content /\ "yes" \in Flag
    BY <2>1 DEF Flag
  <2>5. QED
    BY <1>3, <2>1, <2>3, <2>4 DEF entry
<1>7. CASE StateWins(row, op) /\ op.kind = "patch" /\ row = NoRow
  <2>1. new = NoRow
    BY <1>7 DEF ApplyState
  <2>2. Applied(entry, op) = entry
    BY <1>2, <1>7 DEF Applied, Existing
  <2>3. QED
    BY <1>7, <2>1, <2>2 DEF entry
<1>8. CASE StateWins(row, op) /\ op.kind = "patch" /\ row # NoRow
  <2> DEFINE c == Patched(row.content, op.content)
             d == IF op.deleted = "unset" THEN row.deleted ELSE op.deleted
  <2>1. row.content \in Content /\ row.content # NoContent /\ row.deleted \in Flag
    BY <1>8, NoContentAssumption DEF StateRow
  <2>2. new = StateRowOf(c, d, op, n)
    BY <1>8, <2>1 DEF ApplyState
  <2>3. Existing(entry, op)
    BY <1>2, <1>8 DEF StateWins, Existing
  <2>4. Applied(entry, op) = Version(c, d, op)
    BY <1>2, <1>8, <2>3 DEF Applied
  <2>5. c \in Content /\ d \in Flag
    BY <1>1, <1>8, <2>1, PatchedType
  <2> HIDE DEF c, d
  <2>6. QED
    BY <1>3, <2>2, <2>4, <2>5 DEF entry
<1>9. QED
  BY <1>1, <1>4, <1>5, <1>6, <1>7, <1>8

(* Document and projection agree about e after the operations of H, which   *)
(* are numbered up to n.                                                    *)
Agrees(H, e, n, row) ==
  ~DeletedFirst(H, e) =>
    /\ Document(H, e, n) = Shown(row)
    /\ row = NoRow => \A r \in H : r.op.entity = e => r.op.kind = "patch"
    /\ row # NoRow => row.content \in Content

LEMMA NumberPassed ==
  ASSUME NEW H \in SUBSET LogRow, NEW e \in Entity, NEW n \in Nat, NEW row,
         \A r \in H : r.seq <= n, Agrees(H, e, n, row)
  PROVE  Agrees(H, e, n + 1, row)
<1> DEFINE here == {r \in H : r.seq = n + 1 /\ r.op.entity = e}
<1>1. here = {}
  BY DEF LogRow
<1>2. Taken(H, e, n + 1, Document(H, e, n)) = Document(H, e, n)
  <2>1. Taken(H, e, n + 1, Document(H, e, n)) = Numbered(here, Document(H, e, n))
    BY DEF Taken, Numbered
  <2> HIDE DEF here
  <2>2. QED
    BY <1>1, <2>1 DEF Numbered
<1>3. Document(H, e, n + 1) = Document(H, e, n)
  BY <1>2, DocumentNext
<1>4. QED
  BY <1>3 DEF Agrees

LEMMA OperationTaken ==
  ASSUME NEW H \in SUBSET LogRow, NEW e \in Entity, NEW n \in Nat,
         NEW row \in StateRow \cup {NoRow},
         \A r \in H : r.seq <= n, Agrees(H, e, n, row),
         NEW op \in Operation, NEW new, new = [seq |-> n + 1, op |-> op],
         NEW after, after = IF op.entity = e THEN ApplyState(row, op, n + 1) ELSE row
  PROVE  Agrees(H \cup {new}, e, n + 1, after)
<1> DEFINE K == H \cup {new}
           here == {r \in K : r.seq = n + 1 /\ r.op.entity = e}
<1>1. /\ new \in LogRow /\ new.seq = n + 1 /\ new.op = op /\ K \in SUBSET LogRow
      /\ \A r \in H : r.seq \in Nat
  BY DEF LogRow
<1>2. \A r \in H : r.seq # n + 1 /\ r # new /\ r.seq < new.seq
  BY <1>1
<1>3. Document(K, e, n + 1) = Numbered(here, Document(H, e, n))
  <2>1. \A r \in LogRow : r.seq <= n => (r \in H <=> r \in K)
    BY <1>1
  <2>2. Document(K, e, n + 1) = Taken(K, e, n + 1, Document(H, e, n))
    BY <1>1, <2>1, DocumentNext
  <2>3. QED
    BY <2>2 DEF Taken, Numbered
<1>4. here = IF op.entity = e THEN {new} ELSE {}
  BY <1>1, <1>2
<1>5. ~DeletedFirst(K, e) => ~DeletedFirst(H, e)
  <2>1. SUFFICES ASSUME NEW r \in H, r.op.entity = e, r.op.kind = "delete",
                        \A q \in H : q.op.entity = e /\ q.seq < r.seq => q.op.kind = "patch"
                 PROVE  DeletedFirst(K, e)
    BY DEF DeletedFirst
  <2>2. ~(new.seq < r.seq)
    BY <1>1, <1>2
  <2>3. QED
    BY <2>1, <2>2 DEF DeletedFirst
<1>6. SUFFICES ASSUME ~DeletedFirst(K, e)
               PROVE  /\ Document(K, e, n + 1) = Shown(after)
                      /\ after = NoRow => \A r \in K : r.op.entity = e => r.op.kind = "patch"
                      /\ after # NoRow => after.content \in Content
  BY DEF Agrees
<1>7. /\ Document(H, e, n) = Shown(row)
      /\ row = NoRow => \A r \in H : r.op.entity = e => r.op.kind = "patch"
      /\ row # NoRow => row.content \in Content
  BY <1>5, <1>6 DEF Agrees
<1>8. CASE op.entity # e
  <2>1. after = row /\ here = {}
    BY <1>4, <1>8
  <2> HIDE DEF here
  <2>2. Document(K, e, n + 1) = Document(H, e, n)
    BY <1>3, <2>1 DEF Numbered
  <2>3. QED
    BY <1>1, <1>7, <1>8, <2>1, <2>2
<1>9. CASE op.entity = e
  <2>1. after = ApplyState(row, op, n + 1) /\ here = {new} /\ n + 1 \in Nat
    BY <1>4, <1>9
  <2> HIDE DEF here
  <2>2. Document(K, e, n + 1) = Applied(Shown(row), op)
    <3>1. (CHOOSE r \in {new} : TRUE) = new
      OBVIOUS
    <3>2. QED
      BY <1>1, <1>3, <1>7, <2>1, <3>1 DEF Numbered
  <2>3. row = NoRow => op.kind # "delete"
    <3>1. SUFFICES ASSUME row = NoRow, op.kind = "delete" PROVE FALSE
      OBVIOUS
    <3>2. \A q \in K : q.op.entity = e /\ q.seq < new.seq => q.op.kind = "patch"
      BY <1>1, <1>7, <3>1
    <3>3. DeletedFirst(K, e)
      BY <1>1, <1>9, <3>1, <3>2 DEF DeletedFirst
    <3>4. QED
      BY <1>6, <3>3
  <2>4. /\ Applied(Shown(row), op) = Shown(after)
        /\ after = NoRow => row = NoRow /\ op.kind = "patch"
        /\ after # NoRow => after.content \in Content
    BY <1>7, <2>1, <2>3, AppliedAgrees
  <2>5. QED
    BY <1>1, <1>7, <2>2, <2>4
<1>10. QED
  BY <1>8, <1>9

(* What a transaction has prepared, the document would take as well.        *)
Documents ==
  /\ \A e \in Entity : Agrees(history, e, lastSeq, rows[e])
  /\ tx.owner # NoHandler =>
       \A e \in Entity : Agrees(history \cup tx.inserted, e, tx.seq, tx.rows[e])

LEMMA InsertAgrees ==
  ASSUME Inductive, Documents, NEW h \in Handler, PushInsert(h)
  PROVE  Documents'
<1> DEFINE op == Head(reg[h].todo)
           t == Opened(h)
           new == [seq |-> t.seq + 1, op |-> op]
           H == history \cup t.inserted
<1>1. t \in Transactions /\ Prepared(t) /\ UNCHANGED <<history, lastSeq, rows>>
  BY OpenedPrepared DEF PushInsert, db
<1>2. /\ H \in SUBSET LogRow /\ t.seq \in Nat /\ t.rows \in Table
      /\ \A r \in H : r.seq <= t.seq
  <2>1. /\ lastSeq \in Nat /\ t.seq \in Nat /\ lastSeq <= t.seq
        /\ \A r \in history : r.seq \in Nat /\ r.seq <= lastSeq
        /\ \A r \in t.inserted : r.seq \in Nat /\ r.seq <= t.seq
    BY <1>1 DEF Prepared, Transactions, Inductive, TypeOK, HistoryBelowCounter, LogRow
  <2>2. t.inserted \in SUBSET LogRow /\ t.rows \in Table /\ history \in SUBSET LogRow
    BY <1>1 DEF Transactions, Inductive, TypeOK
  <2> HIDE DEF t
  <2>3. QED
    BY <2>1, <2>2
<1>3. \A e \in Entity : Agrees(H, e, t.seq, t.rows[e])
  <2>1. CASE tx.owner = h
    BY <2>1, HandlerAssumption DEF Opened, Documents
  <2>2. CASE tx.owner # h
    <3>1. t.inserted = {} /\ t.seq = lastSeq /\ t.rows = rows
      BY <2>2 DEF Opened
    <3> HIDE DEF t
    <3>2. H = history
      BY <3>1
    <3>3. QED
      BY <3>1, <3>2 DEF Documents
  <2>3. QED
    BY <2>1, <2>2
<1>4. op \in Operation
  <2>1. reg[h].todo \in Seq(Operation) /\ reg[h].todo # <<>>
    BY LocalsSound DEF PushInsert, Sound, Locals
  <2>2. QED
    BY <2>1
<1>5. \A e \in Entity : Agrees(H \cup (tx'.inserted \ t.inserted), e, tx'.seq, tx'.rows[e])
                        /\ history' \cup tx'.inserted = H \cup (tx'.inserted \ t.inserted)
  <2>1. CASE tx' = t
    <3>1. tx'.inserted \ t.inserted = {} /\ tx'.inserted = t.inserted
      BY <2>1
    <3> HIDE DEF t
    <3>2. QED
      BY <1>1, <1>3, <2>1, <3>1
  <2>2. CASE tx' = [t EXCEPT !.seq = t.seq + 1]
    <3>1. tx'.inserted = t.inserted /\ tx'.seq = t.seq + 1 /\ tx'.rows = t.rows
      <4> HIDE DEF t
      <4>1. QED
        BY <1>1, <2>2 DEF Transactions
    <3> HIDE DEF t
    <3>2. \A e \in Entity : Agrees(H, e, t.seq + 1, t.rows[e])
      <4> HIDE DEF H
      <4>1. QED
        BY <1>2, <1>3, NumberPassed
    <3>3. H \cup (tx'.inserted \ t.inserted) = H /\ history' \cup tx'.inserted = H
      BY <1>1, <3>1
    <3>4. QED
      BY <3>1, <3>2, <3>3
  <2>3. CASE tx' = [t EXCEPT !.seq = t.seq + 1, !.inserted = t.inserted \cup {new},
                             !.rows = [t.rows EXCEPT ![op.entity] =
                                         ApplyState(t.rows[op.entity], op, t.seq + 1)]]
    <3> DEFINE row(e) == IF op.entity = e THEN ApplyState(t.rows[e], op, t.seq + 1) ELSE t.rows[e]
    <3>1. /\ tx'.inserted = t.inserted \cup {new} /\ tx'.seq = t.seq + 1
          /\ tx'.rows = [t.rows EXCEPT ![op.entity] =
                           ApplyState(t.rows[op.entity], op, t.seq + 1)]
      <4> HIDE DEF t, op, new
      <4>1. QED
        BY <1>1, <2>3 DEF Transactions
    <3> HIDE DEF t, op
    <3>2. \A e \in Entity : tx'.rows[e] = row(e)
      BY <1>2, <3>1 DEF Table
    <3>3. new = [seq |-> t.seq + 1, op |-> op]
      OBVIOUS
    <3> HIDE DEF new
    <3>4. ASSUME NEW e \in Entity PROVE Agrees(H \cup {new}, e, t.seq + 1, row(e))
      <4>1. t.rows[e] \in StateRow \cup {NoRow} /\ Agrees(H, e, t.seq, t.rows[e])
        BY <1>2, <1>3 DEF Table
      <4> HIDE DEF H
      <4>2. row(e) = IF op.entity = e THEN ApplyState(t.rows[e], op, t.seq + 1) ELSE t.rows[e]
        OBVIOUS
      <4> HIDE DEF row
      <4>3. QED
        BY <1>2, <1>4, <3>3, <4>1, <4>2, OperationTaken
    <3> HIDE DEF row
    <3>5. /\ H \cup (tx'.inserted \ t.inserted) = H \cup {new}
          /\ history' \cup tx'.inserted = H \cup {new}
      BY <1>1, <3>1
    <3>6. QED
      BY <3>1, <3>2, <3>4, <3>5
  <2>4. QED
    BY <2>1, <2>2, <2>3 DEF PushInsert
<1>6. QED
  BY <1>1, <1>5 DEF Documents

LEMMA NextAgrees ==
  ASSUME Inductive, Documents, Next
  PROVE  Documents'
<1>1. CASE UNCHANGED <<history, lastSeq, rows>> /\ (tx' = tx \/ tx' = NoTx)
  BY <1>1 DEF Documents, NoTx
<1>2. ASSUME NEW h \in Handler, PushCommit(h)
      PROVE  Documents'
  <2>1. CASE tx.owner # h
    BY <1>1, <1>2, <2>1 DEF PushCommit
  <2>2. CASE tx.owner = h
    <3>1. /\ history' = history \cup tx.inserted /\ rows' = tx.rows /\ lastSeq' = tx.seq
          /\ tx'.owner = NoHandler
      BY <1>2, <2>2 DEF PushCommit, NoTx
    <3>2. QED
      BY <2>2, <3>1, HandlerAssumption DEF Documents
  <2>3. QED
    BY <2>1, <2>2
<1>3. CASE Restart
  BY <1>1, <1>3 DEF Restart, db
<1>4. ASSUME NEW h \in Handler, Request(h) \/ Statement(h) \/ Abandon(h), ~PushInsert(h),
             ~PushCommit(h)
      PROVE  UNCHANGED <<history, lastSeq, rows>> /\ (tx' = tx \/ tx' = NoTx)
  <2>1. CASE Request(h)
    BY <2>1 DEF Request, PushStart, PullStart, SnapshotStart, Start, db
  <2>2. CASE Abandon(h) \/ Busy(h) \/ Answer(h)
    BY <2>2 DEF Abandon, Busy, Answer, db
  <2>3. CASE CompactLatest(h) \/ CompactCount(h) \/ CompactMin(h) \/ CompactDelete(h)
             \/ PushLatest(h)
    BY <2>3 DEF CompactLatest, CompactCount, CompactMin, CompactDelete, PushLatest, db
  <2>4. CASE PullMin(h) \/ PullRows(h) \/ SnapshotTable(h) \/ Latest(h) \/ LatestStore(h)
    BY <2>4 DEF PullMin, PullRows, SnapshotTable, Latest, LatestStore, db
  <2>5. QED
    BY <1>4, <2>1, <2>2, <2>3, <2>4 DEF Statement
<1>5. QED
  BY <1>1, <1>2, <1>3, <1>4, InsertAgrees DEF Next, Statement

(* After every commit, restart and compaction the projection of an entity   *)
(* is what the library's document makes of the accepted operations in their *)
(* order, unless the entity's delete came first (code:                      *)
(* apply_state_operation and SyncDocument::apply, two statements of one     *)
(* merge rule).                                                             *)
THEOREM DocumentsAgree == Spec => []DocumentAgrees
<1>1. Init => Documents
  <2>1. SUFFICES ASSUME Init PROVE Documents
    OBVIOUS
  <2>2. history = {} /\ lastSeq = 0 /\ tx.owner = NoHandler /\ \A e \in Entity : rows[e] = NoRow
    BY <2>1 DEF Init, NoTx
  <2>3. \A e \in Entity : Agrees(history, e, lastSeq, rows[e])
    BY <2>2, DocumentOfNothing DEF Agrees, Shown
  <2>4. QED
    BY <2>2, <2>3 DEF Documents
<1>2. Inductive /\ Documents /\ [Next]_vars => Documents'
  <2>1. SUFFICES ASSUME Inductive, Documents, UNCHANGED vars PROVE Documents'
    BY NextAgrees
  <2>2. QED
    BY <2>1 DEF Documents, vars
<1>3. Documents => DocumentAgrees
  BY DEF Documents, DocumentAgrees, Agrees
<1>4. QED
  BY <1>1, <1>2, <1>3, InductiveInvariant, PTL DEF Spec
=============================================================================
