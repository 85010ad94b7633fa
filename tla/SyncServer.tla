----------------------------- MODULE SyncServer -----------------------------
(***************************************************************************)
(* The sync server at the grain of its SQL statements.  Handler tasks run  *)
(* push, pull and snapshot requests concurrently over one WAL database:    *)
(* a write transaction is invisible to the others until it commits, every  *)
(* read outside a transaction is a snapshot of its own, and a handler can  *)
(* be dropped between any two statements (a client that disconnects, an    *)
(* error of a later statement, a restart).                                 *)
(***************************************************************************)
EXTENDS Projection, Integers, Sequences, FiniteSetsExt

CONSTANTS
  Handler,       \* request tasks that may be running at one time
  NoHandler,     \* the write lock is free
  Batch,         \* the operation lists that clients push
  PullLimit,     \* the limits that clients pull with
  CompactAfter,  \* COMPACT_OPERATION_LOG_AFTER
  Retain,        \* COMPACT_OPERATION_LOG_RETAIN
  MaxSeq         \* bound: no push starts once it could pass this sequence

ASSUME HandlerAssumption == NoHandler \notin Handler
ASSUME RequestAssumption == Batch \subseteq Seq(Operation) /\ PullLimit \subseteq Nat \ {0}
ASSUME CompactionAssumption == CompactAfter \in Nat /\ Retain \in Nat \ {0}
ASSUME BoundAssumption == MaxSeq \in Nat

VARIABLES
  log,           \* operation_log: a set of rows [seq, op]
  rows,          \* repository_state, memo_state, attachment_state
  lastSeq,       \* sqlite_sequence of operation_log (AUTOINCREMENT)
  minAvailable,  \* sync_meta.min_available_sequence
  cached,        \* AppState.latest_sequence, in memory
  tx,            \* the open write transaction, if any
  pc,            \* the statement each handler runs next
  req,           \* the request each handler serves
  reg,           \* each handler's local variables
  history        \* every log row ever committed (never read by the code)

db   == <<log, rows, lastSeq, minAvailable>>
vars == <<log, rows, lastSeq, minAvailable, cached, tx, pc, req, reg, history>>

LogRow == [seq: Nat \ {0}, op: Operation]
SnapshotItem == [entity: Entity, row: StateRow]

NoTx == [owner |-> NoHandler, inserted |-> {}, rows |-> [e \in Entity |-> NoRow], seq |-> 0]

(* Locals of the three handlers: operations still to insert, how many were *)
(* accepted, a sequence number read, the rows or items read, the table to  *)
(* read next, has_more and snapshot_required.                              *)
Idle == [todo |-> <<>>, accepted |-> 0, sequence |-> 0, found |-> {}, items |-> {},
         table |-> 1, more |-> FALSE, required |-> FALSE]

NoRequest == [batch |-> <<>>, device |-> 0, since |-> 0, limit |-> 1]

LatestSeq == Max({0} \cup {r.seq : r \in log}
                     \cup {rows[e].seq : e \in {x \in Entity : rows[x] # NoRow}})

Init ==
  /\ log = {} /\ rows = [e \in Entity |-> NoRow]
  /\ lastSeq = 0 /\ minAvailable = 0 /\ cached = 0
  /\ tx = NoTx
  /\ pc = [h \in Handler |-> "idle"]
  /\ req = [h \in Handler |-> NoRequest]
  /\ reg = [h \in Handler |-> Idle]
  /\ history = {}

Goto(h, label) == pc' = [pc EXCEPT ![h] = label]
Start(h, label, request, locals) ==
  /\ pc[h] = "idle" /\ Goto(h, label)
  /\ req' = [req EXCEPT ![h] = request]
  /\ reg' = [reg EXCEPT ![h] = locals]
  /\ UNCHANGED <<db, cached, tx, history>>

-----------------------------------------------------------------------------
(* push *)

PushStart(h) ==
  \E batch \in Batch :
    /\ lastSeq + Len(batch) <= MaxSeq
    /\ Start(h, "push", [NoRequest EXCEPT !.batch = batch], [Idle EXCEPT !.todo = batch])

(* The first INSERT takes SQLite's write lock.                             *)
Opened(h) == IF tx.owner = h THEN tx
             ELSE [owner |-> h, inserted |-> {}, rows |-> rows, seq |-> lastSeq]

(* The UNIQUE constraint on op_id.                                         *)
KnownByStamp(t, op) == \E r \in log \cup t.inserted : r.op.stamp = op.stamp
KnownInBatch(t, op) == \E r \in t.inserted : r.op.id = op.id
Known(t, op) == \E r \in log \cup t.inserted : r.op.id = op.id

(* One turn of push's loop: INSERT OR IGNORE on the unique op_id and, when *)
(* a row went in, its projection, in the same transaction.  An ignored     *)
(* insert may use up a sequence number all the same (AUTOINCREMENT).       *)
PushInsert(h) ==
  /\ pc[h] = "push" /\ reg[h].todo # <<>>
  /\ tx.owner \in {NoHandler, h}
  /\ LET l   == reg[h]
         op  == Head(l.todo)
         t   == Opened(h)
         seq == t.seq + 1
     IN \/ /\ Known(t, op)
           /\ tx' \in {t, [t EXCEPT !.seq = seq]}
           /\ reg' = [reg EXCEPT ![h] = [l EXCEPT !.todo = Tail(l.todo)]]
        \/ /\ ~Known(t, op)
           /\ tx' = [t EXCEPT !.seq = seq,
                              !.inserted = @ \cup {[seq |-> seq, op |-> op]},
                              !.rows[op.entity] = ApplyState(@, op, seq)]
           /\ reg' = [reg EXCEPT ![h] = [l EXCEPT !.todo = Tail(l.todo),
                                                  !.accepted = l.accepted + 1]]
  /\ UNCHANGED <<db, cached, pc, req, history>>

PushCommit(h) ==
  /\ pc[h] = "push" /\ reg[h].todo = <<>>
  /\ IF tx.owner = h
       THEN /\ log' = log \cup tx.inserted
            /\ history' = history \cup tx.inserted
            /\ rows' = tx.rows
            /\ lastSeq' = tx.seq
            /\ tx' = NoTx
       ELSE UNCHANGED <<log, history, rows, lastSeq, tx>>
  /\ Goto(h, IF reg[h].accepted > 0 THEN "compactLatest" ELSE "pushLatest")
  /\ UNCHANGED <<minAvailable, cached, req, reg>>

(* compact_operation_log: three reads, each deciding on its own, then one  *)
(* write transaction.                                                      *)
CompactLatest(h) ==
  /\ pc[h] = "compactLatest"
  /\ reg' = [reg EXCEPT ![h].sequence = LatestSeq]
  /\ Goto(h, IF LatestSeq <= Retain THEN "pushLatest" ELSE "compactCount")
  /\ UNCHANGED <<db, cached, tx, req, history>>

CompactCount(h) ==
  /\ pc[h] = "compactCount"
  /\ Goto(h, IF Cardinality(log) <= CompactAfter THEN "pushLatest" ELSE "compactMin")
  /\ UNCHANGED <<db, cached, tx, req, reg, history>>

CutoffAtLatest(h) == reg[h].sequence
Cutoff(h) == reg[h].sequence - Retain

CompactMin(h) ==
  /\ pc[h] = "compactMin"
  /\ Goto(h, IF Cutoff(h) <= minAvailable THEN "pushLatest" ELSE "compactDelete")
  /\ UNCHANGED <<db, cached, tx, req, reg, history>>

(* The horizon is written only when the DELETE removed rows: a cutoff that *)
(* another compaction has passed by now changes nothing.                   *)
NewHorizon(h, doomed) == IF doomed # {} THEN Cutoff(h) ELSE minAvailable

CompactDelete(h) ==
  /\ pc[h] = "compactDelete" /\ tx.owner = NoHandler
  /\ LET doomed == {r \in log : r.seq <= Cutoff(h)}
     IN /\ log' = log \ doomed
        /\ minAvailable' = NewHorizon(h, doomed)
  /\ Goto(h, "pushLatest")
  /\ UNCHANGED <<rows, lastSeq, cached, tx, req, reg, history>>

(* remember_latest is a fetch_max.                                         *)
RememberCounter(sequence) == cached' = lastSeq
RememberLatest(sequence) == cached' = IF sequence > cached THEN sequence ELSE cached

PushLatest(h) ==
  /\ pc[h] = "pushLatest"
  /\ RememberLatest(LatestSeq)
  /\ reg' = [reg EXCEPT ![h].sequence = LatestSeq]
  /\ Goto(h, "done")
  /\ UNCHANGED <<db, tx, req, history>>

-----------------------------------------------------------------------------
(* pull *)

(* A cursor is a sequence number this server has reported.                 *)
PullStart(h) ==
  \E device \in Device, limit \in PullLimit, since \in {0} \cup {r.seq : r \in history} :
       Start(h, "pullMin",
             [NoRequest EXCEPT !.device = device, !.since = since, !.limit = limit], Idle)

PullMin(h) ==
  /\ pc[h] = "pullMin"
  /\ LET required == req[h].since < minAvailable
     IN /\ reg' = [reg EXCEPT ![h].required = required]
        /\ Goto(h, IF required THEN "latest" ELSE "pullRows")
  /\ UNCHANGED <<db, cached, tx, req, history>>

(* The first limit rows after the cursor that another device wrote; one    *)
(* more is fetched to learn whether there are more.                        *)
Wanted(h) == {r \in log : r.seq > req[h].since /\ r.op.stamp.device # req[h].device}
FirstRows(S, n) == {r \in S : Cardinality({q \in S : q.seq <= r.seq}) <= n}

PullRows(h) ==
  /\ pc[h] = "pullRows"
  /\ reg' = [reg EXCEPT ![h] = [@ EXCEPT !.found = FirstRows(Wanted(h), req[h].limit),
                                         !.more = Cardinality(Wanted(h)) > req[h].limit]]
  /\ Goto(h, "latest")
  /\ UNCHANGED <<db, cached, tx, req, history>>

-----------------------------------------------------------------------------
(* snapshot *)

SnapshotStart(h) == Start(h, "snapshotTable", NoRequest, Idle)

(* One SELECT per table; deleted memos and attachments are left out.       *)
Tables == <<Repository, Memo, Attachment>>

LiveInLog(t) ==
  {e \in Tables[t] : rows[e] # NoRow /\ rows[e].deleted = "no" /\ rows[e].seq > minAvailable}
Live(t) == {e \in Tables[t] : rows[e] # NoRow /\ rows[e].deleted = "no"}

SnapshotTable(h) ==
  /\ pc[h] = "snapshotTable"
  /\ LET l == reg[h]
     IN /\ reg' = [reg EXCEPT ![h] = [l EXCEPT
             !.items = l.items \cup {[entity |-> e, row |-> rows[e]] : e \in Live(l.table)},
             !.table = IF l.table = 3 THEN 1 ELSE l.table + 1]]
        /\ Goto(h, IF l.table = 3 THEN "latest" ELSE "snapshotTable")
  /\ UNCHANGED <<db, cached, tx, req, history>>

-----------------------------------------------------------------------------
(* latest_sequence: the cached value unless it is 0, else the database's,  *)
(* which is then stored over whatever the cache holds by that time.        *)

(* The sequence a pull reports is its last row's, if it has rows; the call *)
(* of latest_sequence is made in either case.                              *)
ReportedLatest(h, latest) == latest
Reported(h, latest) ==
  IF reg[h].found = {} THEN latest ELSE Max({r.seq : r \in reg[h].found})

Latest(h) ==
  /\ pc[h] = "latest"
  /\ reg' = [reg EXCEPT ![h].sequence = IF cached > 0 THEN Reported(h, cached) ELSE LatestSeq]
  /\ Goto(h, IF cached > 0 THEN "done" ELSE "latestStore")
  /\ UNCHANGED <<db, cached, tx, req, history>>

StoreLatest(sequence) == cached' = sequence

LatestStore(h) ==
  /\ pc[h] = "latestStore"
  /\ StoreLatest(reg[h].sequence)
  /\ reg' = [reg EXCEPT ![h].sequence = Reported(h, @)]
  /\ Goto(h, "done")
  /\ UNCHANGED <<db, tx, req, history>>

-----------------------------------------------------------------------------
Release(h) ==
  /\ Goto(h, "idle")
  /\ req' = [req EXCEPT ![h] = NoRequest]
  /\ reg' = [reg EXCEPT ![h] = Idle]

Answer(h) ==
  /\ pc[h] = "done" /\ Release(h)
  /\ UNCHANGED <<db, cached, tx, history>>

(* The handler's future is dropped, or a statement fails and `?` returns:  *)
(* an open transaction rolls back, what was committed before it stays.     *)
AbandonKeepingRows(h) ==
  /\ pc[h] # "idle" /\ Release(h)
  /\ tx' = IF tx.owner = h THEN NoTx ELSE tx
  /\ rows' = IF tx.owner = h THEN tx.rows ELSE rows
  /\ UNCHANGED <<log, lastSeq, minAvailable, cached, history>>
Abandon(h) ==
  /\ pc[h] # "idle" /\ Release(h)
  /\ tx' = IF tx.owner = h THEN NoTx ELSE tx
  /\ UNCHANGED <<db, cached, history>>

(* A statement that needs the write lock gives up after busy_timeout.      *)
NeverBusy(h) == FALSE
Busy(h) ==
  /\ \/ pc[h] = "push" /\ reg[h].todo # <<>>
     \/ pc[h] = "compactDelete"
  /\ tx.owner \notin {NoHandler, h}
  /\ Abandon(h)

(* The process stops and starts again: memory is lost, the database is as  *)
(* the last commit left it, and the projection is current.                 *)
Restart ==
  /\ \E h \in Handler : pc[h] # "idle" \/ cached # 0
  /\ cached' = 0 /\ tx' = NoTx
  /\ pc' = [h \in Handler |-> "idle"]
  /\ req' = [h \in Handler |-> NoRequest]
  /\ reg' = [h \in Handler |-> Idle]
  /\ UNCHANGED <<db, history>>

Request(h) == PushStart(h) \/ PullStart(h) \/ SnapshotStart(h)

Statement(h) ==
  \/ PushInsert(h) \/ PushCommit(h)
  \/ CompactLatest(h) \/ CompactCount(h) \/ CompactMin(h) \/ CompactDelete(h)
  \/ PushLatest(h)
  \/ PullMin(h) \/ PullRows(h)
  \/ SnapshotTable(h)
  \/ Latest(h) \/ LatestStore(h)
  \/ Answer(h) \/ Busy(h)

Next == Restart \/ \E h \in Handler : Request(h) \/ Statement(h) \/ Abandon(h)

Spec == Init /\ [][Next]_vars

(* The runtime polls every task that is ready.                             *)
FairSpec == Spec /\ \A h \in Handler : WF_vars(Statement(h))
-----------------------------------------------------------------------------
(* Properties *)

Labels == {"idle", "push", "compactLatest", "compactCount", "compactMin", "compactDelete",
           "pushLatest", "pullMin", "pullRows", "snapshotTable", "latest", "latestStore",
           "done"}

Table == [Entity -> StateRow \cup {NoRow}]

Transactions == [owner: Handler \cup {NoHandler}, inserted: SUBSET LogRow,
                 rows: Table, seq: Nat]

Requests == [batch: Seq(Operation), device: Device \cup {0}, since: Nat, limit: Nat \ {0}]

Locals == [todo: Seq(Operation), accepted: Nat, sequence: Nat, found: SUBSET LogRow,
           items: SUBSET SnapshotItem, table: 1..3, more: BOOLEAN, required: BOOLEAN]

(* Every variable holds a value of its kind, local variables included.     *)
TypeOK ==
  /\ log \in SUBSET LogRow
  /\ rows \in Table
  /\ lastSeq \in Nat /\ minAvailable \in Nat /\ cached \in Nat
  /\ tx \in Transactions
  /\ pc \in [Handler -> Labels]
  /\ req \in [Handler -> Requests]
  /\ reg \in [Handler -> Locals]
  /\ history \in SUBSET LogRow

(* Compaction by handlers that run side by side removes exactly what        *)
(* min_available_sequence says it removed: every operation ever committed   *)
(* after that horizon can still be pulled, and none before it.              *)
LogIsHistoryAboveHorizon ==
  log = {r \in history : r.seq > minAvailable}

(* However many compactions race, the newest Retain sequence numbers stay   *)
(* in the log: only a client further behind is sent to a snapshot.          *)
TailRetained ==
  \A r \in history : r.seq + Retain > LatestSeq => r \in log

(* The unique op_id: as long as the log remembers an operation, pushing it  *)
(* again (a retry after a lost answer) does not log it a second time.       *)
LoggedOnce ==
  \A r, q \in log : r.op.id = q.op.id => r = q

(* Every row of the projection is at least as new as each write of its      *)
(* entity that was ever accepted, compacted ones included.                  *)
ProjectionKeepsWinner ==
  \A r \in history : r.op.kind # "patch" =>
    /\ rows[r.op.entity] # NoRow
    /\ ~Wins(r.op.stamp, rows[r.op.entity].stamp)

(* The version a row carries is that of an accepted operation, and unless   *)
(* that is a patch the row is deleted or live as the operation says; a patch*)
(* that says it is live does not leave it deleted.                          *)
ProjectionFromHistory ==
  \A e \in Entity : rows[e] # NoRow =>
    \E r \in history :
      /\ r.seq = rows[e].seq /\ r.op.entity = e /\ r.op.stamp = rows[e].stamp
      /\ r.op.kind # "patch" => rows[e].deleted = r.op.deleted
      /\ rows[e].deleted = "yes" => r.op.deleted # "no"

(* No push, retry, compaction or restart takes a row of the projection back *)
(* to an older or an equal version: a tombstone is lifted by a newer write  *)
(* only, and a redelivered operation changes nothing.                       *)
ProjectionMovesForward ==
  [][\A e \in Entity : rows'[e] # rows[e] =>
       /\ rows'[e] # NoRow
       /\ rows[e] # NoRow => Wins(rows'[e].stamp, rows[e].stamp)]_vars

(* The cached sequence may be stale but never names an operation that is    *)
(* not committed, so no wait or snapshot reports a sequence from the future.*)
CacheNotAhead == cached <= LatestSeq

(* A push that is answered has every operation of its batch committed, or   *)
(* an earlier delivery of it, whatever happened to the handler on the way.  *)
AnsweredPushCommitted ==
  \A h \in Handler : pc[h] = "done" =>
    \A i \in DOMAIN req[h].batch : \E r \in history : r.op.id = req[h].batch[i].id

(* The pages of pull: an answer brings every operation of another device    *)
(* between the cursor and the sequence it reports.                          *)
Skipped(h) ==
  {r \in history \ reg[h].found :
     /\ req[h].since < r.seq /\ r.seq <= reg[h].sequence
     /\ r.op.stamp.device # req[h].device}

AnsweredPull(h) == pc[h] = "done" /\ req[h].device # 0 /\ ~reg[h].required

PullComplete == \A h \in Handler : AnsweredPull(h) => Skipped(h) = {}

(* A page that has operations leaves none out between the cursor and its    *)
(* last one.                                                                *)
PullPageGapless ==
  \A h \in Handler : AnsweredPull(h) /\ reg[h].found # {} => Skipped(h) = {}

(* A snapshot that reports sequence n shows the outcome of every operation  *)
(* logged up to n: the entity at this version or a newer one, or its        *)
(* absence after a delete (or the patch of a deleted memo) at least as new. *)
SnapshotShows(items, r) ==
  \/ \E x \in items : x.entity = r.op.entity /\ ~Wins(r.op.stamp, x.row.stamp)
  \/ /\ \A x \in items : x.entity # r.op.entity
     /\ \E q \in history : /\ q.op.deleted # "no" /\ q.op.entity = r.op.entity
                          /\ ~Wins(r.op.stamp, q.op.stamp)

SnapshotComplete ==
  \A h \in Handler :
    pc[h] = "done" /\ req[h].device = 0 /\ req[h].batch = <<>> =>
      \A r \in history :
        r.seq <= reg[h].sequence /\ r.op.kind # "patch" => SnapshotShows(reg[h].items, r)

(* The server as a whole: side by side, cut short or restarted, its         *)
(* handlers only ever append to the log, truncate it or do nothing.         *)
VersionOf(row) == IF row = NoRow THEN NoRow ELSE row.stamp

Promise == INSTANCE OperationLog WITH
  committed <- history, pullable <- log, horizon <- minAvailable,
  version <- [e \in Entity |-> VersionOf(rows[e])]

KeepsPromise == Promise!LogSpec

(* No request hangs: whoever waits for the write lock gets it or gives up.  *)
EveryRequestEnds ==
  \A h \in Handler : pc[h] # "idle" ~> pc[h] = "idle"
=============================================================================
