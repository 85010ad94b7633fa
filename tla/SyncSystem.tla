----------------------------- MODULE SyncSystem -----------------------------
(***************************************************************************)
(* Several desktops that edit memos off line and synchronise them through  *)
(* one server.  A desktop's edits and sync_now run side by side; a request *)
(* or its answer may be lost, a request may be handled after the desktop   *)
(* has given it up, and the desktop may stop at any point.  The server     *)
(* handles one request at a time here: SyncServer has its interleavings.   *)
(***************************************************************************)
EXTENDS LocalRows, Integers, FiniteSetsExt

CONSTANTS
  PushLimit,     \* PUSH_BATCH_LIMIT
  PullLimit,     \* DEFAULT_PULL_LIMIT
  CompactAfter,  \* COMPACT_OPERATION_LOG_AFTER
  Retain,        \* COMPACT_OPERATION_LOG_RETAIN
  Kinds,         \* the edits users make: a subset of {"save", "delete"}
  TextOf(_),     \* what the n-th edit writes, if it saves
  MaxSkew,       \* how far a device's clock may lag behind what it has seen
  MaxWall,       \* bound on the clocks
  MaxFailures    \* bound on sessions cut short

ASSUME LimitAssumption == PushLimit \in Nat \ {0} /\ PullLimit \in Nat \ {0}
ASSUME CompactionAssumption == CompactAfter \in Nat /\ Retain \in Nat \ {0}
ASSUME TextAssumption == \A n \in OpId : TextOf(n) \in Content
ASSUME SkewAssumption == MaxSkew \in Nat /\ MaxWall \in Nat /\ MaxFailures \in Nat

VARIABLES
  log, rows, lastSeq, minAvailable,  \* the server's database, as in SyncServer
  history,    \* every log row ever committed (never read by the code)
  local,      \* each device's memos table
  pending,    \* each device's local_operations: rows [at, op], at as created_at
  cursor,     \* each device's last_server_sequence
  session,    \* each device's run of sync_now
  late,       \* push requests that were given up and may still be handled
  edits,      \* how many edits were made: the next edit's op_id
  failures,   \* how many sessions were cut short
  forgotten   \* memos whose tombstone a device was not sent, or had no row to mark by

server == <<log, rows, lastSeq, minAvailable, history>>
vars == <<log, rows, lastSeq, minAvailable, history, local, pending, cursor, session,
          late, edits, failures, forgotten>>

LogRow == [seq: Nat \ {0}, op: Operation]
QueueRow == [at: Nat, op: Operation]
Item   == [entity: Memo, content: Content, stamp: Stamp]

(* Locals of sync_now: what it does next, server_sequence, the operations  *)
(* being pushed, the answer at hand and the transaction that applies it.   *)
NoSession == [phase |-> "off", top |-> 0, batch |-> {}, sequence |-> 0, page |-> {},
              items |-> {}, more |-> FALSE, table |-> [m \in Memo |-> NoRow]]

LatestSeq == Max({0} \cup {r.seq : r \in log}
                     \cup {rows[m].seq : m \in {x \in Memo : rows[x] # NoRow}})

Init ==
  /\ log = {} /\ rows = [e \in Entity |-> NoRow] /\ lastSeq = 0 /\ minAvailable = 0
  /\ history = {}
  /\ local = [d \in Device |-> [m \in Memo |-> NoRow]]
  /\ pending = [d \in Device |-> {}]
  /\ cursor = [d \in Device |-> 0]
  /\ session = [d \in Device |-> NoSession]
  /\ late = {} /\ edits = 0 /\ failures = 0
  /\ forgotten = [d \in Device |-> {}]

-----------------------------------------------------------------------------
(* Edits *)

(* HybridLogicalClock::now is the bare wall clock.  How it relates to the  *)
(* stamps a device has seen is a property of its environment.              *)
SeenWall(d) == Max({0} \cup {local[d][m].version.wall : m \in {x \in Memo : local[d][x] # NoRow}})
Readings(d) == {w \in 1..MaxWall : w + MaxSkew > SeenWall(d)}

(* append_local_operation: a pending operation of the same entity gives    *)
(* way to the new one and keeps its place.                                 *)
Queued(q, row) ==
  IF \E p \in q : p.op.entity = row.op.entity
    THEN {IF p.op.entity = row.op.entity THEN [p EXCEPT !.op = row.op] ELSE p : p \in q}
    ELSE q \cup {row}

(* An edit takes the write lock, so it waits for an open transaction.      *)
Edit(d, kind, m, wall) ==
  LET stamp == [wall |-> wall, counter |-> 0, device |-> d]
      content == IF kind = "save" THEN TextOf(edits + 1) ELSE NoContent
      op == [id |-> edits + 1, kind |-> IF kind = "save" THEN "upsert" ELSE "delete",
             entity |-> m, content |-> content,
             deleted |-> IF kind = "save" THEN "no" ELSE "yes", stamp |-> stamp]
  IN /\ edits + 1 \in OpId /\ kind \in Kinds
     /\ session[d].phase # "applying"
     /\ edits' = edits + 1
     /\ pending' = [pending EXCEPT ![d] = Queued(@, [at |-> edits', op |-> op])]
     /\ local' = [local EXCEPT ![d][m] =
          IF kind = "save" THEN Saved(content, stamp) ELSE Removed(@, stamp)]
     /\ UNCHANGED <<server, cursor, session, late, failures, forgotten>>

(* A memo's id is made by the device that creates it.                      *)
SaveMemo(d) ==
  \E m \in Memo, w \in Readings(d) :
    /\ local[d][m] = NoRow => \A x \in Device : local[x][m] = NoRow
    /\ Edit(d, "save", m, w)

DeleteMemo(d) ==
  \E m \in Memo, w \in Readings(d) :
    /\ local[d][m] # NoRow
    /\ Edit(d, "delete", m, w)

-----------------------------------------------------------------------------
(* sync_now: push *)

Goto(d, phase) == session' = [session EXCEPT ![d] = [@ EXCEPT !.phase = phase]]

(* The place of a row of S in the order of column at.                       *)
Place(S, p) == Cardinality({q \in S : q.at <= p.at})

(* The turn of the push loop: the first operations of the queue, or, when  *)
(* there are none, a snapshot for a device that has no cursor, or a pull.  *)
NextRequest(d, queue, top) ==
  LET turn == [NoSession EXCEPT !.top = top]
  IN session' = [session EXCEPT ![d] =
       IF queue # {}
         THEN [turn EXCEPT !.phase = "pushSent",
                           !.batch = {p \in queue : Place(queue, p) <= PushLimit}]
         ELSE [turn EXCEPT !.phase = IF cursor[d] = 0 THEN "snapshotSent" ELSE "pullSent"]]

BeginSync(d) ==
  /\ session[d].phase = "off"
  /\ NextRequest(d, pending[d], cursor[d])
  /\ UNCHANGED <<server, local, pending, cursor, late, edits, failures, forgotten>>

(* The server's push, whole: every operation whose id the log does not     *)
(* hold is logged and projected; an ignored insert uses up its sequence    *)
(* number.  A batch has one operation per entity.                          *)
KnownNever(op) == FALSE
Known(op) == \E r \in log : r.op.id = op.id

Accept(batch) ==
  LET added == {[seq |-> lastSeq + Place(batch, p), op |-> p.op] :
                  p \in {q \in batch : ~Known(q.op)}}
  IN /\ log' = log \cup added
     /\ history' = history \cup added
     /\ lastSeq' = lastSeq + Cardinality(batch)
     /\ rows' = [e \in Entity |->
          IF \E r \in added : r.op.entity = e
            THEN LET r == CHOOSE r \in added : r.op.entity = e IN ApplyState(rows[e], r.op, r.seq)
            ELSE rows[e]]
     /\ UNCHANGED minAvailable

HandlePush(d) ==
  /\ session[d].phase = "pushSent"
  /\ Accept(session[d].batch)
  /\ session' = [session EXCEPT ![d] = [@ EXCEPT !.phase = "pushAnswered",
       !.sequence = LatestSeq']]
  /\ UNCHANGED <<local, pending, cursor, late, edits, failures, forgotten>>

(* mark_operations_pushed: by op_id, for the operation of an entity may    *)
(* have been replaced since the batch was read.                            *)
PushedEntity(op, batch) == \E p \in batch : p.op.entity = op.entity
Pushed(op, batch) == \E p \in batch : p.op.id = op.id

FinishPush(d) ==
  LET s == session[d]
  IN /\ s.phase = "pushAnswered"
     /\ pending' = [pending EXCEPT ![d] = {p \in @ : ~Pushed(p.op, s.batch)}]
     /\ NextRequest(d, pending'[d], Max({s.top, s.sequence}))
     /\ UNCHANGED <<server, local, cursor, late, edits, failures, forgotten>>

(* A request the desktop gave up reaches the server, or is lost.           *)
HandleLate(batch) ==
  /\ Accept(batch)
  /\ late' = late \ {batch}
  /\ UNCHANGED <<local, pending, cursor, session, edits, failures, forgotten>>

LoseLate(batch) ==
  /\ late' = late \ {batch}
  /\ UNCHANGED <<server, local, pending, cursor, session, edits, failures, forgotten>>

(* compact_operation_log, which a push runs after its commit, in           *)
(* statements of their own that a dropped request may leave to the next.   *)
Compact ==
  LET cutoff == LatestSeq - Retain
      doomed == {r \in log : r.seq <= cutoff}
  IN /\ LatestSeq > Retain /\ Cardinality(log) > CompactAfter
     /\ cutoff > minAvailable /\ doomed # {}
     /\ log' = log \ doomed
     /\ minAvailable' = cutoff
     /\ UNCHANGED <<rows, lastSeq, history, local, pending, cursor, session, late, edits,
                    failures, forgotten>>

-----------------------------------------------------------------------------
(* sync_now: snapshot and pull *)

AllRows == {m \in Memo : rows[m] # NoRow}
LiveRows == {m \in AllRows : rows[m].deleted = "no"}

HandleSnapshot(d) ==
  /\ session[d].phase = "snapshotSent"
  /\ session' = [session EXCEPT ![d] = [@ EXCEPT !.phase = "snapshotAnswered",
       !.sequence = LatestSeq,
       !.items = {[entity |-> m, content |-> rows[m].content, stamp |-> rows[m].stamp] :
                    m \in LiveRows}]]
  /\ forgotten' = [forgotten EXCEPT ![d] = @ \cup (AllRows \ LiveRows)]
  /\ UNCHANGED <<server, local, pending, cursor, late, edits, failures>>

ApplySnapshot(d) ==
  LET s == session[d]
      Taken(m) == {x \in s.items : x.entity = m}
  IN /\ s.phase = "snapshotAnswered"
     /\ local' = [local EXCEPT ![d] = [m \in Memo |->
          IF Taken(m) = {} THEN @[m] ELSE ApplyItem(@[m], CHOOSE x \in Taken(m) : TRUE)]]
     /\ cursor' = [cursor EXCEPT ![d] = s.sequence]
     /\ session' = [session EXCEPT ![d] = [NoSession EXCEPT !.phase = "pullSent",
                                             !.top = Max({s.top, s.sequence})]]
     /\ UNCHANGED <<server, pending, late, edits, failures, forgotten>>

Wanted(d) == {r \in log : r.seq > cursor[d] /\ r.op.stamp.device # d}
FirstRows(S, n) == {r \in S : Cardinality({q \in S : q.seq <= r.seq}) <= n}

BehindHorizon(d) == cursor[d] < minAvailable

HandlePull(d) ==
  /\ session[d].phase = "pullSent"
  /\ IF BehindHorizon(d)
       THEN Goto(d, "snapshotSent")
       ELSE LET page == FirstRows(Wanted(d), PullLimit)
            IN session' = [session EXCEPT ![d] = [@ EXCEPT
                 !.phase = IF page = {} THEN "pullEmpty" ELSE "pullAnswered",
                 !.page = page,
                 !.more = page # Wanted(d),
                 !.sequence = Max({0} \cup IF page = {} THEN {LatestSeq} ELSE {r.seq : r \in page})]]
  /\ UNCHANGED <<server, local, pending, cursor, late, edits, failures, forgotten>>

(* apply_remote_operations: one transaction, one operation after another.  *)
ApplyNext(d) ==
  LET s == session[d]
      table == IF s.phase = "pullAnswered" THEN local[d] ELSE s.table
  IN /\ s.phase \in {"pullAnswered", "applying"}
     /\ \E r \in s.page :
          LET m == r.op.entity
          IN /\ \A q \in s.page : r.seq <= q.seq
             /\ session' = [session EXCEPT ![d] = [s EXCEPT !.phase = "applying",
                  !.page = s.page \ {r}, !.table = [table EXCEPT ![m] = ApplyRemote(table[m], r.op)]]]
             /\ forgotten' = IF r.op.kind = "delete" /\ table[m] = NoRow
                  THEN [forgotten EXCEPT ![d] = @ \cup {m}] ELSE forgotten
     /\ UNCHANGED <<server, local, pending, cursor, late, edits, failures>>

Continue(d, top) ==
  session' = [session EXCEPT ![d] = IF @.more
    THEN [NoSession EXCEPT !.phase = "pullSent", !.top = top] ELSE NoSession]

CommitApply(d) ==
  LET s == session[d]
  IN /\ s.phase = "applying" /\ s.page = {}
     /\ local' = [local EXCEPT ![d] = s.table]
     /\ cursor' = [cursor EXCEPT ![d] = s.sequence]
     /\ Continue(d, Max({s.top, s.sequence}))
     /\ UNCHANGED <<server, pending, late, edits, failures, forgotten>>

(* A page without operations moves the cursor to the highest sequence any  *)
(* answer of this session has reported.                                    *)
FinishPull(d) ==
  LET top == Max({session[d].top, session[d].sequence})
  IN /\ session[d].phase = "pullEmpty"
     /\ cursor' = [cursor EXCEPT ![d] = top]
     /\ Continue(d, top)
     /\ UNCHANGED <<server, local, pending, late, edits, failures, forgotten>>

-----------------------------------------------------------------------------
(* The session fails at a request, an answer or a transaction, or the      *)
(* desktop stops: what was committed locally stays.                        *)
GiveUp(d) ==
  /\ session[d].phase # "off" /\ failures < MaxFailures
  /\ failures' = failures + 1
  /\ session' = [session EXCEPT ![d] = NoSession]
  /\ late' = IF session[d].phase = "pushSent" THEN late \cup {session[d].batch} ELSE late
  /\ UNCHANGED <<server, local, pending, cursor, edits, forgotten>>

User(d) == SaveMemo(d) \/ DeleteMemo(d)

Sync(d) ==
  \/ BeginSync(d) \/ HandlePush(d) \/ FinishPush(d)
  \/ HandleSnapshot(d) \/ ApplySnapshot(d)
  \/ HandlePull(d) \/ ApplyNext(d) \/ CommitApply(d) \/ FinishPull(d)

Next ==
  \/ Compact
  \/ \E batch \in late : HandleLate(batch) \/ LoseLate(batch)
  \/ \E d \in Device : User(d) \/ Sync(d) \/ GiveUp(d)

Spec == Init /\ [][Next]_vars

(* spawn_background_sync starts a session every interval, and every        *)
(* request has a timeout; a push that was given up does not travel for ever*)
FairSpec ==
  /\ Spec
  /\ \A d \in Device : WF_vars(Sync(d))
  /\ WF_vars(\E batch \in late : HandleLate(batch) \/ LoseLate(batch))
-----------------------------------------------------------------------------
(* Properties *)

Phases == {"off", "pushSent", "pushAnswered", "snapshotSent", "snapshotAnswered",
           "pullSent", "pullAnswered", "pullEmpty", "applying"}

LocalTable == [Memo -> LocalRow \cup {NoRow}]

Sessions == [phase: Phases, top: Nat, batch: SUBSET QueueRow, sequence: Nat,
             page: SUBSET LogRow, items: SUBSET Item, more: BOOLEAN, table: LocalTable]

(* Every variable holds a value of its kind, the session's locals included. *)
TypeOK ==
  /\ log \in SUBSET LogRow /\ history \in SUBSET LogRow
  /\ rows \in [Entity -> StateRow \cup {NoRow}]
  /\ lastSeq \in Nat /\ minAvailable \in Nat
  /\ local \in [Device -> LocalTable]
  /\ pending \in [Device -> SUBSET QueueRow]
  /\ cursor \in [Device -> Nat]
  /\ session \in [Device -> Sessions]
  /\ late \in SUBSET SUBSET QueueRow
  /\ edits \in Nat /\ failures \in Nat
  /\ forgotten \in [Device -> SUBSET Memo]

(* An edit that a device shows is on its way or has arrived: its operation  *)
(* is pending, in the place of any earlier one of the memo, or the server   *)
(* has committed it.                                                        *)
ShownEditIsSafe ==
  \A d \in Device, m \in Memo :
    local[d][m] # NoRow /\ local[d][m].version.device = d =>
      \/ \E p \in pending[d] : p.op.stamp = local[d][m].version /\ p.op.entity = m
      \/ \E r \in history : r.op.stamp = local[d][m].version /\ r.op.entity = m

(* The queue holds one operation per memo, so a batch does, and an edit can *)
(* not reach the server before an edit of the same memo it replaced.        *)
OnePendingPerMemo ==
  \A d \in Device : \A p, q \in pending[d] : p.op.entity = q.op.entity => p = q

(* A cursor vouches for everything before it: a device has taken each       *)
(* operation of others up to its cursor, or something newer; only           *)
(* tombstones that came to no row, or not with a snapshot, are missed.      *)
Taken(d, r) ==
  LET row == local[d][r.op.entity]
  IN row # NoRow /\ ~Wins(r.op.stamp, row.version)

CursorIsHonest ==
  \A d \in Device, r \in history :
    r.seq <= cursor[d] /\ r.op.stamp.device # d => r.op.entity \in forgotten[d] \/ Taken(d, r)

(* A device that has pushed and pulled everything shows what the server     *)
(* shows: the same memos, at the same version.                              *)
CaughtUp(d) == session[d].phase = "off" /\ pending[d] = {} /\ cursor[d] >= LatestSeq

Agrees(d, m) ==
  IF rows[m] # NoRow /\ rows[m].deleted = "no"
    THEN local[d][m] = [content |-> rows[m].content, deleted |-> "no", version |-> rows[m].stamp]
    ELSE local[d][m] = NoRow \/ local[d][m].deleted = "yes"

CaughtUpAgrees ==
  \A d \in Device : CaughtUp(d) => \A m \in Memo \ forgotten[d] : Agrees(d, m)

(* A memo that is deleted on the server is not live on a device that has    *)
(* caught up.                                                               *)
DeletesWin ==
  \A d \in Device, m \in Memo :
    CaughtUp(d) /\ rows[m] # NoRow /\ rows[m].deleted = "yes" =>
      local[d][m] = NoRow \/ local[d][m].deleted = "yes"

(* A device that has caught up shows, of all the writes of a memo that were *)
(* committed, the one with the greatest stamp.                              *)
HighestStampShown ==
  \A d \in Device, r \in history :
    CaughtUp(d) /\ local[d][r.op.entity] # NoRow =>
      ~Wins(r.op.stamp, local[d][r.op.entity].version)

(* Seen by its clients, too, the server keeps what OperationLog promises.   *)
Promise == INSTANCE OperationLog WITH
  committed <- history, pullable <- log, horizon <- minAvailable,
  version <- [e \in Entity |-> IF rows[e] = NoRow THEN NoRow ELSE rows[e].stamp]

KeepsPromise == Promise!LogSpec

(* Once users stop editing, all devices come to show the same and stay so.  *)
EventuallyAllAgree ==
  <>[](\A d \in Device : \A m \in Memo \ forgotten[d] : Agrees(d, m))
=============================================================================
