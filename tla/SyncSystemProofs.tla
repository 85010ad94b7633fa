-------------------------- MODULE SyncSystemProofs --------------------------
(***************************************************************************)
(* No edit is lost between desktops and server, for every set of devices   *)
(* and memos, every page and batch limit, every number of failures, late   *)
(* requests and compactions, and clocks that lag by any amount; and devices*)
(* that have caught up agree with the server if no clock lags.             *)
(***************************************************************************)
EXTENDS SyncSystem, ProjectionProofs, FiniteSetTheorems

(* The inductive invariant.  The server's side: the log holds committed     *)
(* operations only, numbered up to the counter; a projected row is one of   *)
(* them; only a tombstone is without content.                               *)
LogBelowCounter == log \subseteq history /\ \A r \in history : r.seq <= lastSeq

RowsCommitted ==
  \A e \in Entity : rows[e] # NoRow =>
    /\ \E r \in history : r.op.entity = e /\ r.op.stamp = rows[e].stamp /\ r.seq = rows[e].seq
    /\ rows[e].deleted = "no" => rows[e].content \in Content

(* Every operation of a memo that was made and can still be anywhere: its id*)
(* names it.                                                                *)
Issued(op) ==
  \/ \E r \in history : r.op = op
  \/ \E d \in Device : \E p \in pending[d] \cup session[d].batch : p.op = op
  \/ \E batch \in late : \E p \in batch : p.op = op
IssuedOps == {op \in Operation : Issued(op)}
IdsName ==
  /\ \A a \in IssuedOps : a.id \in 1..edits /\ a.entity \in Memo
  /\ \A a, b \in IssuedOps : a.id = b.id => a = b

(* An operation of memo m at version v waits in queue q, or is committed.   *)
Committed(op) == \E r \in history : r.op = op
Safe(q, m, v) ==
  \/ \E p \in q : p.op.stamp = v /\ p.op.entity = m
  \/ \E r \in history : r.op.stamp = v /\ r.op.entity = m

OwnEditsSafe(d, q, table) ==
  \A m \in Memo : table[m] # NoRow /\ table[m].version.device = d =>
    Safe(q, m, table[m].version)

(* What a session carries from one step to the next.                        *)
SessionSound(d, s, q) ==
  /\ IsFiniteSet(s.batch)
  /\ s.phase = "pushAnswered" => \A p \in s.batch : Committed(p.op)
  /\ \A r \in s.page : r \in history /\ r.op.stamp.device # d
  /\ \A x \in s.items : \E r \in history : r.op.entity = x.entity /\ r.op.stamp = x.stamp
  /\ s.phase = "applying" => OwnEditsSafe(d, q, s.table)

QueueSound(q) ==
  /\ IsFiniteSet(q)
  /\ \A p, r \in q : p.op.entity = r.op.entity => p = r

DeviceSound(d) ==
  /\ QueueSound(pending[d])
  /\ OwnEditsSafe(d, pending[d], local[d])
  /\ SessionSound(d, session[d], pending[d])

Inductive ==
  /\ TypeOK
  /\ LogBelowCounter /\ RowsCommitted /\ IdsName
  /\ \A d \in Device : DeviceSound(d)
  /\ \A batch \in late : IsFiniteSet(batch)
-----------------------------------------------------------------------------

(* The place of a row in a finite set is a number from 1 to its size.       *)
LEMMA PlaceBounds ==
  ASSUME NEW S \in SUBSET QueueRow, IsFiniteSet(S), NEW p \in S
  PROVE  /\ Place(S, p) \in Nat /\ Cardinality(S) \in Nat
         /\ 1 <= Place(S, p) /\ Place(S, p) <= Cardinality(S)
<1> DEFINE T == {q \in S : q.at <= p.at}
<1>1. T \in SUBSET S /\ p \in T
  BY DEF QueueRow
<1>2. /\ IsFiniteSet(T) /\ Cardinality(T) \in Nat /\ Cardinality(S) \in Nat
      /\ Cardinality(T) <= Cardinality(S)
  BY <1>1, FS_Subset, FS_CardinalityType
<1>3. Cardinality(T) # 0
  BY <1>1, <1>2, FS_EmptySet
<1>4. Place(S, p) = Cardinality(T)
  BY DEF Place
<1>5. QED
  BY <1>2, <1>3, <1>4

(* Append or replace: a queue that holds one operation per entity does so   *)
(* afterwards.                                                              *)
LEMMA QueuedSound ==
  ASSUME NEW q \in SUBSET QueueRow, QueueSound(q), NEW row \in QueueRow
  PROVE  /\ Queued(q, row) \in SUBSET QueueRow /\ QueueSound(Queued(q, row))
         /\ \E p \in Queued(q, row) : p.op = row.op
         /\ \A p \in Queued(q, row) : p.op = row.op \/ p \in q
         /\ \A p \in q : p.op.entity = row.op.entity \/ p \in Queued(q, row)
<1>1. CASE ~\E p \in q : p.op.entity = row.op.entity
  <2>1. Queued(q, row) = q \cup {row}
    BY <1>1 DEF Queued
  <2>2. IsFiniteSet(q \cup {row})
    BY FS_AddElement DEF QueueSound
  <2>3. QED
    BY <1>1, <2>1, <2>2 DEF QueueSound
<1>2. CASE \E p \in q : p.op.entity = row.op.entity
  <2> DEFINE New(p) == IF p.op.entity = row.op.entity THEN [p EXCEPT !.op = row.op] ELSE p
             T == {New(p) : p \in q}
             f == [p \in q |-> New(p)]
  <2>1. Queued(q, row) = T
    BY <1>2 DEF Queued
  <2>2. \A p \in q : /\ New(p) \in QueueRow /\ New(p).op.entity = p.op.entity
                     /\ p.op.entity = row.op.entity => New(p).op = row.op
                     /\ p.op.entity # row.op.entity => New(p) = p
    BY DEF QueueRow
  <2>3. f \in Surjection(q, T)
    BY DEF Surjection
  <2>4. IsFiniteSet(T)
    BY <2>3, FS_Surjection DEF QueueSound
  <2>5. /\ \A a \in q : New(a) \in T
        /\ \A p \in T : \E a \in q : p = New(a)
    OBVIOUS
  <2> HIDE DEF New, T
  <2>6. ASSUME NEW p \in T, NEW r \in T, p.op.entity = r.op.entity
        PROVE  p = r
    <3>1. PICK a \in q, b \in q : p = New(a) /\ r = New(b)
      BY <2>5
    <3>2. a = b
      BY <2>2, <2>6, <3>1 DEF QueueSound
    <3>3. QED
      BY <3>1, <3>2
  <2>8. \E p \in T : p.op = row.op
    <3>1. PICK a \in q : a.op.entity = row.op.entity
      BY <1>2
    <3>2. QED
      BY <2>2, <2>5, <3>1
  <2>9. /\ \A p \in T : p.op = row.op \/ p \in q
        /\ \A p \in q : p.op.entity = row.op.entity \/ p \in T
        /\ T \in SUBSET QueueRow
    BY <2>2, <2>5
  <2>7. QED
    BY <2>1, <2>4, <2>6, <2>8, <2>9 DEF QueueSound
<1>3. QED
  BY <1>1, <1>2

(* latest_sequence_from_db reports 0 or the number of an operation.         *)
NewestOf(L, R) == Max({0} \cup {r.seq : r \in L}
                          \cup {R[m].seq : m \in {x \in Memo : R[x] # NoRow}})

LEMMA NewestTyped ==
  ASSUME NEW L \in SUBSET LogRow, NEW H \in SUBSET LogRow, NEW R, NEW b \in Nat,
         L \subseteq H, \A r \in H : r.seq <= b,
         \A e \in Memo : R[e] # NoRow => \E r \in H : r.seq = R[e].seq
  PROVE  /\ NewestOf(L, R) \in Nat
         /\ NewestOf(L, R) = 0 \/ \E r \in H : r.seq = NewestOf(L, R)
<1> DEFINE S == {0} \cup {r.seq : r \in L}
                    \cup {R[m].seq : m \in {x \in Memo : R[x] # NoRow}}
<1>1. \A n \in S : n = 0 \/ \E r \in H : n = r.seq
  OBVIOUS
<1>2. \A r \in H : r.seq \in Nat
  BY DEF LogRow
<1>3. S \in SUBSET Nat /\ S # {} /\ \A n \in S : n <= b
  BY <1>1, <1>2
<1>4. Max(S) \in S
  BY <1>3, MaxOfBounded
<1>5. PICK n \in S : n = Max(S)
  BY <1>4
<1>6. NewestOf(L, R) = n
  BY <1>5 DEF NewestOf
<1>7. n = 0 \/ \E r \in H : n = r.seq
  BY <1>1
<1>8. CASE n = 0
  BY <1>6, <1>8
<1>9. CASE \E r \in H : n = r.seq
  <2>1. PICK r \in H : n = r.seq
    BY <1>9
  <2>2. NewestOf(L, R) = r.seq /\ r.seq \in Nat
    BY <1>2, <1>6, <2>1
  <2>3. QED
    BY <2>2
<1>10. QED
  BY <1>7, <1>8, <1>9
-----------------------------------------------------------------------------
(* Assembling a step *)

(* A committed operation stays committed, so a device that a step leaves    *)
(* alone stays sound.                                                       *)
LEMMA DeviceKept ==
  ASSUME NEW d \in Device, DeviceSound(d), history \subseteq history',
         local'[d] = local[d], pending'[d] = pending[d], session'[d] = session[d]
  PROVE  DeviceSound(d)'
<1>1. ASSUME NEW q, NEW m, NEW v, Safe(q, m, v) PROVE Safe(q, m, v)'
  BY <1>1 DEF Safe
<1>2. ASSUME NEW q, NEW t, OwnEditsSafe(d, q, t) PROVE OwnEditsSafe(d, q, t)'
  BY <1>1, <1>2 DEF OwnEditsSafe
<1>3. ASSUME NEW op, Committed(op) PROVE Committed(op)'
  BY <1>3 DEF Committed
<1>4. SessionSound(d, session[d], pending[d])'
  BY <1>2, <1>3 DEF DeviceSound, SessionSound
<1>5. QED
  BY <1>2, <1>4 DEF DeviceSound, QueueSound

(* An operation that can be anywhere after a step other than an edit could  *)
(* be somewhere before it.                                                  *)
LEMMA IdsKept ==
  ASSUME IdsName, edits' = edits, \A op \in Operation : Issued(op)' => Issued(op)
  PROVE  IdsName'
<1>1. IssuedOps' \subseteq IssuedOps
  BY DEF IssuedOps
<1>2. QED
  BY <1>1 DEF IdsName

(* A step of one device, or of none, that the others do not see.            *)
LEMMA StepSound ==
  ASSUME Inductive, TypeOK', LogBelowCounter', RowsCommitted', IdsName',
         history \subseteq history',
         \A d \in Device :
           \/ local'[d] = local[d] /\ pending'[d] = pending[d] /\ session'[d] = session[d]
           \/ DeviceSound(d)',
         \A batch \in late' : IsFiniteSet(batch)
  PROVE  Inductive'
<1>1. \A d \in Device : DeviceSound(d)'
  BY DeviceKept DEF Inductive
<1>2. QED
  BY <1>1 DEF Inductive
-----------------------------------------------------------------------------
(* The server's push *)

(* Only a tombstone is without content.                                     *)
LEMMA LiveContent ==
  ASSUME NEW row \in StateRow \cup {NoRow}, NEW op \in Operation, NEW seq \in Nat,
         row # NoRow /\ row.deleted = "no" => row.content \in Content,
         NEW new, new = ApplyState(row, op, seq), new # NoRow, new.deleted = "no"
  PROVE  new.content \in Content
<1> USE OperationParts
<1>1. CASE new = row
  BY <1>1
<1>2. CASE new # row /\ op.kind = "upsert"
  BY <1>2 DEF ApplyState, StateRowOf
<1>3. CASE new # row /\ op.kind = "delete"
  BY <1>3 DEF ApplyState, StateRowOf
<1>4. CASE new # row /\ op.kind = "patch"
  <2>1. row # NoRow /\ row.content # NoContent
    BY <1>4 DEF ApplyState
  <2>2. row.content \in Content
    BY <2>1 DEF StateRow
  <2>3. new.content = Patched(row.content, op.content)
    BY <1>4, <2>1 DEF ApplyState, StateRowOf
  <2>4. QED
    BY <1>4, <2>2, <2>3, PatchedType
<1>5. QED
  BY <1>1, <1>2, <1>3, <1>4

(* LatestSeq is a number of the history, or 0.                              *)
LEMMA LatestKnown ==
  ASSUME TypeOK, LogBelowCounter, RowsCommitted
  PROVE  LatestSeq \in Nat /\ (LatestSeq = 0 \/ \E r \in history : r.seq = LatestSeq)
<1>1. \A e \in Memo : rows[e] # NoRow => \E r \in history : r.seq = rows[e].seq
  BY DEF RowsCommitted, Entity
<1>2. /\ log \in SUBSET LogRow /\ history \in SUBSET LogRow /\ lastSeq \in Nat
      /\ log \subseteq history /\ \A r \in history : r.seq <= lastSeq
  BY DEF TypeOK, LogBelowCounter
<1>3. LatestSeq = NewestOf(log, rows)
  BY DEF LatestSeq, NewestOf
<1>4. QED
  BY <1>1, <1>2, <1>3, NewestTyped

(* The rows that a push adds, and what becomes of its batch.                *)
Added(batch) ==
  {[seq |-> lastSeq + Place(batch, p), op |-> p.op] : p \in {q \in batch : ~Known(q.op)}}

LEMMA AddedRows ==
  ASSUME lastSeq \in Nat, NEW batch \in SUBSET QueueRow, IsFiniteSet(batch)
  PROVE  /\ Added(batch) \in SUBSET LogRow
         /\ lastSeq + Cardinality(batch) \in Nat
         /\ \A r \in Added(batch) : /\ lastSeq < r.seq /\ r.seq <= lastSeq + Cardinality(batch)
                                    /\ ~Known(r.op) /\ \E p \in batch : r.op = p.op
         /\ \A p \in batch : Known(p.op) \/ \E r \in Added(batch) : r.op = p.op
<1>1. \A p \in batch :
        /\ Place(batch, p) \in Nat /\ Cardinality(batch) \in Nat
        /\ 1 <= Place(batch, p) /\ Place(batch, p) <= Cardinality(batch)
  BY PlaceBounds
<1>2. Cardinality(batch) \in Nat
  BY FS_CardinalityType
<1>3. ASSUME NEW r \in Added(batch)
      PROVE  /\ r \in LogRow /\ lastSeq < r.seq /\ r.seq <= lastSeq + Cardinality(batch)
             /\ ~Known(r.op) /\ \E p \in batch : r.op = p.op
  <2>1. PICK p \in batch : /\ ~Known(p.op)
                           /\ r = [seq |-> lastSeq + Place(batch, p), op |-> p.op]
    BY DEF Added
  <2>2. r.seq = lastSeq + Place(batch, p) /\ r.op = p.op /\ p.op \in Operation
    BY <2>1 DEF QueueRow
  <2>3. r.seq \in Nat \ {0} /\ lastSeq < r.seq /\ r.seq <= lastSeq + Cardinality(batch)
    BY <1>1, <2>2
  <2>4. QED
    BY <2>1, <2>2, <2>3 DEF LogRow
<1>4. ASSUME NEW p \in batch, ~Known(p.op)
      PROVE  \E r \in Added(batch) : r.op = p.op
  <2>1. [seq |-> lastSeq + Place(batch, p), op |-> p.op] \in Added(batch)
    BY <1>4 DEF Added
  <2>2. QED
    BY <2>1
<1>5. QED
  BY <1>2, <1>3, <1>4

LEMMA AcceptSound ==
  ASSUME Inductive, NEW batch \in SUBSET QueueRow, IsFiniteSet(batch),
         \A p \in batch : Issued(p.op), Accept(batch)
  PROVE  /\ log' \in SUBSET LogRow /\ history' \in SUBSET LogRow
         /\ rows' \in [Entity -> StateRow \cup {NoRow}]
         /\ lastSeq' \in Nat /\ minAvailable' \in Nat
         /\ LogBelowCounter' /\ RowsCommitted'
         /\ history \subseteq history'
         /\ \A p \in batch : Committed(p.op)'
         /\ \A r \in history' : r \in history \/ \E p \in batch : r.op = p.op
         /\ \A e \in Entity :
              \/ rows'[e] = rows[e]
              \/ \E r \in Added(batch) :
                   /\ r.op.entity = e /\ rows'[e] # NoRow /\ rows'[e].stamp = r.op.stamp
                   /\ rows[e] = NoRow \/ Wins(rows'[e].stamp, rows[e].stamp)
<1> DEFINE added == Added(batch)
<1>t. /\ log \in SUBSET LogRow /\ history \in SUBSET LogRow
      /\ rows \in [Entity -> StateRow \cup {NoRow}]
      /\ lastSeq \in Nat /\ minAvailable \in Nat
  BY DEF Inductive, TypeOK
<1>n. /\ log \subseteq history /\ \A r \in history : r.seq <= lastSeq
  BY DEF Inductive, LogBelowCounter
<1>a. /\ log' = log \cup added /\ history' = history \cup added
      /\ lastSeq' = lastSeq + Cardinality(batch)
      /\ minAvailable' = minAvailable
      /\ rows' = [e \in Entity |->
           IF \E r \in added : r.op.entity = e
             THEN LET r == CHOOSE r \in added : r.op.entity = e IN ApplyState(rows[e], r.op, r.seq)
             ELSE rows[e]]
  BY Zenon DEF Accept, Added
<1>b. /\ added \in SUBSET LogRow
      /\ lastSeq + Cardinality(batch) \in Nat
      /\ \A r \in added : /\ lastSeq < r.seq /\ r.seq <= lastSeq + Cardinality(batch)
                          /\ ~Known(r.op) /\ \E p \in batch : r.op = p.op
      /\ \A p \in batch : Known(p.op) \/ \E r \in added : r.op = p.op
  BY <1>t, AddedRows
<1> HIDE DEF added
<1>1. LogBelowCounter'
  <2>1. ASSUME NEW r \in history PROVE r.seq <= lastSeq'
    <3>1. r.seq \in Nat /\ r.seq <= lastSeq /\ Cardinality(batch) \in Nat
      BY <1>t, <1>n, FS_CardinalityType DEF LogRow
    <3>2. QED
      BY <3>1, <1>a, <1>t
  <2>2. ASSUME NEW r \in added PROVE r.seq <= lastSeq'
    BY <1>a, <1>b
  <2>3. QED
    BY <2>1, <2>2, <1>a, <1>n DEF LogBelowCounter
<1>2. ASSUME NEW e \in Entity
      PROVE  /\ rows'[e] \in StateRow \cup {NoRow}
             /\ rows'[e] # NoRow /\ rows'[e].deleted = "no" => rows'[e].content \in Content
             /\ \/ rows'[e] = rows[e]
                \/ \E r \in added :
                     /\ r.op.entity = e /\ rows'[e] # NoRow
                     /\ rows'[e].stamp = r.op.stamp /\ rows'[e].seq = r.seq
                     /\ rows[e] = NoRow \/ Wins(rows'[e].stamp, rows[e].stamp)
  <2>1. /\ rows[e] \in StateRow \cup {NoRow}
        /\ rows[e] # NoRow /\ rows[e].deleted = "no" => rows[e].content \in Content
    BY <1>t DEF Inductive, RowsCommitted
  <2>2. CASE ~\E r \in added : r.op.entity = e
    <3>1. rows'[e] = rows[e]
      BY <1>a, <2>2
    <3>2. QED
      BY <2>1, <3>1
  <2>3. CASE \E r \in added : r.op.entity = e
    <3>1. PICK r \in added : /\ r.op.entity = e
                             /\ rows'[e] = ApplyState(rows[e], r.op, r.seq)
      <4>1. (CHOOSE r \in added : r.op.entity = e) \in added
            /\ (CHOOSE r \in added : r.op.entity = e).op.entity = e
        BY <2>3
      <4>2. rows'[e] = LET r == CHOOSE r \in added : r.op.entity = e
                       IN ApplyState(rows[e], r.op, r.seq)
        BY <1>a, <2>3
      <4>3. QED
        BY <4>1, <4>2
    <3>2. r.op \in Operation /\ r.seq \in Nat
      BY <1>b DEF LogRow
    <3>3. /\ rows'[e] \in StateRow \cup {NoRow}
          /\ \/ rows'[e] = rows[e]
             \/ /\ rows'[e] # NoRow /\ rows'[e].stamp = r.op.stamp /\ rows'[e].seq = r.seq
                /\ rows[e] = NoRow \/ Wins(rows'[e].stamp, rows[e].stamp)
      BY <2>1, <3>1, <3>2, ApplyStateAdvances
    <3>4. rows'[e] # NoRow /\ rows'[e].deleted = "no" => rows'[e].content \in Content
      BY <2>1, <3>1, <3>2, LiveContent
    <3>5. QED
      BY <3>1, <3>3, <3>4
  <2>4. QED
    BY <2>2, <2>3
<1>3. RowsCommitted'
  <2>1. ASSUME NEW e \in Entity, rows'[e] # NoRow
        PROVE  \E r \in history' : r.op.entity = e /\ r.op.stamp = rows'[e].stamp
                                   /\ r.seq = rows'[e].seq
    <3>1. CASE rows'[e] = rows[e]
      <4>1. \E r \in history : r.op.entity = e /\ r.op.stamp = rows[e].stamp
                               /\ r.seq = rows[e].seq
        BY <2>1, <3>1 DEF Inductive, RowsCommitted
      <4>2. QED
        BY <3>1, <4>1, <1>a
    <3>2. CASE rows'[e] # rows[e]
      BY <1>2, <1>a, <3>2
    <3>3. QED
      BY <3>1, <3>2
  <2>2. QED
    BY <2>1, <1>2 DEF RowsCommitted
<1>4. ASSUME NEW p \in batch PROVE Committed(p.op)'
  <2>1. CASE Known(p.op)
    <3>1. PICK r \in log : r.op.id = p.op.id
      BY <2>1 DEF Known
    <3>2. r \in history /\ r.op \in Operation /\ p.op \in Operation
      BY <1>t, <1>n DEF LogRow, QueueRow
    <3>3. r.op \in IssuedOps /\ p.op \in IssuedOps
      BY <3>2 DEF IssuedOps, Issued
    <3>4. r.op = p.op
      BY <3>1, <3>3 DEF Inductive, IdsName
    <3>5. QED
      BY <3>2, <3>4, <1>a DEF Committed
  <2>2. CASE ~Known(p.op)
    BY <2>2, <1>a, <1>b DEF Committed
  <2>3. QED
    BY <2>1, <2>2
<1>5. rows' \in [Entity -> StateRow \cup {NoRow}]
  <2>1. \A e \in Entity : rows'[e] \in StateRow \cup {NoRow}
    BY <1>2
  <2>2. rows' = [e \in Entity |-> rows'[e]]
    BY <1>a
  <2>3. QED
    BY <2>1, <2>2
<1>6. QED
  <2>1. \A e \in Entity :
          \/ rows'[e] = rows[e]
          \/ \E r \in Added(batch) :
               /\ r.op.entity = e /\ rows'[e] # NoRow /\ rows'[e].stamp = r.op.stamp
               /\ rows[e] = NoRow \/ Wins(rows'[e].stamp, rows[e].stamp)
    BY <1>2 DEF added
  <2>2. \A r \in history' : r \in history \/ \E p \in batch : r.op = p.op
    BY <1>a, <1>b
  <2>3. QED
    BY <1>1, <1>3, <1>4, <1>5, <2>1, <2>2, <1>a, <1>b, <1>t

(* LatestSeq after a push has been handled.                                 *)
LEMMA NextLatestTyped ==
  ASSUME log' \in SUBSET LogRow, history' \in SUBSET LogRow, lastSeq' \in Nat,
         LogBelowCounter', RowsCommitted'
  PROVE  LatestSeq' \in Nat
<1>1. \A e \in Memo : rows'[e] # NoRow => \E r \in history' : r.seq = rows'[e].seq
  BY DEF RowsCommitted, Entity
<1>2. log' \subseteq history' /\ \A r \in history' : r.seq <= lastSeq'
  BY DEF LogBelowCounter
<1>3. LatestSeq' = NewestOf(log', rows')
  BY DEF LatestSeq, NewestOf
<1>4. QED
  BY <1>1, <1>2, <1>3, NewestTyped

LEMMA HandlePushStep ==
  ASSUME Inductive, NEW d \in Device, HandlePush(d)
  PROVE  Inductive'
<1> DEFINE s == session[d]
<1>t. /\ TypeOK /\ IdsName /\ s \in Sessions /\ session \in [Device -> Sessions]
      /\ DeviceSound(d)
  BY DEF Inductive, TypeOK
<1>b. s.batch \in SUBSET QueueRow /\ IsFiniteSet(s.batch)
  BY <1>t DEF Sessions, DeviceSound, SessionSound
<1>i. \A p \in s.batch : Issued(p.op)
  BY DEF Issued
<1>h. /\ Accept(s.batch)
      /\ session' = [session EXCEPT ![d] = [@ EXCEPT !.phase = "pushAnswered",
                       !.sequence = LatestSeq']]
      /\ UNCHANGED <<local, pending, cursor, late, edits, failures, forgotten>>
  BY DEF HandlePush
<1>1. /\ log' \in SUBSET LogRow /\ history' \in SUBSET LogRow
      /\ rows' \in [Entity -> StateRow \cup {NoRow}]
      /\ lastSeq' \in Nat /\ minAvailable' \in Nat
      /\ LogBelowCounter' /\ RowsCommitted'
      /\ history \subseteq history'
      /\ \A p \in s.batch : Committed(p.op)'
      /\ \A r \in history' : r \in history \/ \E p \in s.batch : r.op = p.op
  BY <1>b, <1>i, <1>h, AcceptSound
<1>2. LatestSeq' \in Nat
  BY <1>1, NextLatestTyped
<1>3. /\ session'[d] = [s EXCEPT !.phase = "pushAnswered", !.sequence = LatestSeq']
      /\ \A e \in Device \ {d} : session'[e] = session[e]
      /\ session' \in [Device -> Sessions]
  <2>1. [s EXCEPT !.phase = "pushAnswered", !.sequence = LatestSeq'] \in Sessions
    BY <1>t, <1>2 DEF Sessions, Phases
  <2>2. QED
    BY <1>t, <1>h, <2>1
<1>4. /\ session'[d].batch = s.batch /\ session'[d].page = s.page
      /\ session'[d].items = s.items /\ session'[d].phase = "pushAnswered"
  BY <1>3, <1>t DEF Sessions
<1>5. TypeOK'
  BY <1>t, <1>1, <1>3, <1>h DEF TypeOK
<1>6. \A e \in Device : session'[e].batch = session[e].batch
  BY <1>3, <1>4
<1>7. IdsName'
  <2>1. ASSUME NEW op \in Operation, Issued(op)' PROVE Issued(op)
    <3>1. CASE \E r \in history' : r.op = op
      BY <1>1, <1>i, <3>1 DEF Issued
    <3>2. CASE \E e \in Device : \E p \in pending'[e] \cup session'[e].batch : p.op = op
      BY <1>6, <1>h, <3>2 DEF Issued
    <3>3. CASE \E batch \in late' : \E p \in batch : p.op = op
      BY <1>h, <3>3 DEF Issued
    <3>4. QED
      BY <2>1, <3>1, <3>2, <3>3 DEF Issued
  <2>2. QED
    BY <1>t, <1>h, <2>1, IdsKept
<1>8. DeviceSound(d)'
  <2>1. /\ QueueSound(pending[d]) /\ OwnEditsSafe(d, pending[d], local[d])
        /\ SessionSound(d, s, pending[d])
    BY <1>t DEF DeviceSound
  <2>4. OwnEditsSafe(d, pending[d], local[d])'
    <3>1. ASSUME NEW m \in Memo, local'[d][m] # NoRow, local'[d][m].version.device = d
          PROVE  Safe(pending[d], m, local[d][m].version)'
      <4>1. Safe(pending[d], m, local[d][m].version)
        BY <2>1, <3>1, <1>h DEF OwnEditsSafe
      <4>2. QED
        BY <4>1, <1>1, <1>h DEF Safe
    <3>2. QED
      BY <3>1 DEF OwnEditsSafe
  <2>2. SessionSound(d, session[d], pending[d])'
    BY <2>1, <1>1, <1>4, <1>b DEF SessionSound
  <2>3. QED
    BY <2>1, <2>2, <2>4, <1>h DEF DeviceSound, QueueSound
<1>9. QED
  <2>1. \A batch \in late' : IsFiniteSet(batch)
    BY <1>h DEF Inductive
  <2>2. ASSUME NEW e \in Device
        PROVE  \/ local'[e] = local[e] /\ pending'[e] = pending[e] /\ session'[e] = session[e]
               \/ DeviceSound(e)'
    BY <1>3, <1>8, <1>h
  <2>3. QED
    BY <1>1, <1>5, <1>7, <2>1, <2>2, StepSound

LEMMA HandleLateStep ==
  ASSUME Inductive, NEW batch \in late, HandleLate(batch)
  PROVE  Inductive'
<1>t. TypeOK /\ IdsName
  BY DEF Inductive
<1>b. batch \in SUBSET QueueRow /\ IsFiniteSet(batch)
  BY DEF Inductive, TypeOK
<1>i. \A p \in batch : Issued(p.op)
  BY DEF Issued
<1>h. /\ Accept(batch) /\ late' = late \ {batch}
      /\ UNCHANGED <<local, pending, cursor, session, edits, failures, forgotten>>
  BY DEF HandleLate
<1>1. /\ log' \in SUBSET LogRow /\ history' \in SUBSET LogRow
      /\ rows' \in [Entity -> StateRow \cup {NoRow}]
      /\ lastSeq' \in Nat /\ minAvailable' \in Nat
      /\ LogBelowCounter' /\ RowsCommitted'
      /\ history \subseteq history'
      /\ \A r \in history' : r \in history \/ \E p \in batch : r.op = p.op
  BY <1>b, <1>i, <1>h, AcceptSound
<1>2. TypeOK'
  BY <1>t, <1>1, <1>h DEF TypeOK
<1>3. IdsName'
  <2>1. ASSUME NEW op \in Operation, Issued(op)' PROVE Issued(op)
    <3>1. CASE \E r \in history' : r.op = op
      BY <1>1, <1>i, <3>1 DEF Issued
    <3>2. CASE \E e \in Device : \E p \in pending'[e] \cup session'[e].batch : p.op = op
      BY <1>h, <3>2 DEF Issued
    <3>3. CASE \E x \in late' : \E p \in x : p.op = op
      BY <1>h, <3>3 DEF Issued
    <3>4. QED
      BY <2>1, <3>1, <3>2, <3>3 DEF Issued
  <2>2. QED
    BY <1>t, <1>h, <2>1, IdsKept
<1>4. \A x \in late' : IsFiniteSet(x)
  BY <1>h DEF Inductive
<1>5. QED
  BY <1>1, <1>2, <1>3, <1>4, <1>h, StepSound

LEMMA LoseLateStep ==
  ASSUME Inductive, NEW batch \in late, LoseLate(batch)
  PROVE  Inductive'
<1>h. /\ late' = late \ {batch}
      /\ UNCHANGED <<server, local, pending, cursor, session, edits, failures, forgotten>>
  BY DEF LoseLate
<1>s. UNCHANGED <<log, rows, lastSeq, minAvailable, history>>
  BY <1>h DEF server
<1>1. TypeOK'
  BY <1>h, <1>s DEF Inductive, TypeOK
<1>2. LogBelowCounter' /\ RowsCommitted'
  BY <1>s DEF Inductive, LogBelowCounter, RowsCommitted
<1>3. IdsName'
  <2>1. ASSUME NEW op \in Operation, Issued(op)' PROVE Issued(op)
    BY <1>h, <1>s, <2>1 DEF Issued
  <2>2. QED
    BY <1>h, <2>1, IdsKept DEF Inductive
<1>4. \A x \in late' : IsFiniteSet(x)
  BY <1>h DEF Inductive
<1>5. QED
  BY <1>1, <1>2, <1>3, <1>4, <1>h, <1>s, StepSound

LEMMA CompactStep ==
  ASSUME Inductive, Compact
  PROVE  Inductive'
<1>h. /\ LatestSeq > Retain /\ minAvailable' = LatestSeq - Retain
      /\ log' = log \ {r \in log : r.seq <= LatestSeq - Retain}
      /\ UNCHANGED <<rows, lastSeq, history, local, pending, cursor, session, late, edits,
                     failures, forgotten>>
  BY DEF Compact
<1>1. minAvailable' \in Nat
  BY <1>h, LatestKnown, CompactionAssumption DEF Inductive
<1>2. TypeOK'
  BY <1>h, <1>1 DEF Inductive, TypeOK
<1>3. LogBelowCounter' /\ RowsCommitted'
  BY <1>h DEF Inductive, LogBelowCounter, RowsCommitted
<1>4. IdsName'
  <2>1. ASSUME NEW op \in Operation, Issued(op)' PROVE Issued(op)
    BY <1>h, <2>1 DEF Issued
  <2>2. QED
    BY <1>h, <2>1, IdsKept DEF Inductive
<1>5. \A x \in late' : IsFiniteSet(x)
  BY <1>h DEF Inductive
<1>6. QED
  BY <1>2, <1>3, <1>4, <1>5, <1>h, StepSound
-----------------------------------------------------------------------------
(* The desktop's side *)

(* A step of one device that the server takes no part in: operations leave  *)
(* its queue only when they are committed.                                  *)
LEMMA ClientStep ==
  ASSUME Inductive, NEW d \in Device, UNCHANGED <<log, rows, lastSeq, minAvailable, history, edits>>,
         TypeOK',
         \A e \in Device \ {d} : /\ local'[e] = local[e] /\ pending'[e] = pending[e]
                                 /\ session'[e] = session[e],
         pending'[d] \subseteq pending[d],
         session'[d].batch \subseteq pending[d] \cup session[d].batch,
         \A batch \in late' : batch \in late \/ batch = session[d].batch,
         OwnEditsSafe(d, pending'[d], local'[d]),
         SessionSound(d, session'[d], pending'[d])
  PROVE  Inductive'
<1>1. LogBelowCounter' /\ RowsCommitted'
  BY DEF Inductive, LogBelowCounter, RowsCommitted
<1>2. IdsName'
  <2>1. ASSUME NEW op \in Operation, Issued(op)' PROVE Issued(op)
    <3>1. CASE \E r \in history' : r.op = op
      BY <3>1 DEF Issued
    <3>2. CASE \E e \in Device : \E p \in pending'[e] \cup session'[e].batch : p.op = op
      BY <3>2 DEF Issued
    <3>3. CASE \E x \in late' : \E p \in x : p.op = op
      BY <3>3 DEF Issued
    <3>4. QED
      BY <2>1, <3>1, <3>2, <3>3 DEF Issued
  <2>2. QED
    BY <2>1, IdsKept DEF Inductive
<1>3. \A x \in late' : IsFiniteSet(x)
  BY DEF Inductive, DeviceSound, SessionSound
<1>4. DeviceSound(d)'
  <2>1. QueueSound(pending[d])
    BY DEF Inductive, DeviceSound
  <2>2. IsFiniteSet(pending'[d])
    BY <2>1, FS_Subset DEF QueueSound
  <2>3. QueueSound(pending'[d])
    BY <2>1, <2>2 DEF QueueSound
  <2>4. OwnEditsSafe(d, pending[d], local[d])'
    BY DEF OwnEditsSafe, Safe
  <2>5. SessionSound(d, session[d], pending[d])'
    BY DEF SessionSound, Committed, OwnEditsSafe, Safe
  <2>6. QED
    BY <2>3, <2>4, <2>5 DEF DeviceSound, QueueSound
<1>5. QED
  BY <1>1, <1>2, <1>3, <1>4, StepSound

LEMMA NoSessionTyped ==
  /\ NoSession \in Sessions
  /\ NoSession.phase = "off" /\ NoSession.batch = {} /\ NoSession.page = {}
  /\ NoSession.items = {} /\ NoSession.more = FALSE
<1>1. [m \in Memo |-> NoRow] \in LocalTable
  BY DEF LocalTable
<1>2. QED
  BY <1>1 DEF NoSession, Sessions, Phases

(* A session that carries nothing but numbers is sound.                     *)
LEMMA BareSession ==
  ASSUME NEW d, NEW s, NEW q,
         IsFiniteSet(s.batch), s.page = {}, s.items = {},
         s.phase \notin {"pushAnswered", "applying"}
  PROVE  SessionSound(d, s, q)
BY DEF SessionSound

(* The next turn pushes from the queue, or asks the server for news.        *)
LEMMA TurnSound ==
  ASSUME session \in [Device -> Sessions], NEW d \in Device, NEW top \in Nat,
         NEW queue \in SUBSET QueueRow, IsFiniteSet(queue), NextRequest(d, queue, top)
  PROVE  /\ session' \in [Device -> Sessions]
         /\ \A e \in Device \ {d} : session'[e] = session[e]
         /\ session'[d].batch \subseteq queue
         /\ \A q : SessionSound(d, session'[d], q)
<1> DEFINE turn == [NoSession EXCEPT !.top = top]
           some == {p \in queue : Place(queue, p) <= PushLimit}
           push == [turn EXCEPT !.phase = "pushSent", !.batch = some]
           ask == [turn EXCEPT !.phase = IF cursor[d] = 0 THEN "snapshotSent" ELSE "pullSent"]
<1>1. session' = [session EXCEPT ![d] = IF queue # {} THEN push ELSE ask]
  BY Zenon DEF NextRequest
<1>2. IsFiniteSet(some) /\ some \in SUBSET QueueRow /\ IsFiniteSet({})
  BY FS_Subset, FS_EmptySet
<1> HIDE DEF some
<1>3. /\ push \in Sessions /\ push.batch = some /\ push.page = {} /\ push.items = {}
      /\ push.phase = "pushSent"
  BY NoSessionTyped, <1>2 DEF Sessions, Phases
<1>4. /\ ask \in Sessions /\ ask.batch = {} /\ ask.page = {} /\ ask.items = {}
      /\ ask.phase \in {"snapshotSent", "pullSent"}
  BY NoSessionTyped DEF Sessions, Phases
<1> HIDE DEF push, ask
<1>5. CASE queue # {}
  <2>1. session'[d] = push /\ session' \in [Device -> Sessions]
    BY <1>1, <1>3, <1>5
  <2>2. \A q : SessionSound(d, session'[d], q)
    BY <2>1, <1>2, <1>3, BareSession
  <2>3. push.batch \subseteq queue
    BY <1>3 DEF some
  <2>4. QED
    BY <1>1, <2>1, <2>2, <2>3
<1>6. CASE queue = {}
  <2>1. session'[d] = ask /\ session' \in [Device -> Sessions]
    BY <1>1, <1>4, <1>6
  <2>2. \A q : SessionSound(d, session'[d], q)
    BY <2>1, <1>2, <1>4, BareSession
  <2>3. QED
    BY <1>1, <1>4, <2>1, <2>2
<1>7. QED
  BY <1>5, <1>6

LEMMA BeginSyncStep ==
  ASSUME Inductive, NEW d \in Device, BeginSync(d)
  PROVE  Inductive'
<1>h. /\ NextRequest(d, pending[d], cursor[d])
      /\ UNCHANGED <<log, rows, lastSeq, minAvailable, history, local, pending, cursor, late,
                     edits, failures, forgotten>>
  BY DEF BeginSync, server
<1>t. TypeOK /\ DeviceSound(d)
  BY DEF Inductive
<1>1. /\ session \in [Device -> Sessions] /\ cursor[d] \in Nat
      /\ pending[d] \in SUBSET QueueRow /\ IsFiniteSet(pending[d])
  BY <1>t DEF TypeOK, DeviceSound, QueueSound
<1>2. /\ session' \in [Device -> Sessions]
      /\ \A e \in Device \ {d} : session'[e] = session[e]
      /\ session'[d].batch \subseteq pending[d]
      /\ \A q : SessionSound(d, session'[d], q)
  BY <1>1, <1>h, TurnSound
<1>3. TypeOK'
  BY <1>t, <1>2, <1>h DEF TypeOK
<1>4. OwnEditsSafe(d, pending'[d], local'[d])
  BY <1>t, <1>h DEF DeviceSound
<1>5. QED
  BY <1>2, <1>3, <1>4, <1>h, ClientStep

(* The highest of two numbers is a number.                                  *)
LEMMA MaxOfTwo ==
  ASSUME NEW a \in Nat, NEW b \in Nat
  PROVE  Max({a, b}) \in Nat
<1>1. {a, b} \in SUBSET Nat /\ {a, b} # {} /\ \A x \in {a, b} : x <= a + b
  OBVIOUS
<1>2. Max({a, b}) \in {a, b}
  BY <1>1, MaxOfBounded
<1>3. QED
  BY <1>2

LEMMA FinishPushStep ==
  ASSUME Inductive, NEW d \in Device, FinishPush(d)
  PROVE  Inductive'
<1> DEFINE s == session[d]
           left == {p \in pending[d] : ~Pushed(p.op, s.batch)}
<1>h. /\ s.phase = "pushAnswered"
      /\ pending' = [pending EXCEPT ![d] = left]
      /\ NextRequest(d, pending'[d], Max({s.top, s.sequence}))
      /\ UNCHANGED <<log, rows, lastSeq, minAvailable, history, local, cursor, late,
                     edits, failures, forgotten>>
  BY DEF FinishPush, server
<1>t. TypeOK /\ IdsName /\ DeviceSound(d)
  BY DEF Inductive
<1>1. /\ session \in [Device -> Sessions] /\ s.top \in Nat /\ s.sequence \in Nat
      /\ pending \in [Device -> SUBSET QueueRow] /\ s.batch \in SUBSET QueueRow
      /\ IsFiniteSet(pending[d])
  BY <1>t DEF TypeOK, Sessions, DeviceSound, QueueSound
<1>2. left \in SUBSET QueueRow /\ left \subseteq pending[d] /\ IsFiniteSet(left)
  BY <1>1, FS_Subset
<1>3. /\ pending'[d] = left /\ pending' \in [Device -> SUBSET QueueRow]
      /\ \A e \in Device \ {d} : pending'[e] = pending[e]
  BY <1>1, <1>2, <1>h
<1>4. /\ session' \in [Device -> Sessions]
      /\ \A e \in Device \ {d} : session'[e] = session[e]
      /\ session'[d].batch \subseteq left
      /\ \A q : SessionSound(d, session'[d], q)
  <2>1. NextRequest(d, left, Max({s.top, s.sequence}))
    BY <1>h, <1>3
  <2>2. QED
    BY <1>1, <1>2, <2>1, MaxOfTwo, TurnSound
<1>5. TypeOK'
  BY <1>t, <1>3, <1>4, <1>h DEF TypeOK
<1>6. OwnEditsSafe(d, left, local[d])
  <2>1. ASSUME NEW p \in pending[d], p \notin left PROVE Committed(p.op)
    <3>1. PICK b \in s.batch : b.op.id = p.op.id
      BY <2>1 DEF Pushed
    <3>2. b.op \in IssuedOps /\ p.op \in IssuedOps
      BY <1>1, <3>1 DEF IssuedOps, Issued, QueueRow
    <3>3. b.op = p.op
      BY <1>t, <3>1, <3>2 DEF IdsName
    <3>4. Committed(b.op)
      BY <1>t, <1>h DEF DeviceSound, SessionSound
    <3>5. QED
      BY <3>3, <3>4
  <2>2. ASSUME NEW m, NEW v, Safe(pending[d], m, v) PROVE Safe(left, m, v)
    BY <2>1, <2>2 DEF Safe, Committed
  <2>3. QED
    BY <1>t, <2>2 DEF DeviceSound, OwnEditsSafe
<1> HIDE DEF left
<1>7. OwnEditsSafe(d, pending'[d], local'[d])
  BY <1>3, <1>6, <1>h
<1>8. QED
  BY <1>2, <1>3, <1>4, <1>5, <1>7, <1>h, ClientStep

LEMMA HandleSnapshotStep ==
  ASSUME Inductive, NEW d \in Device, HandleSnapshot(d)
  PROVE  Inductive'
<1> DEFINE s == session[d]
           shown == {[entity |-> m, content |-> rows[m].content, stamp |-> rows[m].stamp] :
                       m \in LiveRows}
           new == [s EXCEPT !.phase = "snapshotAnswered", !.sequence = LatestSeq,
                            !.items = shown]
<1>h. /\ s.phase = "snapshotSent"
      /\ session' = [session EXCEPT ![d] = new]
      /\ forgotten' = [forgotten EXCEPT ![d] = @ \cup (AllRows \ LiveRows)]
      /\ UNCHANGED <<log, rows, lastSeq, minAvailable, history, local, pending, cursor, late,
                     edits, failures>>
  BY DEF HandleSnapshot, server
<1>t. TypeOK /\ DeviceSound(d) /\ RowsCommitted /\ LogBelowCounter
  BY DEF Inductive
<1>1. session \in [Device -> Sessions] /\ s \in Sessions /\ LatestSeq \in Nat
  BY <1>t, LatestKnown DEF TypeOK
<1>2. ASSUME NEW x \in shown
      PROVE  x \in Item /\ \E r \in history : r.op.entity = x.entity /\ r.op.stamp = x.stamp
  <2>1. PICK m \in LiveRows :
          x = [entity |-> m, content |-> rows[m].content, stamp |-> rows[m].stamp]
    OBVIOUS
  <2>2. m \in Memo /\ m \in Entity /\ rows[m] # NoRow /\ rows[m].deleted = "no"
    BY DEF LiveRows, AllRows, Entity
  <2>3. rows[m] \in StateRow /\ rows[m].content \in Content
    BY <1>t, <2>2 DEF TypeOK, RowsCommitted
  <2>4. rows[m].stamp \in Stamp
    BY <2>3 DEF StateRow
  <2>5. \E r \in history : r.op.entity = m /\ r.op.stamp = rows[m].stamp
    BY <1>t, <2>2 DEF RowsCommitted
  <2>6. QED
    BY <2>1, <2>2, <2>3, <2>4, <2>5 DEF Item
<1> HIDE DEF shown
<1>3. /\ new \in Sessions /\ new.batch = s.batch /\ new.page = s.page /\ new.items = shown
      /\ new.phase = "snapshotAnswered"
  BY <1>1, <1>2 DEF Sessions, Phases
<1> HIDE DEF new
<1>4. /\ session'[d] = new /\ session' \in [Device -> Sessions]
      /\ \A e \in Device \ {d} : session'[e] = session[e]
  BY <1>1, <1>3, <1>h
<1>5. forgotten' \in [Device -> SUBSET Memo]
  BY <1>t, <1>h DEF TypeOK, AllRows
<1>6. TypeOK'
  BY <1>t, <1>4, <1>5, <1>h DEF TypeOK
<1>7. SessionSound(d, new, pending[d])
  <2>1. SessionSound(d, s, pending[d])
    BY <1>t DEF DeviceSound
  <2>2. QED
    BY <2>1, <1>2, <1>3 DEF SessionSound
<1>8. /\ SessionSound(d, session'[d], pending'[d]) /\ OwnEditsSafe(d, pending'[d], local'[d])
      /\ session'[d].batch \subseteq pending[d] \cup session[d].batch
  BY <1>t, <1>3, <1>4, <1>7, <1>h DEF DeviceSound
<1>9. QED
  BY <1>4, <1>6, <1>8, <1>h, ClientStep

LEMMA ApplySnapshotStep ==
  ASSUME Inductive, NEW d \in Device, ApplySnapshot(d)
  PROVE  Inductive'
<1> DEFINE s == session[d]
           Of(m) == {x \in s.items : x.entity = m}
           table == [m \in Memo |-> IF Of(m) = {} THEN local[d][m]
                                    ELSE ApplyItem(local[d][m], CHOOSE x \in Of(m) : TRUE)]
           new == [NoSession EXCEPT !.phase = "pullSent", !.top = Max({s.top, s.sequence})]
<1>h. /\ local' = [local EXCEPT ![d] = table]
      /\ cursor' = [cursor EXCEPT ![d] = s.sequence]
      /\ session' = [session EXCEPT ![d] = new]
      /\ UNCHANGED <<log, rows, lastSeq, minAvailable, history, pending, late, edits,
                     failures, forgotten>>
  BY DEF ApplySnapshot, server
<1>t. TypeOK /\ DeviceSound(d)
  BY DEF Inductive
<1>1. /\ session \in [Device -> Sessions] /\ s \in Sessions
      /\ s.sequence \in Nat /\ s.top \in Nat /\ s.items \in SUBSET Item
      /\ local \in [Device -> LocalTable] /\ local[d] \in LocalTable
      /\ cursor \in [Device -> Nat]
  BY <1>t DEF TypeOK, Sessions
<1>2. ASSUME NEW m \in Memo
      PROVE  /\ table[m] \in LocalRow \cup {NoRow}
             /\ \/ table[m] = local[d][m]
                \/ \E r \in history : r.op.entity = m /\ r.op.stamp = table[m].version
  <2>1. CASE Of(m) = {}
    BY <1>1, <2>1 DEF LocalTable
  <2>2. CASE Of(m) # {}
    <3>1. PICK x \in Of(m) : table[m] = ApplyItem(local[d][m], x)
      BY <2>2
    <3>2. x \in Item /\ x \in s.items /\ x.entity = m
      BY <1>1
    <3>3. PICK r \in history : r.op.entity = m /\ r.op.stamp = x.stamp
      BY <1>t, <3>2 DEF DeviceSound, SessionSound
    <3>4. /\ Saved(x.content, x.stamp) \in LocalRow
          /\ Saved(x.content, x.stamp).version = x.stamp
      BY <3>2 DEF Saved, LocalRow, Item, Flag
    <3>5. local[d][m] \in LocalRow \cup {NoRow}
      BY <1>1 DEF LocalTable
    <3>6. QED
      BY <3>1, <3>3, <3>4, <3>5 DEF ApplyItem
  <2>3. QED
    BY <2>1, <2>2
<1>3. table \in LocalTable
  BY <1>2 DEF LocalTable
<1> HIDE DEF table
<1>4. OwnEditsSafe(d, pending[d], table)
  <2>1. ASSUME NEW m \in Memo, table[m] # NoRow, table[m].version.device = d
        PROVE  Safe(pending[d], m, table[m].version)
    <3>1. CASE table[m] = local[d][m]
      BY <1>t, <2>1, <3>1 DEF DeviceSound, OwnEditsSafe
    <3>2. CASE table[m] # local[d][m]
      BY <1>2, <3>2 DEF Safe
    <3>3. QED
      BY <3>1, <3>2
  <2>2. QED
    BY <2>1 DEF OwnEditsSafe
<1>5. /\ new \in Sessions /\ new.batch = {} /\ new.page = {} /\ new.items = {}
      /\ new.phase = "pullSent"
  <2>1. Max({s.top, s.sequence}) \in Nat
    BY <1>1, MaxOfTwo
  <2>2. QED
    BY <2>1, NoSessionTyped DEF Sessions, Phases
<1> HIDE DEF new
<1>6. /\ session'[d] = new /\ session' \in [Device -> Sessions]
      /\ local'[d] = table /\ local' \in [Device -> LocalTable]
      /\ cursor' \in [Device -> Nat]
      /\ \A e \in Device \ {d} : session'[e] = session[e] /\ local'[e] = local[e]
  BY <1>1, <1>3, <1>5, <1>h
<1>7. TypeOK'
  BY <1>t, <1>6, <1>h DEF TypeOK
<1>8. SessionSound(d, new, pending[d])
  BY <1>5, FS_EmptySet, BareSession
<1>9. QED
  BY <1>4, <1>5, <1>6, <1>7, <1>8, <1>h, ClientStep

(* The highest number of a set of committed rows, or 0.                     *)
LEMMA MaxOfRows ==
  ASSUME NEW S \in SUBSET history, TypeOK, LogBelowCounter
  PROVE  Max({0} \cup {r.seq : r \in S}) \in Nat
<1> DEFINE T == {0} \cup {r.seq : r \in S}
<1>1. T \in SUBSET Nat /\ T # {} /\ lastSeq \in Nat /\ \A x \in T : x <= lastSeq
  BY DEF TypeOK, LogBelowCounter, LogRow
<1>2. Max(T) \in T
  BY <1>1, MaxOfBounded
<1>3. QED
  BY <1>1, <1>2

LEMMA HandlePullStep ==
  ASSUME Inductive, NEW d \in Device, HandlePull(d)
  PROVE  Inductive'
<1> DEFINE s == session[d]
           page == FirstRows(Wanted(d), PullLimit)
           sequence == Max({0} \cup IF page = {} THEN {LatestSeq} ELSE {r.seq : r \in page})
           behind == [s EXCEPT !.phase = "snapshotSent"]
           answered == [s EXCEPT !.phase = IF page = {} THEN "pullEmpty" ELSE "pullAnswered",
                                 !.page = page, !.more = page # Wanted(d),
                                 !.sequence = sequence]
<1>h. /\ session' = [session EXCEPT ![d] = IF BehindHorizon(d) THEN behind ELSE answered]
      /\ UNCHANGED <<log, rows, lastSeq, minAvailable, history, local, pending, cursor, late,
                     edits, failures, forgotten>>
  BY Zenon DEF HandlePull, Goto, server
<1>t. TypeOK /\ DeviceSound(d) /\ LogBelowCounter /\ RowsCommitted
  BY DEF Inductive
<1>1. session \in [Device -> Sessions] /\ s \in Sessions
  BY <1>t DEF TypeOK
<1>2. /\ page \in SUBSET LogRow /\ page \subseteq history
      /\ \A r \in page : r.op.stamp.device # d
  BY <1>t DEF FirstRows, Wanted, TypeOK, LogBelowCounter
<1> HIDE DEF page
<1>3. sequence \in Nat
  <2>1. CASE page = {}
    <3>1. LatestSeq \in Nat
      BY <1>t, LatestKnown
    <3>2. {0} \cup {LatestSeq} = {0, LatestSeq}
      OBVIOUS
    <3>3. QED
      BY <2>1, <3>1, <3>2, MaxOfTwo
  <2>2. CASE page # {}
    BY <2>2, <1>2, <1>t, MaxOfRows
  <2>3. QED
    BY <2>1, <2>2
<1> HIDE DEF sequence
<1>4. /\ behind \in Sessions /\ behind.batch = s.batch /\ behind.page = s.page
      /\ behind.items = s.items /\ behind.phase = "snapshotSent"
  BY <1>1 DEF Sessions, Phases
<1>5. /\ answered \in Sessions /\ answered.batch = s.batch /\ answered.page = page
      /\ answered.items = s.items /\ answered.phase \in {"pullEmpty", "pullAnswered"}
  BY <1>1, <1>2, <1>3 DEF Sessions, Phases
<1>6. SessionSound(d, s, pending[d])
  BY <1>t DEF DeviceSound
<1>7. SessionSound(d, behind, pending[d])
  BY <1>4, <1>6 DEF SessionSound
<1>8. SessionSound(d, answered, pending[d])
  BY <1>2, <1>5, <1>6 DEF SessionSound
<1> HIDE DEF behind, answered
<1>9. /\ session' \in [Device -> Sessions]
      /\ \A e \in Device \ {d} : session'[e] = session[e]
      /\ session'[d].batch = s.batch /\ SessionSound(d, session'[d], pending[d])
  BY <1>1, <1>4, <1>5, <1>7, <1>8, <1>h
<1>10. TypeOK'
  BY <1>t, <1>9, <1>h DEF TypeOK
<1>11. OwnEditsSafe(d, pending'[d], local'[d]) /\ SessionSound(d, session'[d], pending'[d])
  BY <1>t, <1>9, <1>h DEF DeviceSound
<1>12. QED
  BY <1>9, <1>10, <1>11, <1>h, ClientStep

(* A pulled operation leaves the row as it was, or at the operation's stamp.*)
LEMMA ApplyRemoteCases ==
  ASSUME NEW row \in LocalRow \cup {NoRow}, NEW op \in Operation,
         NEW new, new = ApplyRemote(row, op)
  PROVE  /\ new \in LocalRow \cup {NoRow}
         /\ new = row \/ new.version = op.stamp
<1> USE OperationParts
<1>1. CASE ~LocalWins(row, op.stamp)
  BY <1>1 DEF ApplyRemote
<1>2. CASE LocalWins(row, op.stamp) /\ op.kind = "upsert"
  <2>1. new = [content |-> op.content, deleted |-> op.deleted, version |-> op.stamp]
    BY <1>2 DEF ApplyRemote
  <2>2. new \in LocalRow
    BY <1>2, <2>1 DEF LocalRow
  <2>3. QED
    BY <2>1, <2>2
<1>3. CASE LocalWins(row, op.stamp) /\ op.kind = "delete"
  <2>1. new = IF row = NoRow THEN row ELSE Removed(row, op.stamp)
    BY <1>3 DEF ApplyRemote
  <2>2. row # NoRow => /\ Removed(row, op.stamp) \in LocalRow
                       /\ Removed(row, op.stamp).version = op.stamp
    BY DEF Removed, LocalRow, Flag
  <2>3. QED
    BY <2>1, <2>2
<1>4. CASE LocalWins(row, op.stamp) /\ op.kind = "patch"
  <2>1. CASE row = NoRow
    BY <1>4, <2>1 DEF ApplyRemote
  <2>2. CASE row # NoRow
    <3>1. /\ row.content \in Content /\ row.deleted \in Flag
          /\ Patched(row.content, op.content) \in Content
      BY <1>4, <2>2, PatchedType DEF LocalRow
    <3>2. new = [content |-> Patched(row.content, op.content),
                 deleted |-> IF op.deleted = "unset" THEN row.deleted ELSE op.deleted,
                 version |-> op.stamp]
      BY <1>4, <2>2 DEF ApplyRemote
    <3>3. (IF op.deleted = "unset" THEN row.deleted ELSE op.deleted) \in Flag
      BY <1>4, <3>1
    <3>4. QED
      BY <3>1, <3>2, <3>3 DEF LocalRow
  <2>3. QED
    BY <2>1, <2>2
<1>5. QED
  BY <1>1, <1>2, <1>3, <1>4

LEMMA ApplyNextStep ==
  ASSUME Inductive, NEW d \in Device, ApplyNext(d)
  PROVE  Inductive'
<1> DEFINE s == session[d]
           table == IF s.phase = "pullAnswered" THEN local[d] ELSE s.table
           new(r) == [s EXCEPT !.phase = "applying", !.page = s.page \ {r},
                        !.table = [table EXCEPT ![r.op.entity] =
                                     ApplyRemote(table[r.op.entity], r.op)]]
<1>h. /\ s.phase \in {"pullAnswered", "applying"}
      /\ UNCHANGED <<log, rows, lastSeq, minAvailable, history, local, pending, cursor, late,
                     edits, failures>>
  BY DEF ApplyNext, server
<1>r. PICK r \in s.page :
        /\ session' = [session EXCEPT ![d] = new(r)]
        /\ forgotten' = IF r.op.kind = "delete" /\ table[r.op.entity] = NoRow
             THEN [forgotten EXCEPT ![d] = @ \cup {r.op.entity}] ELSE forgotten
  BY DEF ApplyNext
<1>t. TypeOK /\ DeviceSound(d)
  BY DEF Inductive
<1> DEFINE m == r.op.entity
           row == ApplyRemote(table[m], r.op)
           after == [table EXCEPT ![m] = row]
<1>1. /\ session \in [Device -> Sessions] /\ s \in Sessions /\ r \in LogRow
      /\ local[d] \in LocalTable /\ s.table \in LocalTable /\ table \in LocalTable
  BY <1>t DEF TypeOK, Sessions
<1>2. r.op \in Operation /\ r.op.stamp.device # d
  BY <1>1, <1>t DEF LogRow, DeviceSound, SessionSound
<1>3. OwnEditsSafe(d, pending[d], table)
  BY <1>t, <1>h DEF DeviceSound, SessionSound
<1> HIDE DEF table
<1>4. ASSUME m \in Memo
      PROVE  row \in LocalRow \cup {NoRow} /\ (row = table[m] \/ row.version = r.op.stamp)
  BY <1>1, <1>2, <1>4, ApplyRemoteCases DEF LocalTable
<1>5. after \in LocalTable
  <2>1. CASE m \in Memo
    BY <1>1, <1>4, <2>1 DEF LocalTable
  <2>2. CASE m \notin Memo
    BY <1>1, <2>2 DEF LocalTable
  <2>3. QED
    BY <2>1, <2>2
<1>6. OwnEditsSafe(d, pending[d], after)
  <2>1. ASSUME NEW x \in Memo, after[x] # NoRow, after[x].version.device = d
        PROVE  after[x] = table[x]
    <3>1. CASE x = m
      <4>1. after[x] = row
        BY <1>1, <3>1 DEF LocalTable
      <4>2. QED
        BY <1>2, <1>4, <2>1, <3>1, <4>1
    <3>2. CASE x # m
      BY <1>1, <3>2 DEF LocalTable
    <3>3. QED
      BY <3>1, <3>2
  <2>2. QED
    BY <1>3, <2>1 DEF OwnEditsSafe
<1> HIDE DEF row, after
<1>7. new(r) = [s EXCEPT !.phase = "applying", !.page = s.page \ {r}, !.table = after]
  BY DEF after, row
<1>8. /\ new(r) \in Sessions /\ new(r).batch = s.batch /\ new(r).page = s.page \ {r}
      /\ new(r).items = s.items /\ new(r).phase = "applying" /\ new(r).table = after
  BY <1>1, <1>5, <1>7 DEF Sessions, Phases
<1>9. SessionSound(d, new(r), pending[d])
  <2>1. SessionSound(d, s, pending[d])
    BY <1>t DEF DeviceSound
  <2>2. QED
    BY <2>1, <1>6, <1>8 DEF SessionSound
<1> HIDE DEF new
<1>10. /\ session'[d] = new(r) /\ session' \in [Device -> Sessions]
       /\ \A e \in Device \ {d} : session'[e] = session[e]
  BY <1>1, <1>8, <1>r
<1>11. forgotten' \in [Device -> SUBSET Memo]
  <2>1. r \in history
    BY <1>t DEF DeviceSound, SessionSound
  <2>2. r.op \in IssuedOps
    BY <1>2, <2>1 DEF IssuedOps, Issued
  <2>3. m \in Memo
    BY <2>2 DEF Inductive, IdsName
  <2>4. QED
    BY <1>t, <1>r, <2>3 DEF TypeOK
<1>12. TypeOK'
  BY <1>t, <1>10, <1>11, <1>h DEF TypeOK
<1>13. /\ OwnEditsSafe(d, pending'[d], local'[d]) /\ SessionSound(d, session'[d], pending'[d])
       /\ session'[d].batch \subseteq pending[d] \cup session[d].batch
  BY <1>t, <1>8, <1>9, <1>10, <1>h DEF DeviceSound
<1>14. QED
  BY <1>10, <1>12, <1>13, <1>h, ClientStep

(* What both ends of a pull leave of the session.                           *)
LEMMA ContinueSound ==
  ASSUME session \in [Device -> Sessions], NEW d \in Device, NEW top \in Nat, Continue(d, top)
  PROVE  /\ session' \in [Device -> Sessions]
         /\ \A e \in Device \ {d} : session'[e] = session[e]
         /\ session'[d].batch = {}
         /\ \A q : SessionSound(d, session'[d], q)
<1> DEFINE more == [NoSession EXCEPT !.phase = "pullSent", !.top = top]
<1>1. session' = [session EXCEPT ![d] = IF session[d].more THEN more ELSE NoSession]
  BY DEF Continue
<1>2. /\ more \in Sessions /\ more.batch = {} /\ more.page = {} /\ more.items = {}
      /\ more.phase = "pullSent"
  BY NoSessionTyped DEF Sessions, Phases
<1> HIDE DEF more
<1>3. IsFiniteSet({})
  BY FS_EmptySet
<1>4. /\ \A q : SessionSound(d, more, q) /\ SessionSound(d, NoSession, q)
  BY <1>2, <1>3, NoSessionTyped, BareSession
<1>5. session'[d] = more \/ session'[d] = NoSession
  BY <1>1
<1>6. session' \in [Device -> Sessions]
  BY <1>1, <1>2, NoSessionTyped
<1>7. QED
  BY <1>1, <1>2, <1>4, <1>5, <1>6, NoSessionTyped

LEMMA CommitApplyStep ==
  ASSUME Inductive, NEW d \in Device, CommitApply(d)
  PROVE  Inductive'
<1> DEFINE s == session[d]
<1>h. /\ s.phase = "applying"
      /\ local' = [local EXCEPT ![d] = s.table]
      /\ cursor' = [cursor EXCEPT ![d] = s.sequence]
      /\ Continue(d, Max({s.top, s.sequence}))
      /\ UNCHANGED <<log, rows, lastSeq, minAvailable, history, pending, late, edits,
                     failures, forgotten>>
  BY DEF CommitApply, server
<1>t. TypeOK /\ DeviceSound(d)
  BY DEF Inductive
<1>1. /\ session \in [Device -> Sessions] /\ s.table \in LocalTable
      /\ s.sequence \in Nat /\ s.top \in Nat
      /\ local \in [Device -> LocalTable] /\ cursor \in [Device -> Nat]
  BY <1>t DEF TypeOK, Sessions
<1>2. /\ session' \in [Device -> Sessions]
      /\ \A e \in Device \ {d} : session'[e] = session[e]
      /\ session'[d].batch = {}
      /\ \A q : SessionSound(d, session'[d], q)
  BY <1>1, <1>h, MaxOfTwo, ContinueSound
<1>3. /\ local'[d] = s.table /\ local' \in [Device -> LocalTable]
      /\ \A e \in Device \ {d} : local'[e] = local[e]
      /\ cursor' \in [Device -> Nat]
  BY <1>1, <1>h
<1>4. TypeOK'
  BY <1>t, <1>2, <1>3, <1>h DEF TypeOK
<1>5. OwnEditsSafe(d, pending'[d], local'[d])
  BY <1>t, <1>3, <1>h DEF DeviceSound, SessionSound
<1>6. QED
  BY <1>2, <1>3, <1>4, <1>5, <1>h, ClientStep

LEMMA FinishPullStep ==
  ASSUME Inductive, NEW d \in Device, FinishPull(d)
  PROVE  Inductive'
<1> DEFINE s == session[d]
           top == Max({s.top, s.sequence})
<1>h. /\ cursor' = [cursor EXCEPT ![d] = top]
      /\ Continue(d, top)
      /\ UNCHANGED <<log, rows, lastSeq, minAvailable, history, local, pending, late, edits,
                     failures, forgotten>>
  BY DEF FinishPull, server
<1>t. TypeOK /\ DeviceSound(d)
  BY DEF Inductive
<1>1. session \in [Device -> Sessions] /\ top \in Nat /\ cursor \in [Device -> Nat]
  <2>1. s.sequence \in Nat /\ s.top \in Nat
    BY <1>t DEF TypeOK, Sessions
  <2>2. QED
    BY <1>t, <2>1, MaxOfTwo DEF TypeOK
<1> HIDE DEF top
<1>2. /\ session' \in [Device -> Sessions]
      /\ \A e \in Device \ {d} : session'[e] = session[e]
      /\ session'[d].batch = {}
      /\ \A q : SessionSound(d, session'[d], q)
  BY <1>1, <1>h, ContinueSound
<1>3. cursor' \in [Device -> Nat]
  BY <1>1, <1>h
<1>4. TypeOK'
  BY <1>t, <1>2, <1>3, <1>h DEF TypeOK
<1>5. OwnEditsSafe(d, pending'[d], local'[d])
  BY <1>t, <1>h DEF DeviceSound
<1>6. QED
  BY <1>2, <1>4, <1>5, <1>h, ClientStep

LEMMA GiveUpStep ==
  ASSUME Inductive, NEW d \in Device, GiveUp(d)
  PROVE  Inductive'
<1>h. /\ failures' = failures + 1
      /\ session' = [session EXCEPT ![d] = NoSession]
      /\ late' = IF session[d].phase = "pushSent" THEN late \cup {session[d].batch} ELSE late
      /\ UNCHANGED <<log, rows, lastSeq, minAvailable, history, local, pending, cursor, edits,
                     forgotten>>
  BY DEF GiveUp, server
<1>t. TypeOK /\ DeviceSound(d)
  BY DEF Inductive
<1>1. session \in [Device -> Sessions] /\ session[d].batch \in SUBSET QueueRow
  BY <1>t DEF TypeOK, Sessions
<1>2. /\ session' \in [Device -> Sessions] /\ session'[d] = NoSession
      /\ \A e \in Device \ {d} : session'[e] = session[e]
  BY <1>1, <1>h, NoSessionTyped
<1>3. late' \in SUBSET SUBSET QueueRow
  BY <1>t, <1>1, <1>h DEF TypeOK
<1>4. TypeOK'
  BY <1>t, <1>2, <1>3, <1>h DEF TypeOK
<1>5. OwnEditsSafe(d, pending'[d], local'[d])
  BY <1>t, <1>h DEF DeviceSound
<1>6. SessionSound(d, NoSession, pending'[d])
  BY NoSessionTyped, FS_EmptySet, BareSession
<1>7. QED
  BY <1>2, <1>4, <1>5, <1>6, <1>h, NoSessionTyped, ClientStep
-----------------------------------------------------------------------------
(* Edits *)

(* A row shows what an operation writes, or at least that it deletes.       *)
Says(op, row) ==
  IF op.kind = "upsert" THEN row.deleted = "no" /\ row.content = op.content
                        ELSE row.deleted = "yes"

(* The operation that an edit of memo m makes, and the row.                 *)
Makes(d, m, wall, op, row) ==
  /\ op.entity = m /\ op.id = edits + 1 /\ op.stamp = row.version
  /\ op.stamp.device = d /\ op.stamp.wall = wall
  /\ op.kind # "patch" /\ (op.kind = "upsert" => op.deleted = "no")
  /\ Says(op, row)
  /\ pending' = [pending EXCEPT ![d] = Queued(pending[d], [at |-> edits + 1, op |-> op])]
  /\ local' = [local EXCEPT ![d] = [local[d] EXCEPT ![m] = row]]

LEMMA EditParts ==
  ASSUME Inductive, NEW d \in Device, NEW m \in Memo, NEW wall \in Readings(d),
         NEW kind, Edit(d, kind, m, wall), kind # "save" => local[d][m] # NoRow
  PROVE  \E op \in Operation, row \in LocalRow : Makes(d, m, wall, op, row)
<1> DEFINE stamp == [wall |-> wall, counter |-> 0, device |-> d]
           content == IF kind = "save" THEN TextOf(edits + 1) ELSE NoContent
           op == [id |-> edits + 1, kind |-> IF kind = "save" THEN "upsert" ELSE "delete",
                  entity |-> m, content |-> content,
                  deleted |-> IF kind = "save" THEN "no" ELSE "yes", stamp |-> stamp]
           row == IF kind = "save" THEN Saved(content, stamp) ELSE Removed(local[d][m], stamp)
<1>h. /\ edits + 1 \in OpId /\ edits' = edits + 1
      /\ pending' = [pending EXCEPT ![d] = Queued(@, [at |-> edits', op |-> op])]
      /\ local' = [local EXCEPT ![d] = [local[d] EXCEPT ![m] = row]]
  BY DEF Edit
<1>1. /\ local[d][m] \in LocalRow \cup {NoRow}
      /\ pending \in [Device -> SUBSET QueueRow]
  BY DEF Inductive, TypeOK, LocalTable
<1>2. stamp \in Stamp /\ stamp.device = d /\ stamp.wall = wall
  <2>1. wall \in 1..MaxWall /\ MaxWall \in Nat
    BY SkewAssumption DEF Readings
  <2>2. wall \in Nat /\ 0 \in 0..MaxCounter
    BY <2>1 DEF MaxCounter
  <2>3. QED
    BY <2>2 DEF Stamp
<1> HIDE DEF stamp
<1>3. /\ op \in Operation /\ row \in LocalRow /\ row.version = stamp /\ Says(op, row)
      /\ op.kind # "patch" /\ (op.kind = "upsert" => op.deleted = "no")
  <2>1. CASE kind = "save"
    <3>1. content \in Content
      BY <1>h, <2>1, TextAssumption
    <3>2. op = [id |-> edits + 1, kind |-> "upsert", entity |-> m, content |-> content,
                deleted |-> "no", stamp |-> stamp]
      BY <2>1
    <3>3. row = [content |-> content, deleted |-> "no", version |-> stamp]
      BY <2>1 DEF Saved
    <3> HIDE DEF content, op, row
    <3>4. op \in [id: OpId, kind: {"upsert"}, entity: Memo \cup Attachment, content: Content,
                  deleted: Flag, stamp: Stamp]
      BY <1>h, <1>2, <3>1, <3>2 DEF Flag
    <3>5. op \in Operation
      BY <3>4 DEF Operation
    <3>6. row \in LocalRow
      BY <1>2, <3>1, <3>3 DEF LocalRow, Flag
    <3>7. QED
      BY <3>2, <3>3, <3>5, <3>6 DEF Says
  <2>2. CASE kind # "save"
    <3>1. content = NoContent /\ local[d][m] \in LocalRow
      BY <1>1, <2>2
    <3>2. op = [id |-> edits + 1, kind |-> "delete", entity |-> m, content |-> content,
                deleted |-> "yes", stamp |-> stamp]
      BY <2>2
    <3>3. row = [local[d][m] EXCEPT !.deleted = "yes", !.version = stamp]
      BY <2>2 DEF Removed
    <3> HIDE DEF content, op, row
    <3>4. op \in [id: OpId, kind: {"delete"}, entity: Memo \cup Attachment,
                  content: {NoContent}, deleted: {"yes"}, stamp: Stamp]
      BY <1>h, <1>2, <3>1, <3>2
    <3>5. op \in Operation
      BY <3>4 DEF Operation
    <3>6. row \in LocalRow /\ row.version = stamp /\ row.deleted = "yes"
      BY <1>2, <3>1, <3>3 DEF LocalRow, Flag
    <3>7. QED
      BY <3>2, <3>5, <3>6 DEF Says
  <2>3. QED
    BY <2>1, <2>2
<1>4. op.entity = m /\ op.stamp = stamp /\ op.id = edits + 1
  OBVIOUS
<1> HIDE DEF op, row
<1>5. pending' = [pending EXCEPT ![d] = Queued(pending[d], [at |-> edits + 1, op |-> op])]
  BY <1>h
<1>6. QED
  BY <1>2, <1>3, <1>4, <1>5, <1>h DEF Makes

LEMMA EditStep ==
  ASSUME Inductive, NEW d \in Device, NEW m \in Memo, NEW wall \in Readings(d),
         NEW kind, Edit(d, kind, m, wall), kind # "save" => local[d][m] # NoRow
  PROVE  Inductive'
<1>h. /\ session[d].phase # "applying" /\ edits' = edits + 1
      /\ UNCHANGED <<log, rows, lastSeq, minAvailable, history, cursor, session, late,
                     failures, forgotten>>
  BY DEF Edit, server
<1>o. PICK op \in Operation, row \in LocalRow : Makes(d, m, wall, op, row)
  BY EditParts
<1>4. op.entity = m /\ op.id = edits + 1 /\ op.stamp = row.version
  BY <1>o DEF Makes
<1> DEFINE queued == [at |-> edits + 1, op |-> op]
           queue == Queued(pending[d], queued)
           table == [local[d] EXCEPT ![m] = row]
<1>t. TypeOK /\ IdsName /\ DeviceSound(d)
  BY DEF Inductive
<1>1. /\ edits \in Nat /\ edits + 1 \in Nat
      /\ local \in [Device -> LocalTable] /\ local[d] \in LocalTable
      /\ pending \in [Device -> SUBSET QueueRow] /\ pending[d] \in SUBSET QueueRow
      /\ QueueSound(pending[d])
  BY <1>t DEF TypeOK, LocalTable, DeviceSound
<1>6. queued \in QueueRow /\ queued.op = op
  BY <1>1 DEF QueueRow
<1>7. /\ pending' = [pending EXCEPT ![d] = queue]
      /\ local' = [local EXCEPT ![d] = table]
  BY <1>o DEF Makes
<1> HIDE DEF queued
<1>8. /\ queue \in SUBSET QueueRow /\ QueueSound(queue)
      /\ \E p \in queue : p.op = op
      /\ \A p \in queue : p.op = op \/ p \in pending[d]
      /\ \A p \in pending[d] : p.op.entity = m \/ p \in queue
  BY <1>1, <1>4, <1>6, QueuedSound
<1>9. /\ table \in LocalTable /\ table[m] = row
      /\ \A x \in Memo : x # m => table[x] = local[d][x]
  BY <1>1 DEF LocalTable
<1> HIDE DEF queue, table
<1>10. /\ pending'[d] = queue /\ pending' \in [Device -> SUBSET QueueRow]
       /\ local'[d] = table /\ local' \in [Device -> LocalTable]
       /\ \A e \in Device \ {d} : pending'[e] = pending[e] /\ local'[e] = local[e]
  BY <1>1, <1>7, <1>8, <1>9
<1>11. TypeOK'
  BY <1>t, <1>1, <1>10, <1>h DEF TypeOK
<1>12. LogBelowCounter' /\ RowsCommitted'
  BY <1>h DEF Inductive, LogBelowCounter, RowsCommitted
<1>13. IdsName'
  <2>1. ASSUME NEW a \in IssuedOps' PROVE a = op \/ a \in IssuedOps
    <3>1. a \in Operation /\ Issued(a)'
      BY DEF IssuedOps
    <3>2. CASE \E r \in history' : r.op = a
      BY <1>h, <3>1, <3>2 DEF IssuedOps, Issued
    <3>3. CASE \E e \in Device : \E p \in pending'[e] \cup session'[e].batch : p.op = a
      <4>1. PICK e \in Device : \E p \in pending'[e] \cup session[e].batch : p.op = a
        BY <1>h, <3>3
      <4>2. PICK p \in pending'[e] \cup session[e].batch : p.op = a
        BY <4>1
      <4>3. a = op \/ p \in pending[e] \cup session[e].batch
        BY <1>8, <1>10, <4>2
      <4>4. QED
        BY <3>1, <4>2, <4>3 DEF IssuedOps, Issued
    <3>4. CASE \E batch \in late' : \E p \in batch : p.op = a
      BY <1>h, <3>1, <3>4 DEF IssuedOps, Issued
    <3>5. QED
      BY <3>1, <3>2, <3>3, <3>4 DEF Issued
  <2>2. \A a \in IssuedOps' : a.id \in 1..edits' /\ a.entity \in Memo
    BY <1>t, <1>1, <1>4, <1>h, <2>1 DEF IdsName
  <2>3. ASSUME NEW a \in IssuedOps', NEW b \in IssuedOps', a.id = b.id PROVE a = b
    <3>1. edits + 1 \notin 1..edits
      BY <1>1
    <3>2. QED
      BY <1>t, <1>4, <2>1, <2>3, <3>1 DEF IdsName
  <2>4. QED
    BY <2>2, <2>3 DEF IdsName
<1>14. OwnEditsSafe(d, queue, table)
  <2>1. ASSUME NEW x \in Memo, table[x] # NoRow, table[x].version.device = d
        PROVE  Safe(queue, x, table[x].version)
    <3>1. CASE x = m
      BY <1>4, <1>8, <1>9, <3>1 DEF Safe
    <3>2. CASE x # m
      <4>1. Safe(pending[d], x, table[x].version)
        BY <1>t, <1>9, <2>1, <3>2 DEF DeviceSound, OwnEditsSafe
      <4>2. QED
        BY <1>8, <3>2, <4>1 DEF Safe
    <3>3. QED
      BY <3>1, <3>2
  <2>2. QED
    BY <2>1 DEF OwnEditsSafe
<1>15. DeviceSound(d)'
  <2>1. OwnEditsSafe(d, pending[d], local[d])'
    BY <1>14, <1>10, <1>h DEF OwnEditsSafe, Safe
  <2>2. SessionSound(d, session[d], pending[d])'
    BY <1>t, <1>h DEF DeviceSound, SessionSound, Committed
  <2>3. QED
    BY <1>8, <1>10, <2>1, <2>2 DEF DeviceSound, QueueSound
<1>16. QED
  <2>1. \A batch \in late' : IsFiniteSet(batch)
    BY <1>h DEF Inductive
  <2>2. ASSUME NEW e \in Device
        PROVE  \/ local'[e] = local[e] /\ pending'[e] = pending[e] /\ session'[e] = session[e]
               \/ DeviceSound(e)'
    BY <1>10, <1>15, <1>h
  <2>3. QED
    BY <1>11, <1>12, <1>13, <1>h, <2>1, <2>2, StepSound
-----------------------------------------------------------------------------
LEMMA InitInductive == Init => Inductive
<1> SUFFICES ASSUME Init PROVE Inductive
  OBVIOUS
<1>1. TypeOK
  <2>1. [m \in Memo |-> NoRow] \in LocalTable
    BY DEF LocalTable
  <2>2. QED
    BY <2>1, NoSessionTyped DEF Init, TypeOK
<1>2. LogBelowCounter /\ RowsCommitted
  BY DEF Init, LogBelowCounter, RowsCommitted
<1>3. IssuedOps = {}
  BY NoSessionTyped DEF Init, IssuedOps, Issued
<1>4. ASSUME NEW d \in Device PROVE DeviceSound(d)
  <2>1. /\ pending[d] = {} /\ session[d] = NoSession
        /\ \A m \in Memo : local[d][m] = NoRow
    BY DEF Init
  <2>2. SessionSound(d, NoSession, {})
    BY NoSessionTyped, FS_EmptySet, BareSession
  <2>3. QED
    BY <2>1, <2>2, FS_EmptySet DEF DeviceSound, QueueSound, OwnEditsSafe
<1>5. QED
  BY <1>1, <1>2, <1>3, <1>4 DEF Init, Inductive, IdsName

LEMMA NextInductive == Inductive /\ Next => Inductive'
<1> SUFFICES ASSUME Inductive, Next PROVE Inductive'
  OBVIOUS
<1>1. CASE Compact
  BY <1>1, CompactStep
<1>2. ASSUME NEW batch \in late, HandleLate(batch) \/ LoseLate(batch) PROVE Inductive'
  BY <1>2, HandleLateStep, LoseLateStep
<1>3. ASSUME NEW d \in Device, SaveMemo(d) PROVE Inductive'
  <2>1. PICK m \in Memo, wall \in Readings(d) : Edit(d, "save", m, wall)
    BY <1>3 DEF SaveMemo
  <2>2. QED
    BY <2>1, EditStep
<1>4. ASSUME NEW d \in Device, DeleteMemo(d) PROVE Inductive'
  <2>1. PICK m \in Memo, wall \in Readings(d) :
          local[d][m] # NoRow /\ Edit(d, "delete", m, wall)
    BY <1>4 DEF DeleteMemo
  <2>2. QED
    BY <2>1, EditStep
<1>5. ASSUME NEW d \in Device, Sync(d) \/ GiveUp(d) PROVE Inductive'
  BY <1>5, BeginSyncStep, HandlePushStep, FinishPushStep, HandleSnapshotStep,
     ApplySnapshotStep, HandlePullStep, ApplyNextStep, CommitApplyStep, FinishPullStep,
     GiveUpStep DEF Sync
<1>6. QED
  BY <1>1, <1>2, <1>3, <1>4, <1>5 DEF Next, User

LEMMA StutterInductive == Inductive /\ UNCHANGED vars => Inductive'
<1> SUFFICES ASSUME Inductive, UNCHANGED vars PROVE Inductive'
  OBVIOUS
<1> USE DEF vars
<1>1. TypeOK' /\ LogBelowCounter' /\ RowsCommitted'
  BY DEF Inductive, TypeOK, LogBelowCounter, RowsCommitted
<1>2. IdsName'
  BY IdsKept DEF Inductive, Issued
<1>3. QED
  BY <1>1, <1>2, StepSound DEF Inductive

(* The inductive invariant: from every reachable state, whatever step comes *)
(* next, an edit, a request, an answer, a failure or a compaction.          *)
THEOREM InductiveInvariant == Spec => []Inductive
<1>1. Inductive /\ [Next]_vars => Inductive'
  BY NextInductive, StutterInductive
<1>2. QED
  BY <1>1, InitInductive, PTL DEF Spec

(* Every variable of server, desktops and sessions keeps its kind.          *)
THEOREM TypeCorrect == Spec => []TypeOK
<1>1. Inductive => TypeOK
  BY DEF Inductive
<1>2. QED
  BY <1>1, InductiveInvariant, PTL

(* An edit a device shows is never lost on its way: it waits in the queue or*)
(* the server has it, whatever was lost, handled late, given up or replaced *)
(* meanwhile.                                                               *)
THEOREM EditsAreSafe == Spec => []ShownEditIsSafe
<1>1. Inductive => ShownEditIsSafe
  BY DEF Inductive, DeviceSound, OwnEditsSafe, Safe, ShownEditIsSafe
<1>2. QED
  BY <1>1, InductiveInvariant, PTL

(* A newer edit of a memo takes the place of the one that waits: the two can*)
(* never be delivered in the wrong order.                                   *)
THEOREM OneWaitsPerMemo == Spec => []OnePendingPerMemo
<1>1. Inductive => OnePendingPerMemo
  BY DEF Inductive, DeviceSound, QueueSound, OnePendingPerMemo
<1>2. QED
  BY <1>1, InductiveInvariant, PTL
-----------------------------------------------------------------------------
(* What the desktops see of the server                                      *)

(* Every step but a push that arrives and a compaction leaves the server    *)
(* alone.                                                                   *)
LEMMA ServerSteps ==
  ASSUME Inductive, [Next]_vars
  PROVE  \/ \E batch \in SUBSET QueueRow :
              IsFiniteSet(batch) /\ (\A p \in batch : Issued(p.op)) /\ Accept(batch)
         \/ Compact
         \/ UNCHANGED <<log, rows, minAvailable, history>>
<1> DEFINE Pushes == \E batch \in SUBSET QueueRow :
                       IsFiniteSet(batch) /\ (\A p \in batch : Issued(p.op)) /\ Accept(batch)
           Same == UNCHANGED <<log, rows, minAvailable, history>>
<1>1. ASSUME UNCHANGED vars PROVE Same
  BY <1>1 DEF vars
<1>2. ASSUME NEW batch \in late, HandleLate(batch) PROVE Pushes
  <2>1. batch \in SUBSET QueueRow /\ IsFiniteSet(batch) /\ Accept(batch)
    BY <1>2 DEF Inductive, TypeOK, HandleLate
  <2>2. \A p \in batch : Issued(p.op)
    BY DEF Issued
  <2>3. QED
    BY <2>1, <2>2
<1>3. ASSUME NEW d \in Device, HandlePush(d) PROVE Pushes
  <2>1. /\ session[d].batch \in SUBSET QueueRow /\ IsFiniteSet(session[d].batch)
        /\ Accept(session[d].batch)
    BY <1>3 DEF Inductive, TypeOK, Sessions, DeviceSound, SessionSound, HandlePush
  <2>2. \A p \in session[d].batch : Issued(p.op)
    BY DEF Issued
  <2>3. QED
    BY <2>1, <2>2
<1>4. ASSUME NEW batch \in late, LoseLate(batch) PROVE Same
  BY <1>4 DEF LoseLate, server
<1>5. ASSUME NEW d \in Device, User(d) \/ Sync(d) \/ GiveUp(d), ~HandlePush(d) PROVE Same
  BY <1>5 DEF User, SaveMemo, DeleteMemo, Edit, Sync, BeginSync, FinishPush, HandleSnapshot,
              ApplySnapshot, HandlePull, ApplyNext, CommitApply, FinishPull, GiveUp, server
<1> HIDE DEF Pushes, Same
<1>6. Pushes \/ Compact \/ Same
  <2>1. CASE UNCHANGED vars
    BY <1>1, <2>1
  <2>2. CASE Next
    BY <2>2, <1>2, <1>3, <1>4, <1>5 DEF Next
  <2>3. QED
    BY <2>1, <2>2
<1>7. QED
  BY <1>6 DEF Pushes, Same

(* Seen by its clients the server implements the operation log: requests    *)
(* that come late or twice, and sessions cut short, change nothing of it.   *)
THEOREM ServerKeepsPromise == Spec => KeepsPromise
<1> DEFINE VersionOf(e) == IF rows[e] = NoRow THEN NoRow ELSE rows[e].stamp
           version == [e \in Entity |-> VersionOf(e)]
<1>e. Promise!Entity = Entity
  BY DEF Promise!Entity, Entity
<1>1. ASSUME Init PROVE Promise!LogInit
  <2>1. \A e \in Entity : VersionOf(e) = NoRow
    BY <1>1 DEF Init
  <2>2. QED
    BY <1>e, <1>1, <2>1 DEF Init, Promise!LogInit
<1>2. ASSUME Inductive, NEW batch \in SUBSET QueueRow, IsFiniteSet(batch),
             \A p \in batch : Issued(p.op), Accept(batch)
      PROVE  Promise!Append
  <2> DEFINE added == Added(batch)
  <2>1. /\ log' = log \cup added /\ history' = history \cup added
        /\ minAvailable' = minAvailable
    BY <1>2, Zenon DEF Accept, Added
  <2>2. \A e \in Entity :
          \/ rows'[e] = rows[e]
          \/ \E r \in added :
               /\ r.op.entity = e /\ rows'[e] # NoRow /\ rows'[e].stamp = r.op.stamp
               /\ rows[e] = NoRow \/ Wins(rows'[e].stamp, rows[e].stamp)
    BY <1>2, AcceptSound
  <2>3. /\ lastSeq \in Nat /\ log \subseteq history
        /\ \A r \in history : r.seq \in Nat /\ r.seq <= lastSeq
    BY <1>2 DEF Inductive, TypeOK, LogRow, LogBelowCounter
  <2>4. \A r \in added : r.seq \in Nat /\ lastSeq < r.seq /\ ~Known(r.op)
    BY <1>2, <2>3, AddedRows DEF LogRow
  <2> HIDE DEF added
  <2>5. history' \ history = added
    BY <2>1, <2>3, <2>4
  <2>6. \A new \in added, old \in history : old.seq < new.seq
    BY <2>3, <2>4
  <2>7. \A new \in added, old \in log : old.op.id # new.op.id
    BY <2>4 DEF Known
  <2>8. ASSUME NEW e \in Entity PROVE Promise!Advances(e, added)
    <3>1. /\ version[e] = IF rows[e] = NoRow THEN NoRow ELSE rows[e].stamp
          /\ version'[e] = IF rows'[e] = NoRow THEN NoRow ELSE rows'[e].stamp
      OBVIOUS
    <3>2. CASE rows'[e] = rows[e]
      BY <3>1, <3>2 DEF Promise!Advances
    <3>3. CASE rows'[e] # rows[e]
      <4>1. PICK r \in added :
              /\ r.op.entity = e /\ rows'[e] # NoRow /\ rows'[e].stamp = r.op.stamp
              /\ rows[e] = NoRow \/ Wins(rows'[e].stamp, rows[e].stamp)
        BY <2>2, <3>3
      <4>2. version'[e] = r.op.stamp /\ version'[e] = rows'[e].stamp
        BY <3>1, <4>1
      <4>3. rows[e] # NoRow => version[e] = rows[e].stamp
        BY <3>1
      <4>4. rows[e] = NoRow => version[e] = NoRow
        BY <3>1
      <4>5. QED
        BY <4>1, <4>2, <4>3, <4>4 DEF Promise!Advances, Promise!Wins, Wins,
           Promise!HlcLess, HlcLess, Promise!HlcEqual, HlcEqual
    <3>4. QED
      BY <3>2, <3>3
  <2>9. \A e \in Promise!Entity : Promise!Advances(e, history' \ history)
    BY <1>e, <2>5, <2>8 DEF Promise!Advances
  <2>10. QED
    BY <2>1, <2>5, <2>6, <2>7, <2>9 DEF Promise!Append
<1>3. ASSUME Inductive, Compact PROVE Promise!Truncate
  <2>1. /\ minAvailable' = LatestSeq - Retain /\ minAvailable' > minAvailable
        /\ log' = log \ {r \in log : r.seq <= LatestSeq - Retain}
        /\ LatestSeq > Retain /\ rows' = rows /\ history' = history
    BY <1>3 DEF Compact
  <2>2. /\ LatestSeq \in Nat /\ (LatestSeq = 0 \/ \E r \in history : r.seq = LatestSeq)
        /\ Retain \in Nat \ {0}
    BY <1>3, LatestKnown, CompactionAssumption DEF Inductive
  <2>3. \A r \in log : r.seq \in Nat
    BY <1>3 DEF Inductive, TypeOK, LogRow
  <2>4. \E r \in history : minAvailable' < r.seq
    <3>1. PICK r \in history : r.seq = LatestSeq
      BY <2>1, <2>2
    <3>2. minAvailable' < r.seq
      BY <2>1, <2>2, <3>1
    <3>3. QED
      BY <3>2
  <2>5. log' = {r \in log : r.seq > minAvailable'}
    BY <2>1, <2>2, <2>3
  <2>6. QED
    BY <2>1, <2>4, <2>5 DEF Promise!Truncate
<1>4. ASSUME UNCHANGED <<log, rows, minAvailable, history>>
      PROVE  UNCHANGED Promise!logVars
  BY <1>4 DEF Promise!logVars
<1>5. Inductive /\ [Next]_vars => [Promise!Append \/ Promise!Truncate]_(Promise!logVars)
  BY <1>2, <1>3, <1>4, ServerSteps
<1>6. QED
  BY <1>1, <1>5, InductiveInvariant, PTL DEF Spec, KeepsPromise, Promise!LogSpec
-----------------------------------------------------------------------------
(* What a cursor vouches for, when no clock lags behind what its device has *)
(* seen.  The second inductive invariant, on top of Inductive.              *)

(* A table has the operation, or something newer of its memo.               *)
TakenIn(table, op) ==
  table[op.entity] # NoRow /\ ~Wins(op.stamp, table[op.entity].version)

(* Users save and delete, and a stamp names one operation of its memo.      *)
StampsName ==
  /\ \A a \in IssuedOps : /\ a.kind # "patch" /\ (a.kind = "upsert" => a.deleted = "no")
                          /\ a.stamp.wall <= MaxWall
  /\ \A a, b \in IssuedOps : a.entity = b.entity /\ a.stamp = b.stamp => a = b

(* The server shows, of every memo, the winner of what was committed.       *)
RowsFollow ==
  /\ \A e \in Entity : rows[e] # NoRow =>
       \E r \in history : /\ r.op.entity = e /\ r.op.stamp = rows[e].stamp
                          /\ r.seq = rows[e].seq /\ Says(r.op, rows[e])
  /\ \A r \in history : rows[r.op.entity] # NoRow /\ ~Wins(r.op.stamp, rows[r.op.entity].stamp)

(* The log holds everything after the horizon, under a number of its own.   *)
LogComplete ==
  /\ IsFiniteSet(log)
  /\ \A r \in history : r.seq > minAvailable => r \in log
  /\ \A r, q \in history : r.seq = q.seq => r = q

(* A queue, and a batch taken from it, holds one operation per memo and no  *)
(* two in the same place.                                                   *)
Spaced(S) == \A p, q \in S : p.at = q.at \/ p.op.entity = q.op.entity => p = q

BatchesSpaced ==
  /\ \A d \in Device : /\ Spaced(pending[d]) /\ Spaced(session[d].batch)
                       /\ \A p \in pending[d] : p.at <= edits
  /\ \A batch \in late : Spaced(batch)

(* No device has heard of a number that the server has not given out.       *)
NumbersBelow(d, s, c) == c <= lastSeq /\ s.top <= lastSeq /\ s.sequence <= lastSeq

(* A device shows its own operations, or something newer, and every row it  *)
(* shows is what some operation, committed or in its queue, wrote.          *)
ShowsOwn(d, table) == \A a \in IssuedOps : a.stamp.device = d => TakenIn(table, a)

Told(q, table) ==
  \A m \in Memo : table[m] # NoRow =>
    \E op \in Operation : /\ op.entity = m /\ op.stamp = table[m].version /\ Says(op, table[m])
                          /\ Committed(op) \/ \E p \in q : p.op = op

(* What device d has of the others' operations up to number n.              *)
Vouched(d, n, table, gone) ==
  \A r \in history :
    r.seq <= n /\ r.op.stamp.device # d => r.op.entity \in gone \/ TakenIn(table, r.op)

(* What a session will vouch for once it has applied its answer.            *)
Answered(d, s, q, c, gone) ==
  /\ s.phase = "snapshotAnswered" =>
       /\ \A x \in s.items : \E r \in history :
            /\ r.op.entity = x.entity /\ r.op.stamp = x.stamp
            /\ r.op.kind = "upsert" /\ r.op.content = x.content
       /\ \A r \in history : r.seq <= s.sequence =>
            /\ r.op.entity \in gone \/ \E x \in s.items : x.entity = r.op.entity
            /\ \A x \in s.items : x.entity = r.op.entity => ~Wins(r.op.stamp, x.stamp)
  /\ s.phase = "pullEmpty" =>
       \A r \in history : (r.seq <= s.top \/ r.seq <= s.sequence) /\ r.op.stamp.device # d => r.seq <= c
  /\ s.phase = "pullAnswered" =>
       \A r \in history : r.seq <= s.sequence /\ r.op.stamp.device # d =>
         r.seq <= c \/ r \in s.page
  /\ s.phase = "applying" =>
       /\ ShowsOwn(d, s.table) /\ Told(q, s.table)
       /\ \A r \in history : r.seq <= s.sequence /\ r.op.stamp.device # d =>
            r \in s.page \/ r.op.entity \in gone \/ TakenIn(s.table, r.op)

DeviceFaithful(d) ==
  /\ ShowsOwn(d, local[d]) /\ Told(pending[d], local[d])
  /\ Vouched(d, cursor[d], local[d], forgotten[d])
  /\ NumbersBelow(d, session[d], cursor[d])
  /\ Answered(d, session[d], pending[d], cursor[d], forgotten[d])

Faithful ==
  /\ StampsName /\ RowsFollow /\ LogComplete /\ BatchesSpaced
  /\ \A d \in Device : DeviceFaithful(d)
-----------------------------------------------------------------------------
(* A device that a step leaves alone stays faithful: what the step commits  *)
(* has a number it has not heard of, and what is issued is not its own.     *)
LEMMA DeviceFaithfulKept ==
  ASSUME NEW d \in Device, Inductive, DeviceFaithful(d),
         history \subseteq history', \A r \in history' : r \in history \/ r.seq > lastSeq,
         \A r \in history' : r.seq \in Nat,
         lastSeq' \in Nat, lastSeq <= lastSeq',
         \A a \in IssuedOps' : a \in IssuedOps \/ a.stamp.device # d,
         local'[d] = local[d], pending'[d] = pending[d], session'[d] = session[d],
         cursor'[d] = cursor[d], forgotten'[d] = forgotten[d]
  PROVE  DeviceFaithful(d)'
<1> DEFINE s == session[d]
           q == pending[d]
           c == cursor[d]
           gone == forgotten[d]
<1>n. /\ lastSeq \in Nat /\ c \in Nat /\ s.top \in Nat /\ s.sequence \in Nat
      /\ NumbersBelow(d, s, c)
  BY DEF Inductive, TypeOK, Sessions, DeviceFaithful
<1>0. /\ \A r \in history' : r.seq <= c => r \in history
      /\ \A r \in history' : r.seq <= s.top => r \in history
      /\ \A r \in history' : r.seq <= s.sequence => r \in history
  BY <1>n DEF NumbersBelow
<1>1. ASSUME NEW t, ShowsOwn(d, t) PROVE \A a \in IssuedOps' : a.stamp.device = d => TakenIn(t, a)
  BY <1>1 DEF ShowsOwn
<1>2. ASSUME NEW op, Committed(op) PROVE \E r \in history' : r.op = op
  BY <1>2 DEF Committed
<1>3. ASSUME NEW t, Told(q, t)
      PROVE  \A m \in Memo : t[m] # NoRow =>
               \E op \in Operation :
                 /\ op.entity = m /\ op.stamp = t[m].version /\ Says(op, t[m])
                 /\ (\E r \in history' : r.op = op) \/ \E p \in q : p.op = op
  BY <1>2, <1>3 DEF Told
<1>a. ShowsOwn(d, local[d])'
  BY <1>1 DEF ShowsOwn, DeviceFaithful, TakenIn
<1>b. Told(pending[d], local[d])'
  BY <1>3 DEF Told, DeviceFaithful, Says, Committed
<1>c. Vouched(d, cursor[d], local[d], forgotten[d])'
  BY <1>0 DEF Vouched, DeviceFaithful, TakenIn
<1>d. NumbersBelow(d, session[d], cursor[d])'
  BY <1>n DEF NumbersBelow
<1>e. Answered(d, session[d], pending[d], cursor[d], forgotten[d])'
  <2>0. Answered(d, s, q, c, gone)
    BY DEF DeviceFaithful
  <2>1. CASE s.phase = "snapshotAnswered"
    BY <2>0, <2>1, <1>0 DEF Answered
  <2>2. CASE s.phase = "pullEmpty"
    BY <2>0, <2>2, <1>0 DEF Answered
  <2>3. CASE s.phase = "pullAnswered"
    BY <2>0, <2>3, <1>0 DEF Answered
  <2>4. CASE s.phase = "applying"
    <3>1. ShowsOwn(d, session[d].table)'
      BY <2>0, <2>4, <1>1 DEF ShowsOwn, Answered, TakenIn
    <3>2. Told(pending[d], session[d].table)'
      BY <2>0, <2>4, <1>3 DEF Told, Answered, Says, Committed
    <3>3. QED
      BY <2>0, <2>4, <3>1, <3>2, <1>0 DEF Answered, TakenIn
  <2>5. CASE s.phase \notin {"snapshotAnswered", "pullEmpty", "pullAnswered", "applying"}
    BY <2>5 DEF Answered
  <2>6. QED
    BY <2>1, <2>2, <2>3, <2>4, <2>5
<1>f. QED
  BY <1>a, <1>b, <1>c, <1>d, <1>e DEF DeviceFaithful

(* Rows of a batch have different places.                                   *)
LEMMA PlaceDistinct ==
  ASSUME NEW S \in SUBSET QueueRow, IsFiniteSet(S), Spaced(S),
         NEW p \in S, NEW r \in S, Place(S, p) = Place(S, r)
  PROVE  p = r
<1> DEFINE Upto(x) == {q \in S : q.at <= x.at}
<1>1. \A x \in S : x.at \in Nat /\ x \in Upto(x)
  BY DEF QueueRow
<1>2. \A x \in S : Upto(x) \in SUBSET S /\ IsFiniteSet(Upto(x)) /\ Place(S, x) = Cardinality(Upto(x))
  BY FS_Subset DEF Place
<1>3. ASSUME NEW a \in S, NEW b \in S, a.at <= b.at, Place(S, a) = Place(S, b) PROVE a = b
  <2>1. Upto(a) \in SUBSET Upto(b)
    BY <1>1, <1>3
  <2>2. Upto(a) = Upto(b)
    BY <1>2, <1>3, <2>1, FS_Subset
  <2>3. b.at <= a.at
    BY <1>1, <2>2
  <2>4. QED
    BY <1>1, <1>3, <2>3 DEF Spaced
<1>4. QED
  BY <1>1, <1>3

(* What the projection makes of a save or a delete that wins.               *)
LEMMA ApplyStateSays ==
  ASSUME NEW row \in StateRow \cup {NoRow}, NEW op \in Operation, NEW seq \in Nat,
         op.kind # "patch", op.kind = "upsert" => op.deleted = "no",
         NEW new, new = ApplyState(row, op, seq), new # row
  PROVE  Says(op, new)
<1>1. op.kind \in {"upsert", "delete"}
  BY OperationParts
<1>2. CASE op.kind = "upsert"
  BY <1>2 DEF ApplyState, StateRowOf, Says
<1>3. CASE op.kind = "delete"
  BY <1>3 DEF ApplyState, StateRowOf, Says
<1>4. QED
  BY <1>1, <1>2, <1>3

LEMMA AcceptFaithful ==
  ASSUME Inductive, Faithful, NEW batch \in SUBSET QueueRow, IsFiniteSet(batch),
         Spaced(batch), \A p \in batch : Issued(p.op), Accept(batch)
  PROVE  /\ RowsFollow' /\ LogComplete'
         /\ \A r \in history' : r \in history \/ r.seq > lastSeq
         /\ \A r \in history' : r.seq \in Nat
         /\ lastSeq' \in Nat /\ lastSeq <= lastSeq'
<1> DEFINE added == Added(batch)
<1>t. /\ log \in SUBSET LogRow /\ history \in SUBSET LogRow
      /\ rows \in [Entity -> StateRow \cup {NoRow}]
      /\ lastSeq \in Nat /\ minAvailable \in Nat
  BY DEF Inductive, TypeOK
<1>n. /\ log \subseteq history /\ \A r \in history : r.seq <= lastSeq /\ r.seq \in Nat
  BY <1>t DEF Inductive, LogBelowCounter, LogRow
<1>a. /\ log' = log \cup added /\ history' = history \cup added
      /\ lastSeq' = lastSeq + Cardinality(batch)
      /\ minAvailable' = minAvailable
      /\ rows' = [e \in Entity |->
           IF \E r \in added : r.op.entity = e
             THEN LET r == CHOOSE r \in added : r.op.entity = e IN ApplyState(rows[e], r.op, r.seq)
             ELSE rows[e]]
  BY Zenon DEF Accept, Added
<1>b. /\ added \in SUBSET LogRow
      /\ lastSeq + Cardinality(batch) \in Nat
      /\ \A r \in added : /\ lastSeq < r.seq /\ r.seq <= lastSeq + Cardinality(batch)
                          /\ \E p \in batch : r.op = p.op
  BY <1>t, AddedRows
<1>c. Cardinality(batch) \in Nat
  BY FS_CardinalityType
<1>d. \A r \in added : \E p \in batch : r = [seq |-> lastSeq + Place(batch, p), op |-> p.op]
  BY DEF Added
<1>e. IsFiniteSet(added)
  <2> DEFINE new == {q \in batch : ~Known(q.op)}
             Row(p) == [seq |-> lastSeq + Place(batch, p), op |-> p.op]
             f == [p \in new |-> Row(p)]
  <2>1. IsFiniteSet(new)
    BY FS_Subset
  <2>2. added = {Row(p) : p \in new}
    BY DEF Added
  <2>3. f \in Surjection(new, added)
    BY <2>2 DEF Surjection
  <2>4. QED
    BY <2>1, <2>3, FS_Surjection
<1> HIDE DEF added
<1>f. ASSUME NEW r \in added, NEW q \in added, r.op.entity = q.op.entity \/ r.seq = q.seq
      PROVE  r = q
  <2>1. PICK p \in batch : r = [seq |-> lastSeq + Place(batch, p), op |-> p.op]
    BY <1>d
  <2>2. PICK x \in batch : q = [seq |-> lastSeq + Place(batch, x), op |-> x.op]
    BY <1>d
  <2>3. Place(batch, p) \in Nat /\ Place(batch, x) \in Nat
    BY PlaceBounds
  <2>4. CASE r.op.entity = q.op.entity
    <3>1. p.op.entity = x.op.entity
      BY <2>1, <2>2, <2>4
    <3>2. p = x
      BY <3>1 DEF Spaced
    <3>3. QED
      BY <2>1, <2>2, <3>2
  <2>5. CASE r.seq = q.seq
    <3>1. lastSeq + Place(batch, p) = lastSeq + Place(batch, x)
      BY <2>1, <2>2, <2>5
    <3>2. Place(batch, p) = Place(batch, x)
      BY <1>t, <2>3, <3>1
    <3>3. p = x
      BY <3>2, PlaceDistinct
    <3>4. QED
      BY <2>1, <2>2, <3>3
  <2>6. QED
    BY <1>f, <2>4, <2>5
<1>1. /\ \A r \in history' : r \in history \/ r.seq > lastSeq
      /\ \A r \in history' : r.seq \in Nat
      /\ lastSeq' \in Nat /\ lastSeq <= lastSeq'
  BY <1>a, <1>b, <1>c, <1>t, <1>n DEF LogRow
<1>2. LogComplete'
  <2>1. IsFiniteSet(log')
    BY <1>a, <1>e, FS_Union DEF Faithful, LogComplete
  <2>2. \A r \in history' : r.seq > minAvailable' => r \in log'
    BY <1>a DEF Faithful, LogComplete
  <2>3. ASSUME NEW r \in history', NEW q \in history', r.seq = q.seq PROVE r = q
    <3>1. CASE r \in history /\ q \in history
      BY <2>3, <3>1 DEF Faithful, LogComplete
    <3>2. CASE r \in added /\ q \in added
      BY <2>3, <3>2, <1>f
    <3>3. ASSUME NEW x \in history, NEW y \in added PROVE x.seq # y.seq
      BY <1>b, <1>n, <1>t DEF LogRow
    <3>4. QED
      BY <1>a, <2>3, <3>1, <3>2, <3>3
  <2>4. QED
    BY <2>1, <2>2, <2>3 DEF LogComplete
<1>3. \A a \in added : /\ a.op \in Operation /\ a.seq \in Nat /\ a.op \in IssuedOps
                       /\ a.op.entity \in Entity /\ a.op.stamp \in Stamp
  BY <1>b, OperationParts DEF LogRow, IssuedOps
<1>4. ASSUME NEW e \in Entity, NEW a \in added, a.op.entity = e
      PROVE  rows'[e] = ApplyState(rows[e], a.op, a.seq)
  <2>1. (CHOOSE r \in added : r.op.entity = e) \in added
        /\ (CHOOSE r \in added : r.op.entity = e).op.entity = e
    BY <1>4
  <2>2. (CHOOSE r \in added : r.op.entity = e) = a
    BY <2>1, <1>4, <1>f
  <2>3. rows'[e] = LET r == CHOOSE r \in added : r.op.entity = e
                   IN ApplyState(rows[e], r.op, r.seq)
    BY <1>a, <1>4
  <2>4. QED
    BY <2>2, <2>3
<1>5. ASSUME NEW e \in Entity, \A a \in added : a.op.entity # e PROVE rows'[e] = rows[e]
  BY <1>a, <1>5
<1>6. ASSUME NEW e \in Entity, rows'[e] # NoRow
      PROVE  \E r \in history' : /\ r.op.entity = e /\ r.op.stamp = rows'[e].stamp
                                 /\ r.seq = rows'[e].seq /\ Says(r.op, rows'[e])
  <2>1. CASE rows'[e] = rows[e]
    <3>1. PICK r \in history : /\ r.op.entity = e /\ r.op.stamp = rows[e].stamp
                               /\ r.seq = rows[e].seq /\ Says(r.op, rows[e])
      BY <1>6, <2>1 DEF Faithful, RowsFollow
    <3>2. QED
      BY <2>1, <3>1, <1>a
  <2>2. CASE rows'[e] # rows[e]
    <3>1. PICK a \in added : a.op.entity = e
      BY <1>5, <2>2
    <3>2. /\ a.op.kind # "patch" /\ (a.op.kind = "upsert" => a.op.deleted = "no")
      BY <1>3 DEF Faithful, StampsName
    <3>3. Says(a.op, rows'[e])
      BY <1>3, <1>4, <1>t, <2>2, <3>1, <3>2, ApplyStateSays
    <3>4. rows'[e].stamp = a.op.stamp /\ rows'[e].seq = a.seq
      BY <1>3, <1>4, <1>t, <2>2, <3>1, ApplyStateAdvances
    <3>5. QED
      BY <3>1, <3>3, <3>4, <1>a
  <2>3. QED
    BY <2>1, <2>2
<1>7. ASSUME NEW r \in history'
      PROVE  rows'[r.op.entity] # NoRow /\ ~Wins(r.op.stamp, rows'[r.op.entity].stamp)
  <2> DEFINE e == r.op.entity
  <2>1. CASE r \in history
    <3>0. /\ e \in Entity /\ r.op.stamp \in Stamp
      BY <1>t, <2>1, OperationParts DEF LogRow
    <3>1. rows[e] # NoRow /\ ~Wins(r.op.stamp, rows[e].stamp)
      BY <2>1 DEF Faithful, RowsFollow
    <3>2. CASE \A a \in added : a.op.entity # e
      BY <3>0, <3>1, <3>2, <1>5
    <3>3. CASE \E a \in added : a.op.entity = e
      <4>1. PICK a \in added : a.op.entity = e
        BY <3>3
      <4>2. rows[e] \in StateRow /\ rows[e].stamp \in Stamp
        BY <3>0, <3>1, <1>t DEF StateRow
      <4>3. \/ rows'[e] = rows[e]
            \/ /\ rows'[e] # NoRow /\ rows'[e].stamp = a.op.stamp
               /\ Wins(rows'[e].stamp, rows[e].stamp)
        BY <1>3, <1>4, <1>t, <3>0, <3>1, <4>1, <4>2, ApplyStateAdvances
      <4>4. QED
        BY <1>3, <3>0, <3>1, <4>2, <4>3, LosersKeepLosing
    <3>4. QED
      BY <3>2, <3>3
  <2>2. CASE r \in added
    <3>1. r.op.kind # "patch"
      BY <1>3, <2>2 DEF Faithful, StampsName
    <3>2. rows'[e] = ApplyState(rows[e], r.op, r.seq)
      BY <1>3, <1>4, <2>2
    <3>3. QED
      BY <1>3, <1>t, <2>2, <3>1, <3>2, ApplyStateKeepsWinner
  <2>3. QED
    BY <1>a, <2>1, <2>2
<1>8. RowsFollow'
  BY <1>6, <1>7 DEF RowsFollow
<1>9. QED
  BY <1>1, <1>2, <1>8
-----------------------------------------------------------------------------
(* Nothing is issued by a step that only moves operations about.            *)
LEMMA StampsKept ==
  ASSUME StampsName, \A op \in Operation : Issued(op)' => Issued(op)
  PROVE  StampsName' /\ IssuedOps' \subseteq IssuedOps
<1>1. IssuedOps' \subseteq IssuedOps
  BY DEF IssuedOps
<1>2. QED
  BY <1>1 DEF StampsName

(* A step of one device, or of none, that the others do not see.            *)
LEMMA StepFaithful ==
  ASSUME Inductive, Faithful,
         StampsName', RowsFollow', LogComplete', BatchesSpaced',
         history \subseteq history', \A r \in history' : r \in history \/ r.seq > lastSeq,
         \A r \in history' : r.seq \in Nat,
         lastSeq' \in Nat, lastSeq <= lastSeq',
         \A d \in Device :
           \/ /\ local'[d] = local[d] /\ pending'[d] = pending[d] /\ session'[d] = session[d]
              /\ cursor'[d] = cursor[d] /\ forgotten'[d] = forgotten[d]
              /\ \A a \in IssuedOps' : a \in IssuedOps \/ a.stamp.device # d
           \/ DeviceFaithful(d)'
  PROVE  Faithful'
<1>1. ASSUME NEW d \in Device PROVE DeviceFaithful(d)'
  <2>1. CASE /\ local'[d] = local[d] /\ pending'[d] = pending[d] /\ session'[d] = session[d]
             /\ cursor'[d] = cursor[d] /\ forgotten'[d] = forgotten[d]
             /\ \A a \in IssuedOps' : a \in IssuedOps \/ a.stamp.device # d
    <3>1. DeviceFaithful(d)
      BY DEF Faithful
    <3>2. QED
      BY <2>1, <3>1, DeviceFaithfulKept
  <2>2. QED
    BY <2>1
<1>2. QED
  BY <1>1 DEF Faithful

(* A step of one device that the server takes no part in and that issues    *)
(* nothing.                                                                 *)
LEMMA ClientFaithful ==
  ASSUME Inductive, Faithful, NEW d \in Device,
         UNCHANGED <<log, rows, lastSeq, minAvailable, history, edits>>,
         \A e \in Device \ {d} :
           /\ local'[e] = local[e] /\ pending'[e] = pending[e] /\ session'[e] = session[e]
           /\ cursor'[e] = cursor[e] /\ forgotten'[e] = forgotten[e],
         pending'[d] \subseteq pending[d],
         session'[d].batch \subseteq pending[d] \/ session'[d].batch \subseteq session[d].batch,
         \A batch \in late' : batch \in late \/ batch = session[d].batch,
         ShowsOwn(d, local'[d]), Told(pending'[d], local'[d]),
         Vouched(d, cursor'[d], local'[d], forgotten'[d]),
         NumbersBelow(d, session'[d], cursor'[d]),
         Answered(d, session'[d], pending'[d], cursor'[d], forgotten'[d])
  PROVE  Faithful'
<1>1. ASSUME NEW op \in Operation, Issued(op)' PROVE Issued(op)
  <2>1. CASE \E r \in history' : r.op = op
    BY <2>1 DEF Issued
  <2>2. CASE \E e \in Device : \E p \in pending'[e] \cup session'[e].batch : p.op = op
    BY <2>2 DEF Issued
  <2>3. CASE \E x \in late' : \E p \in x : p.op = op
    BY <2>3 DEF Issued
  <2>4. QED
    BY <1>1, <2>1, <2>2, <2>3 DEF Issued
<1>2. StampsName' /\ IssuedOps' \subseteq IssuedOps
  BY <1>1, StampsKept DEF Faithful
<1>3. RowsFollow' /\ LogComplete'
  BY DEF Faithful, RowsFollow, LogComplete
<1>4. BatchesSpaced'
  <2>1. /\ Spaced(pending[d]) /\ Spaced(session[d].batch)
        /\ \A p \in pending[d] : p.at <= edits
    BY DEF Faithful, BatchesSpaced
  <2>2. /\ Spaced(pending'[d]) /\ Spaced(session'[d].batch)
        /\ \A p \in pending'[d] : p.at <= edits'
    BY <2>1 DEF Spaced
  <2>3. \A batch \in late' : Spaced(batch)
    BY <2>1 DEF Faithful, BatchesSpaced
  <2>4. ASSUME NEW e \in Device
        PROVE  Spaced(pending'[e]) /\ Spaced(session'[e].batch)
               /\ \A p \in pending'[e] : p.at <= edits'
    BY <2>2 DEF Faithful, BatchesSpaced
  <2>5. QED
    BY <2>3, <2>4 DEF BatchesSpaced, Spaced
<1>5. /\ history \subseteq history' /\ \A r \in history' : r \in history \/ r.seq > lastSeq
      /\ \A r \in history' : r.seq \in Nat
      /\ lastSeq' \in Nat /\ lastSeq <= lastSeq'
  BY DEF Inductive, TypeOK, LogRow
<1>6. DeviceFaithful(d)'
  <2>1. ShowsOwn(d, local[d])'
    BY <1>2 DEF ShowsOwn, TakenIn
  <2>2. Told(pending[d], local[d])'
    BY DEF Told, Says, Committed
  <2>3. Vouched(d, cursor[d], local[d], forgotten[d])'
    BY DEF Vouched, TakenIn
  <2>4. NumbersBelow(d, session[d], cursor[d])'
    BY DEF NumbersBelow
  <2>5. Answered(d, session[d], pending[d], cursor[d], forgotten[d])'
    <3> DEFINE s == session'[d]
    <3>1. CASE s.phase = "snapshotAnswered"
      BY <3>1 DEF Answered
    <3>2. CASE s.phase = "pullEmpty"
      BY <3>2 DEF Answered
    <3>3. CASE s.phase = "pullAnswered"
      BY <3>3 DEF Answered
    <3>4. CASE s.phase = "applying"
      <4>1. ShowsOwn(d, session[d].table)'
        BY <1>2, <3>4 DEF ShowsOwn, Answered, TakenIn
      <4>2. Told(pending[d], session[d].table)'
        BY <3>4 DEF Told, Answered, Says, Committed
      <4>3. QED
        BY <3>4, <4>1, <4>2 DEF Answered, TakenIn
    <3>5. CASE s.phase \notin {"snapshotAnswered", "pullEmpty", "pullAnswered", "applying"}
      BY <3>5 DEF Answered
    <3>6. QED
      BY <3>1, <3>2, <3>3, <3>4, <3>5
  <2>6. QED
    BY <2>1, <2>2, <2>3, <2>4, <2>5 DEF DeviceFaithful
<1>7. QED
  BY <1>2, <1>3, <1>4, <1>5, <1>6, StepFaithful
-----------------------------------------------------------------------------
(* The highest of two numbers is one of them, and neither is higher.        *)
LEMMA HighestOfTwo ==
  ASSUME NEW a \in Nat, NEW b \in Nat
  PROVE  /\ Max({a, b}) \in Nat /\ Max({a, b}) \in {a, b}
         /\ a <= Max({a, b}) /\ b <= Max({a, b})
<1>1. {a, b} \in SUBSET Nat /\ {a, b} # {} /\ \A x \in {a, b} : x <= a + b
  OBVIOUS
<1>2. Max({a, b}) \in {a, b} /\ \A x \in {a, b} : x <= Max({a, b})
  BY <1>1, MaxOfBounded
<1>3. QED
  BY <1>2

(* LatestSeq has been given out.                                            *)
LEMMA LatestBelow ==
  ASSUME Inductive
  PROVE  LatestSeq \in Nat /\ LatestSeq <= lastSeq
<1>1. LatestSeq \in Nat /\ (LatestSeq = 0 \/ \E r \in history : r.seq = LatestSeq)
  BY LatestKnown DEF Inductive
<1>2. lastSeq \in Nat /\ \A r \in history : r.seq <= lastSeq
  BY DEF Inductive, TypeOK, LogBelowCounter
<1>3. QED
  BY <1>1, <1>2

(* LatestSeq covers every projected memo.                                   *)
LEMMA LatestCovers ==
  ASSUME Inductive, NEW m \in Memo, rows[m] # NoRow
  PROVE  rows[m].seq <= LatestSeq
<1> DEFINE S == {0} \cup {r.seq : r \in log}
                    \cup {rows[x].seq : x \in {y \in Memo : rows[y] # NoRow}}
<1>1. /\ \A x \in Memo : rows[x] # NoRow => \E r \in history : r.seq = rows[x].seq
      /\ log \subseteq history /\ lastSeq \in Nat
      /\ \A r \in history : r.seq \in Nat /\ r.seq <= lastSeq
  BY DEF Inductive, TypeOK, LogRow, LogBelowCounter, RowsCommitted, Entity
<1>2. S \in SUBSET Nat /\ S # {} /\ \A n \in S : n <= lastSeq
  BY <1>1
<1>3. rows[m].seq \in S
  OBVIOUS
<1>4. LatestSeq = Max(S)
  BY DEF LatestSeq
<1> HIDE DEF S
<1>5. QED
  BY <1>1, <1>2, <1>3, <1>4, MaxOfBounded

(* A session that is between two requests has nothing to vouch for.         *)
LEMMA IdleAnswered ==
  ASSUME NEW d, NEW s, NEW q, NEW c, NEW gone,
         s.phase \notin {"snapshotAnswered", "pullEmpty", "pullAnswered", "applying"}
  PROVE  Answered(d, s, q, c, gone)
BY DEF Answered

LEMMA TurnCarries ==
  ASSUME session \in [Device -> Sessions], NEW d \in Device, NEW top \in Nat,
         NEW queue \in SUBSET QueueRow, NextRequest(d, queue, top)
  PROVE  /\ \A e \in Device \ {d} : session'[e] = session[e]
         /\ session'[d].batch \subseteq queue
         /\ session'[d].top = top /\ session'[d].sequence = 0
         /\ session'[d].phase \in {"pushSent", "snapshotSent", "pullSent"}
<1> DEFINE turn == [NoSession EXCEPT !.top = top]
           some == {p \in queue : Place(queue, p) <= PushLimit}
           push == [turn EXCEPT !.phase = "pushSent", !.batch = some]
           ask == [turn EXCEPT !.phase = IF cursor[d] = 0 THEN "snapshotSent" ELSE "pullSent"]
<1>1. session' = [session EXCEPT ![d] = IF queue # {} THEN push ELSE ask]
  BY Zenon DEF NextRequest
<1> HIDE DEF some
<1>2. push.batch = some /\ push.top = top /\ push.sequence = 0 /\ push.phase = "pushSent"
  BY DEF NoSession
<1>3. /\ ask.batch = {} /\ ask.top = top /\ ask.sequence = 0
      /\ ask.phase \in {"snapshotSent", "pullSent"}
  BY DEF NoSession
<1>4. some \subseteq queue
  BY DEF some
<1> HIDE DEF push, ask
<1>5. session'[d] = push \/ session'[d] = ask
  BY <1>1
<1>6. QED
  BY <1>1, <1>2, <1>3, <1>4, <1>5

LEMMA BeginSyncFaithful ==
  ASSUME Inductive, Faithful, NEW d \in Device, BeginSync(d)
  PROVE  Faithful'
<1>h. /\ NextRequest(d, pending[d], cursor[d])
      /\ UNCHANGED <<log, rows, lastSeq, minAvailable, history, local, pending, cursor, late,
                     edits, failures, forgotten>>
  BY DEF BeginSync, server
<1>1. /\ session \in [Device -> Sessions] /\ cursor[d] \in Nat /\ lastSeq \in Nat
      /\ pending[d] \in SUBSET QueueRow
  BY DEF Inductive, TypeOK
<1>2. /\ \A e \in Device \ {d} : session'[e] = session[e]
      /\ session'[d].batch \subseteq pending[d]
      /\ session'[d].top = cursor[d] /\ session'[d].sequence = 0
      /\ session'[d].phase \in {"pushSent", "snapshotSent", "pullSent"}
  BY <1>1, <1>h, TurnCarries
<1>3. /\ ShowsOwn(d, local'[d]) /\ Told(pending'[d], local'[d])
      /\ Vouched(d, cursor'[d], local'[d], forgotten'[d])
      /\ NumbersBelow(d, session'[d], cursor'[d])
  BY <1>1, <1>2, <1>h DEF Faithful, DeviceFaithful, NumbersBelow
<1>4. Answered(d, session'[d], pending'[d], cursor'[d], forgotten'[d])
  BY <1>2, IdleAnswered
<1>5. QED
  BY <1>2, <1>3, <1>4, <1>h, ClientFaithful

LEMMA FinishPushFaithful ==
  ASSUME Inductive, Faithful, NEW d \in Device, FinishPush(d)
  PROVE  Faithful'
<1> DEFINE s == session[d]
           left == {p \in pending[d] : ~Pushed(p.op, s.batch)}
<1>h. /\ s.phase = "pushAnswered"
      /\ pending' = [pending EXCEPT ![d] = left]
      /\ NextRequest(d, pending'[d], Max({s.top, s.sequence}))
      /\ UNCHANGED <<log, rows, lastSeq, minAvailable, history, local, cursor, late,
                     edits, failures, forgotten>>
  BY DEF FinishPush, server
<1>t. TypeOK /\ IdsName /\ DeviceSound(d) /\ DeviceFaithful(d)
  BY DEF Inductive, Faithful
<1>1. /\ session \in [Device -> Sessions] /\ s.top \in Nat /\ s.sequence \in Nat
      /\ pending \in [Device -> SUBSET QueueRow] /\ s.batch \in SUBSET QueueRow
      /\ cursor[d] \in Nat /\ lastSeq \in Nat
  BY <1>t DEF TypeOK, Sessions
<1>2. left \in SUBSET QueueRow /\ left \subseteq pending[d]
  BY <1>1
<1>3. /\ pending'[d] = left /\ \A e \in Device \ {d} : pending'[e] = pending[e]
  BY <1>1, <1>h
<1>m. /\ Max({s.top, s.sequence}) \in Nat /\ Max({s.top, s.sequence}) \in {s.top, s.sequence}
  BY <1>1, HighestOfTwo
<1>4. /\ \A e \in Device \ {d} : session'[e] = session[e]
      /\ session'[d].batch \subseteq left
      /\ session'[d].top = Max({s.top, s.sequence}) /\ session'[d].sequence = 0
      /\ session'[d].phase \in {"pushSent", "snapshotSent", "pullSent"}
  <2>1. NextRequest(d, left, Max({s.top, s.sequence}))
    BY <1>h, <1>3
  <2>2. QED
    BY <1>1, <1>2, <1>m, <2>1, TurnCarries
<1>5. Told(left, local[d])
  <2>1. ASSUME NEW p \in pending[d], p \notin left PROVE Committed(p.op)
    <3>1. PICK b \in s.batch : b.op.id = p.op.id
      BY <2>1 DEF Pushed
    <3>2. b.op \in IssuedOps /\ p.op \in IssuedOps
      BY <1>1, <3>1 DEF IssuedOps, Issued, QueueRow
    <3>3. b.op = p.op
      BY <1>t, <3>1, <3>2 DEF IdsName
    <3>4. Committed(b.op)
      BY <1>t, <1>h DEF DeviceSound, SessionSound
    <3>5. QED
      BY <3>3, <3>4
  <2>2. \A op : (\E p \in pending[d] : p.op = op) => Committed(op) \/ \E p \in left : p.op = op
    BY <2>1
  <2> HIDE DEF left
  <2>3. QED
    BY <1>t, <2>2 DEF DeviceFaithful, Told
<1> HIDE DEF left
<1>6. /\ ShowsOwn(d, local'[d]) /\ Told(pending'[d], local'[d])
      /\ Vouched(d, cursor'[d], local'[d], forgotten'[d])
  BY <1>t, <1>3, <1>5, <1>h DEF DeviceFaithful
<1>7. NumbersBelow(d, session'[d], cursor'[d])
  BY <1>t, <1>1, <1>4, <1>m, <1>h DEF DeviceFaithful, NumbersBelow
<1>8. Answered(d, session'[d], pending'[d], cursor'[d], forgotten'[d])
  BY <1>4, IdleAnswered
<1>9. QED
  BY <1>2, <1>3, <1>4, <1>6, <1>7, <1>8, <1>h, ClientFaithful

LEMMA GiveUpFaithful ==
  ASSUME Inductive, Faithful, NEW d \in Device, GiveUp(d)
  PROVE  Faithful'
<1>h. /\ session' = [session EXCEPT ![d] = NoSession]
      /\ late' = IF session[d].phase = "pushSent" THEN late \cup {session[d].batch} ELSE late
      /\ UNCHANGED <<log, rows, lastSeq, minAvailable, history, local, pending, cursor, edits,
                     forgotten>>
  BY DEF GiveUp, server
<1>1. session \in [Device -> Sessions] /\ lastSeq \in Nat
  BY DEF Inductive, TypeOK
<1>2. session'[d] = NoSession /\ \A e \in Device \ {d} : session'[e] = session[e]
  BY <1>1, <1>h
<1>3. NoSession.top = 0 /\ NoSession.sequence = 0
  BY DEF NoSession
<1>4. /\ ShowsOwn(d, local'[d]) /\ Told(pending'[d], local'[d])
      /\ Vouched(d, cursor'[d], local'[d], forgotten'[d])
      /\ NumbersBelow(d, session'[d], cursor'[d])
  BY <1>1, <1>2, <1>3, <1>h DEF Faithful, DeviceFaithful, NumbersBelow
<1>5. Answered(d, session'[d], pending'[d], cursor'[d], forgotten'[d])
  BY <1>2, NoSessionTyped, IdleAnswered
<1>6. QED
  BY <1>2, <1>4, <1>5, <1>h, NoSessionTyped, ClientFaithful

LEMMA HandleSnapshotFaithful ==
  ASSUME Inductive, Faithful, NEW d \in Device, HandleSnapshot(d)
  PROVE  Faithful'
<1> DEFINE s == session[d]
           shown == {[entity |-> m, content |-> rows[m].content, stamp |-> rows[m].stamp] :
                       m \in LiveRows}
           new == [s EXCEPT !.phase = "snapshotAnswered", !.sequence = LatestSeq,
                            !.items = shown]
           gone == forgotten[d] \cup (AllRows \ LiveRows)
<1>h. /\ session' = [session EXCEPT ![d] = new]
      /\ forgotten' = [forgotten EXCEPT ![d] = gone]
      /\ UNCHANGED <<log, rows, lastSeq, minAvailable, history, local, pending, cursor, late,
                     edits, failures>>
  BY DEF HandleSnapshot, server
<1>t. TypeOK /\ DeviceFaithful(d) /\ RowsFollow
  BY DEF Inductive, Faithful
<1>1. /\ session \in [Device -> Sessions] /\ s \in Sessions
      /\ forgotten \in [Device -> SUBSET Memo]
      /\ LatestSeq \in Nat /\ LatestSeq <= lastSeq
  BY <1>t, LatestBelow DEF TypeOK
<1>2. ASSUME NEW x \in shown
      PROVE  \E m \in LiveRows : x.entity = m /\ x.content = rows[m].content /\ x.stamp = rows[m].stamp
  OBVIOUS
<1>3. ASSUME NEW m \in LiveRows
      PROVE  \E x \in shown : x.entity = m
  <2>1. [entity |-> m, content |-> rows[m].content, stamp |-> rows[m].stamp] \in shown
    OBVIOUS
  <2>2. QED
    BY <2>1
<1> HIDE DEF shown
<1>4. /\ new.batch = s.batch /\ new.top = s.top /\ new.sequence = LatestSeq /\ new.items = shown
      /\ new.phase = "snapshotAnswered"
  BY <1>1 DEF Sessions
<1> HIDE DEF new
<1>5. /\ session'[d] = new /\ forgotten'[d] = gone
      /\ \A e \in Device \ {d} : session'[e] = session[e] /\ forgotten'[e] = forgotten[e]
  BY <1>1, <1>h
<1>6. ASSUME NEW x \in shown
      PROVE  \E r \in history : /\ r.op.entity = x.entity /\ r.op.stamp = x.stamp
                                /\ r.op.kind = "upsert" /\ r.op.content = x.content
  <2>1. PICK m \in LiveRows : x.entity = m /\ x.content = rows[m].content /\ x.stamp = rows[m].stamp
    BY <1>2
  <2>2. m \in Entity /\ rows[m] # NoRow /\ rows[m].deleted = "no"
    BY DEF LiveRows, AllRows, Entity
  <2>3. PICK r \in history : r.op.entity = m /\ r.op.stamp = rows[m].stamp /\ Says(r.op, rows[m])
    BY <1>t, <2>2 DEF RowsFollow
  <2>4. QED
    BY <2>1, <2>2, <2>3 DEF Says
<1>7. ASSUME NEW r \in history
      PROVE  /\ r.op.entity \in gone \/ \E x \in shown : x.entity = r.op.entity
             /\ \A x \in shown : x.entity = r.op.entity => ~Wins(r.op.stamp, x.stamp)
  <2>1. rows[r.op.entity] # NoRow /\ ~Wins(r.op.stamp, rows[r.op.entity].stamp)
    BY <1>t DEF RowsFollow
  <2>2. r.op.entity \in Memo
    <3>1. r.op \in IssuedOps
      BY <1>t DEF TypeOK, LogRow, IssuedOps, Issued
    <3>2. QED
      BY <3>1 DEF Inductive, IdsName
  <2>3. r.op.entity \in AllRows
    BY <2>1, <2>2 DEF AllRows
  <2>4. QED
    BY <1>2, <1>3, <2>1, <2>3
<1>8. Answered(d, new, pending[d], cursor[d], gone)
  BY <1>4, <1>6, <1>7 DEF Answered
<1>9. /\ ShowsOwn(d, local'[d]) /\ Told(pending'[d], local'[d])
      /\ Vouched(d, cursor'[d], local'[d], forgotten'[d])
      /\ NumbersBelow(d, session'[d], cursor'[d])
  BY <1>t, <1>1, <1>4, <1>5, <1>h DEF DeviceFaithful, Vouched, NumbersBelow
<1>10. Answered(d, session'[d], pending'[d], cursor'[d], forgotten'[d])
  BY <1>5, <1>8, <1>h
<1> HIDE DEF gone
<1>11. QED
  BY <1>4, <1>5, <1>9, <1>10, <1>h, ClientFaithful

(* What was committed or waits is an operation on a memo.                   *)
LEMMA IssuedTyped ==
  ASSUME Inductive
  PROVE  /\ \A a \in IssuedOps : a \in Operation /\ a.entity \in Memo /\ a.stamp \in Stamp
         /\ \A r \in history : r.op \in IssuedOps /\ r.seq \in Nat /\ r.seq <= lastSeq
<1>1. \A a \in IssuedOps : a \in Operation /\ a.entity \in Memo /\ a.stamp \in Stamp
  BY OperationParts DEF IssuedOps, Inductive, IdsName
<1>2. \A r \in history : r.op \in IssuedOps /\ r.seq \in Nat /\ r.seq <= lastSeq
  BY DEF Inductive, TypeOK, LogRow, IssuedOps, Issued, LogBelowCounter
<1>3. QED
  BY <1>1, <1>2

(* A row that moves on to a newer version keeps everything it had taken.    *)
Advances(t, u) ==
  \A m \in Memo : t[m] # NoRow =>
    u[m] # NoRow /\ (u[m].version = t[m].version \/ Wins(u[m].version, t[m].version))
Stamped(t) == \A m \in Memo : t[m] # NoRow => t[m].version \in Stamp

LEMMA ToldStamped ==
  ASSUME NEW q, NEW t, Told(q, t)
  PROVE  Stamped(t)
BY OperationParts DEF Told, Stamped

LEMMA TakenStays ==
  ASSUME NEW t, NEW u, Stamped(t), Stamped(u), Advances(t, u),
         NEW op, op.stamp \in Stamp, op.entity \in Memo, TakenIn(t, op)
  PROVE  TakenIn(u, op)
<1> DEFINE m == op.entity
<1>1. /\ t[m] # NoRow /\ ~Wins(op.stamp, t[m].version) /\ t[m].version \in Stamp
      /\ u[m] # NoRow /\ u[m].version \in Stamp
      /\ u[m].version = t[m].version \/ Wins(u[m].version, t[m].version)
  BY DEF TakenIn, Advances, Stamped
<1>2. ~Wins(op.stamp, u[m].version)
  BY <1>1, LosersKeepLosing
<1>3. QED
  BY <1>1, <1>2 DEF TakenIn

LEMMA ApplySnapshotFaithful ==
  ASSUME Inductive, Faithful, NEW d \in Device, ApplySnapshot(d)
  PROVE  Faithful'
<1> DEFINE s == session[d]
           Of(m) == {x \in s.items : x.entity = m}
           table == [m \in Memo |-> IF Of(m) = {} THEN local[d][m]
                                    ELSE ApplyItem(local[d][m], CHOOSE x \in Of(m) : TRUE)]
           new == [NoSession EXCEPT !.phase = "pullSent", !.top = Max({s.top, s.sequence})]
<1>h. /\ s.phase = "snapshotAnswered"
      /\ local' = [local EXCEPT ![d] = table]
      /\ cursor' = [cursor EXCEPT ![d] = s.sequence]
      /\ session' = [session EXCEPT ![d] = new]
      /\ UNCHANGED <<log, rows, lastSeq, minAvailable, history, pending, late, edits,
                     failures, forgotten>>
  BY DEF ApplySnapshot, server
<1>t. TypeOK /\ DeviceFaithful(d)
  BY DEF Inductive, Faithful
<1>1. /\ session \in [Device -> Sessions] /\ s \in Sessions
      /\ s.sequence \in Nat /\ s.top \in Nat /\ s.items \in SUBSET Item
      /\ local \in [Device -> LocalTable] /\ local[d] \in LocalTable
      /\ cursor \in [Device -> Nat] /\ lastSeq \in Nat
  BY <1>t DEF TypeOK, Sessions
<1>2. /\ Stamped(local[d])
      /\ Answered(d, s, pending[d], cursor[d], forgotten[d])
  BY <1>t, ToldStamped DEF DeviceFaithful
<1>3. ASSUME NEW m \in Memo
      PROVE  \/ Of(m) = {} /\ table[m] = local[d][m]
             \/ \E x \in Of(m) : table[m] = ApplyItem(local[d][m], x)
  <2>1. CASE Of(m) = {}
    BY <2>1
  <2>2. CASE Of(m) # {}
    BY <2>2
  <2>3. QED
    BY <2>1, <2>2
<1> HIDE DEF table
<1>4. \A x \in s.items : x \in Item /\ x.entity \in Memo /\ x.stamp \in Stamp
  BY <1>1 DEF Item
<1>5. ASSUME NEW m \in Memo, NEW x \in Of(m), table[m] = ApplyItem(local[d][m], x)
      PROVE  /\ table[m] # NoRow /\ table[m].version \in Stamp
             /\ ~Wins(x.stamp, table[m].version)
             /\ table[m] = local[d][m] \/ table[m] = Saved(x.content, x.stamp)
             /\ local[d][m] # NoRow =>
                  table[m].version = local[d][m].version \/ Wins(table[m].version, local[d][m].version)
  <2>1. x \in Item /\ x.stamp \in Stamp /\ x.content \in Content
    BY <1>4 DEF Item
  <2>2. /\ Saved(x.content, x.stamp) \in LocalRow /\ Saved(x.content, x.stamp) # NoRow
        /\ Saved(x.content, x.stamp).version = x.stamp
    BY <2>1, NoLocalRowAssumption DEF Saved, LocalRow, Flag
  <2>3. local[d][m] # NoRow => local[d][m].version \in Stamp /\ local[d][m].version # NoVersion
    BY <1>2, NoVersionAssumption DEF Stamped
  <2>4. ~Wins(x.stamp, x.stamp)
    BY <2>1, WinsIsStrictTotalOrder
  <2>5. CASE LocalWins(local[d][m], x.stamp)
    <3>1. table[m] = Saved(x.content, x.stamp)
      BY <1>5, <2>5 DEF ApplyItem
    <3>2. local[d][m] # NoRow => Wins(x.stamp, local[d][m].version)
      BY <2>3, <2>5 DEF LocalWins
    <3>3. QED
      BY <3>1, <3>2, <2>1, <2>2, <2>4
  <2>6. CASE ~LocalWins(local[d][m], x.stamp)
    <3>1. table[m] = local[d][m]
      BY <1>5, <2>6 DEF ApplyItem
    <3>2. local[d][m] # NoRow /\ ~Wins(x.stamp, local[d][m].version)
      BY <2>6 DEF LocalWins
    <3>3. QED
      BY <3>1, <3>2, <2>3
  <2>7. QED
    BY <2>5, <2>6
<1>6. Advances(local[d], table) /\ Stamped(table)
  <2>1. ASSUME NEW m \in Memo, local[d][m] # NoRow
        PROVE  table[m] # NoRow /\ (table[m].version = local[d][m].version
                                    \/ Wins(table[m].version, local[d][m].version))
    BY <1>3, <1>5, <2>1
  <2>2. ASSUME NEW m \in Memo, table[m] # NoRow
        PROVE  table[m].version \in Stamp
    BY <1>2, <1>3, <1>5, <2>2 DEF Stamped
  <2>3. QED
    BY <2>1, <2>2 DEF Advances, Stamped
<1>7. ShowsOwn(d, table)
  BY <1>t, <1>2, <1>6, IssuedTyped, TakenStays DEF DeviceFaithful, ShowsOwn
<1>8. Told(pending[d], table)
  <2>1. ASSUME NEW m \in Memo, table[m] # NoRow
        PROVE  \E op \in Operation :
                 /\ op.entity = m /\ op.stamp = table[m].version /\ Says(op, table[m])
                 /\ Committed(op) \/ \E p \in pending[d] : p.op = op
    <3>1. CASE table[m] = local[d][m]
      BY <1>t, <2>1, <3>1 DEF DeviceFaithful, Told
    <3>2. CASE table[m] # local[d][m]
      <4>1. PICK x \in Of(m) : table[m] = Saved(x.content, x.stamp)
        BY <1>3, <1>5, <3>2
      <4>2. PICK r \in history : /\ r.op.entity = x.entity /\ r.op.stamp = x.stamp
                                 /\ r.op.kind = "upsert" /\ r.op.content = x.content
        BY <1>2, <1>h DEF Answered
      <4>3. r.op \in Operation /\ Committed(r.op)
        BY IssuedTyped DEF Committed
      <4>4. Says(r.op, table[m]) /\ table[m].version = r.op.stamp /\ r.op.entity = m
        BY <4>1, <4>2 DEF Says, Saved
      <4>5. QED
        BY <4>3, <4>4
    <3>3. QED
      BY <3>1, <3>2
  <2>2. QED
    BY <2>1 DEF Told
<1>9. Vouched(d, s.sequence, table, forgotten[d])
  <2>1. ASSUME NEW r \in history, r.seq <= s.sequence, r.op.entity \notin forgotten[d]
        PROVE  TakenIn(table, r.op)
    <3> DEFINE m == r.op.entity
    <3>1. m \in Memo /\ r.op.stamp \in Stamp
      BY IssuedTyped
    <3>2. /\ \E x \in s.items : x.entity = m
          /\ \A x \in s.items : x.entity = m => ~Wins(r.op.stamp, x.stamp)
      BY <1>2, <1>h, <2>1 DEF Answered
    <3>3. PICK x \in Of(m) : table[m] = ApplyItem(local[d][m], x)
      BY <1>3, <3>1, <3>2
    <3>4. ~Wins(r.op.stamp, x.stamp) /\ x.stamp \in Stamp
      BY <1>4, <3>2
    <3>5. table[m] # NoRow /\ table[m].version \in Stamp /\ ~Wins(x.stamp, table[m].version)
      BY <1>5, <3>1, <3>3
    <3>6. ~Wins(r.op.stamp, table[m].version)
      BY <3>1, <3>4, <3>5, WinsIsStrictTotalOrder
    <3>7. QED
      BY <3>5, <3>6 DEF TakenIn
  <2>2. QED
    BY <2>1 DEF Vouched
<1>m. /\ Max({s.top, s.sequence}) \in {s.top, s.sequence}
  BY <1>1, HighestOfTwo
<1>10. /\ new.batch = {} /\ new.top = Max({s.top, s.sequence}) /\ new.sequence = 0
       /\ new.phase = "pullSent"
  BY DEF NoSession
<1> HIDE DEF new
<1>11. /\ session'[d] = new /\ local'[d] = table /\ cursor'[d] = s.sequence
       /\ \A e \in Device \ {d} : /\ session'[e] = session[e] /\ local'[e] = local[e]
                                  /\ cursor'[e] = cursor[e]
  BY <1>1, <1>h
<1>12. NumbersBelow(d, session'[d], cursor'[d])
  BY <1>t, <1>1, <1>m, <1>10, <1>11 DEF DeviceFaithful, NumbersBelow
<1>13. Answered(d, session'[d], pending'[d], cursor'[d], forgotten'[d])
  BY <1>10, <1>11, IdleAnswered
<1>14. /\ ShowsOwn(d, local'[d]) /\ Told(pending'[d], local'[d])
       /\ Vouched(d, cursor'[d], local'[d], forgotten'[d])
  BY <1>7, <1>8, <1>9, <1>11, <1>h
<1>15. QED
  BY <1>10, <1>11, <1>12, <1>13, <1>14, <1>h, ClientFaithful

(* A page is the front of what is wanted: nothing is skipped.               *)
LEMMA FirstRowsDown ==
  ASSUME NEW S \in SUBSET LogRow, IsFiniteSet(S), NEW n \in Nat,
         NEW r \in S, NEW x \in FirstRows(S, n), r.seq <= x.seq
  PROVE  r \in FirstRows(S, n)
<1> DEFINE Upto(y) == {q \in S : q.seq <= y.seq}
<1>1. x \in S /\ Cardinality(Upto(x)) <= n
  BY DEF FirstRows
<1>2. \A y \in S : y.seq \in Nat
  BY DEF LogRow
<1>3. Upto(r) \in SUBSET Upto(x) /\ Upto(x) \in SUBSET S
  BY <1>1, <1>2
<1>4. /\ IsFiniteSet(Upto(x)) /\ IsFiniteSet(Upto(r))
      /\ Cardinality(Upto(r)) <= Cardinality(Upto(x))
  BY <1>3, FS_Subset
<1>5. Cardinality(Upto(r)) \in Nat /\ Cardinality(Upto(x)) \in Nat
  BY <1>4, FS_CardinalityType
<1>6. Cardinality(Upto(r)) <= n
  BY <1>1, <1>4, <1>5
<1>7. QED
  BY <1>6 DEF FirstRows

(* Whoever wants something gets something.                                  *)
LEMMA FirstRowsSome ==
  ASSUME NEW S \in SUBSET LogRow, S # {}, \A r, q \in S : r.seq = q.seq => r = q,
         NEW n \in Nat \ {0}
  PROVE  FirstRows(S, n) # {}
<1> DEFINE T == {r.seq : r \in S}
<1>1. T \subseteq Nat /\ T # {}
  BY DEF LogRow
<1>2. PICK low \in T : \A y \in T : low <= y
  BY <1>1, LeastOfNaturals
<1>3. PICK r \in S : r.seq = low
  OBVIOUS
<1>4. \A q \in S : r.seq <= q.seq
  BY <1>2, <1>3
<1>5. {q \in S : q.seq <= r.seq} = {r}
  <2>1. ASSUME NEW q \in S, q.seq <= r.seq PROVE q = r
    <3>1. q.seq = r.seq
      BY <1>4, <2>1 DEF LogRow
    <3>2. QED
      BY <3>1
  <2>2. r.seq <= r.seq
    BY <1>4
  <2>3. QED
    BY <2>1, <2>2
<1>6. Cardinality({r}) = 1
  BY FS_Singleton
<1>7. r \in FirstRows(S, n)
  BY <1>5, <1>6 DEF FirstRows
<1>8. QED
  BY <1>7

LEMMA HandlePullFaithful ==
  ASSUME Inductive, Faithful, NEW d \in Device, HandlePull(d)
  PROVE  Faithful'
<1> DEFINE s == session[d]
           page == FirstRows(Wanted(d), PullLimit)
           numbers == {0} \cup IF page = {} THEN {LatestSeq} ELSE {r.seq : r \in page}
           sequence == Max(numbers)
           behind == [s EXCEPT !.phase = "snapshotSent"]
           answered == [s EXCEPT !.phase = IF page = {} THEN "pullEmpty" ELSE "pullAnswered",
                                 !.page = page, !.more = page # Wanted(d),
                                 !.sequence = sequence]
<1>h. /\ session' = [session EXCEPT ![d] = IF BehindHorizon(d) THEN behind ELSE answered]
      /\ UNCHANGED <<log, rows, lastSeq, minAvailable, history, local, pending, cursor, late,
                     edits, failures, forgotten>>
  BY Zenon DEF HandlePull, Goto, server
<1>t. TypeOK /\ DeviceFaithful(d) /\ LogComplete /\ log \subseteq history
  BY DEF Inductive, Faithful, LogBelowCounter
<1>1. /\ session \in [Device -> Sessions] /\ s \in Sessions
      /\ log \in SUBSET LogRow /\ history \in SUBSET LogRow
      /\ cursor[d] \in Nat /\ lastSeq \in Nat /\ minAvailable \in Nat
  BY <1>t DEF TypeOK
<1>2. /\ Wanted(d) \in SUBSET LogRow /\ Wanted(d) \in SUBSET log /\ IsFiniteSet(Wanted(d))
      /\ \A r \in log : r.seq > cursor[d] /\ r.op.stamp.device # d => r \in Wanted(d)
      /\ \A r, q \in Wanted(d) : r.seq = q.seq => r = q
  <2>1. Wanted(d) \in SUBSET log
    BY DEF Wanted
  <2>2. IsFiniteSet(Wanted(d))
    BY <2>1, <1>t, FS_Subset DEF LogComplete
  <2>3. QED
    BY <1>1, <1>t, <2>1, <2>2 DEF Wanted, LogComplete
<1>3. page = {} => Wanted(d) = {}
  BY <1>2, FirstRowsSome, LimitAssumption
<1>4. page \in SUBSET Wanted(d)
  BY DEF FirstRows
<1>5. ASSUME NEW r \in Wanted(d), NEW x \in page, r.seq <= x.seq PROVE r \in page
  BY <1>2, <1>5, FirstRowsDown, LimitAssumption
<1> HIDE DEF page
<1>6. LatestSeq \in Nat /\ LatestSeq <= lastSeq /\ \A r \in history : r.seq \in Nat /\ r.seq <= lastSeq
  BY LatestBelow, IssuedTyped
<1>7. numbers \in SUBSET Nat /\ numbers # {} /\ \A x \in numbers : x <= lastSeq
  BY <1>1, <1>2, <1>4, <1>6, <1>t
<1>8. sequence \in numbers
  BY <1>1, <1>7, MaxOfBounded
<1>9. /\ sequence \in Nat /\ sequence <= lastSeq
      /\ page # {} => sequence = 0 \/ \E x \in page : x.seq = sequence
  BY <1>7, <1>8
<1> HIDE DEF numbers, sequence
<1>10. ASSUME ~BehindHorizon(d), NEW r \in history, r.op.stamp.device # d
       PROVE  r.seq <= cursor[d] \/ r \in Wanted(d)
  <2>1. CASE r.seq > minAvailable
    <3>1. r \in log
      BY <1>t, <2>1 DEF LogComplete
    <3>2. QED
      BY <1>1, <1>2, <1>6, <1>10, <3>1
  <2>2. CASE ~(r.seq > minAvailable)
    BY <1>1, <1>6, <1>10, <2>2 DEF BehindHorizon
  <2>3. QED
    BY <2>1, <2>2
<1>11. ASSUME ~BehindHorizon(d), NEW r \in history, r.op.stamp.device # d,
              page # {}, r.seq <= sequence
       PROVE  r.seq <= cursor[d] \/ r \in page
  <2>1. CASE r \in Wanted(d)
    <3>1. r.seq # 0
      BY <1>1 DEF LogRow
    <3>2. PICK x \in page : x.seq = sequence
      BY <1>6, <1>9, <1>11, <3>1
    <3>3. QED
      BY <1>5, <1>11, <2>1, <3>2
  <2>2. QED
    BY <1>10, <1>11, <2>1
<1>12. /\ behind.batch = s.batch /\ behind.top = s.top /\ behind.sequence = s.sequence
       /\ behind.phase = "snapshotSent"
  BY <1>1 DEF Sessions
<1>13. /\ answered.batch = s.batch /\ answered.top = s.top /\ answered.sequence = sequence
       /\ answered.page = page
       /\ answered.phase = IF page = {} THEN "pullEmpty" ELSE "pullAnswered"
  BY <1>1 DEF Sessions
<1> HIDE DEF behind, answered
<1>14. /\ ShowsOwn(d, local'[d]) /\ Told(pending'[d], local'[d])
       /\ Vouched(d, cursor'[d], local'[d], forgotten'[d])
       /\ NumbersBelow(d, s, cursor[d])
  BY <1>t, <1>h DEF DeviceFaithful
<1>15. CASE BehindHorizon(d)
  <2>1. session'[d] = behind /\ \A e \in Device \ {d} : session'[e] = session[e]
    BY <1>1, <1>15, <1>h
  <2>2. NumbersBelow(d, session'[d], cursor'[d])
    BY <1>12, <1>14, <2>1, <1>h DEF NumbersBelow
  <2>3. Answered(d, session'[d], pending'[d], cursor'[d], forgotten'[d])
    BY <1>12, <2>1, IdleAnswered
  <2>4. QED
    BY <1>12, <1>14, <2>1, <2>2, <2>3, <1>h, ClientFaithful
<1>16. CASE ~BehindHorizon(d)
  <2>1. session'[d] = answered /\ \A e \in Device \ {d} : session'[e] = session[e]
    BY <1>1, <1>16, <1>h
  <2>2. NumbersBelow(d, session'[d], cursor'[d])
    BY <1>9, <1>13, <1>14, <2>1, <1>h DEF NumbersBelow
  <2>3. CASE page = {}
    <3>1. \A r \in history : r.op.stamp.device # d => r.seq <= cursor[d]
      BY <1>3, <1>10, <1>16, <2>3
    <3>2. Answered(d, answered, pending[d], cursor[d], forgotten[d])
      BY <1>13, <2>3, <3>1 DEF Answered
    <3>3. QED
      BY <1>13, <1>14, <2>1, <2>2, <3>2, <1>h, ClientFaithful
  <2>4. CASE page # {}
    <3>1. Answered(d, answered, pending[d], cursor[d], forgotten[d])
      BY <1>11, <1>13, <1>16, <2>4 DEF Answered
    <3>2. QED
      BY <1>13, <1>14, <2>1, <2>2, <3>1, <1>h, ClientFaithful
  <2>5. QED
    BY <2>3, <2>4
<1>17. QED
  BY <1>15, <1>16

(* A pulled save or delete is taken, or something newer was; only a delete  *)
(* that finds no row leaves none.                                           *)
LEMMA ApplyRemoteTakes ==
  ASSUME NEW row \in LocalRow \cup {NoRow}, row # NoRow => row.version \in Stamp,
         NEW op \in Operation, op.kind # "patch", op.kind = "upsert" => op.deleted = "no",
         NEW new, new = ApplyRemote(row, op)
  PROVE  /\ new = row \/ (new.version = op.stamp /\ Says(op, new))
         /\ row # NoRow =>
              new # NoRow /\ (new.version = row.version \/ Wins(new.version, row.version))
         /\ new # NoRow => new.version \in Stamp /\ ~Wins(op.stamp, new.version)
         /\ new = NoRow => op.kind = "delete" /\ row = NoRow
<1>0. op.kind \in {"upsert", "delete"} /\ op.stamp \in Stamp /\ ~Wins(op.stamp, op.stamp)
  BY OperationParts, WinsIsStrictTotalOrder
<1>1. CASE ~LocalWins(row, op.stamp)
  <2>1. new = row
    BY <1>1 DEF ApplyRemote
  <2>2. row # NoRow /\ ~Wins(op.stamp, row.version)
    BY <1>1 DEF LocalWins
  <2>3. QED
    BY <2>1, <2>2
<1>w. LocalWins(row, op.stamp) => row = NoRow \/ Wins(op.stamp, row.version)
  BY NoVersionAssumption DEF LocalWins
<1>2. CASE LocalWins(row, op.stamp) /\ op.kind = "upsert"
  <2>1. new = [content |-> op.content, deleted |-> op.deleted, version |-> op.stamp]
    BY <1>2 DEF ApplyRemote
  <2>2. new \in LocalRow /\ new # NoRow
    BY <1>2, <2>1, OperationParts, NoLocalRowAssumption DEF LocalRow
  <2>3. Says(op, new) /\ new.version = op.stamp
    BY <1>2, <2>1 DEF Says
  <2>4. QED
    BY <1>0, <1>2, <1>w, <2>2, <2>3
<1>3. CASE LocalWins(row, op.stamp) /\ op.kind = "delete" /\ row # NoRow
  <2>1. new = Removed(row, op.stamp)
    BY <1>3 DEF ApplyRemote
  <2>2. /\ Removed(row, op.stamp) \in LocalRow /\ Removed(row, op.stamp).version = op.stamp
        /\ Removed(row, op.stamp).deleted = "yes"
    BY <1>0, <1>3 DEF Removed, LocalRow, Flag
  <2>3. new # NoRow /\ new.version = op.stamp /\ Says(op, new)
    BY <1>3, <2>1, <2>2, NoLocalRowAssumption DEF Says
  <2>4. QED
    BY <1>0, <1>3, <1>w, <2>3
<1>4. CASE op.kind = "delete" /\ row = NoRow
  <2>1. new = row
    BY <1>4 DEF ApplyRemote, LocalWins
  <2>2. QED
    BY <1>4, <2>1
<1>5. QED
  BY <1>0, <1>1, <1>2, <1>3, <1>4

LEMMA ApplyNextFaithful ==
  ASSUME Inductive, Faithful, NEW d \in Device, ApplyNext(d)
  PROVE  Faithful'
<1> DEFINE s == session[d]
           table == IF s.phase = "pullAnswered" THEN local[d] ELSE s.table
           new(r) == [s EXCEPT !.phase = "applying", !.page = s.page \ {r},
                        !.table = [table EXCEPT ![r.op.entity] =
                                     ApplyRemote(table[r.op.entity], r.op)]]
<1>h. /\ s.phase \in {"pullAnswered", "applying"}
      /\ UNCHANGED <<log, rows, lastSeq, minAvailable, history, local, pending, cursor, late,
                     edits, failures>>
  BY DEF ApplyNext, server
<1>r. PICK r \in s.page :
        /\ session' = [session EXCEPT ![d] = new(r)]
        /\ forgotten' = IF r.op.kind = "delete" /\ table[r.op.entity] = NoRow
             THEN [forgotten EXCEPT ![d] = @ \cup {r.op.entity}] ELSE forgotten
  BY DEF ApplyNext
<1>t. TypeOK /\ DeviceSound(d) /\ DeviceFaithful(d)
  BY DEF Inductive, Faithful
<1> DEFINE m == r.op.entity
           row == ApplyRemote(table[m], r.op)
           after == [table EXCEPT ![m] = row]
           gone == IF r.op.kind = "delete" /\ table[m] = NoRow THEN forgotten[d] \cup {m}
                   ELSE forgotten[d]
<1>1. /\ session \in [Device -> Sessions] /\ s \in Sessions
      /\ local[d] \in LocalTable /\ s.table \in LocalTable /\ table \in LocalTable
      /\ forgotten \in [Device -> SUBSET Memo]
  BY <1>t DEF TypeOK, Sessions
<1>2. /\ r \in history /\ r.op \in IssuedOps /\ r.op \in Operation /\ m \in Memo
      /\ r.op.stamp \in Stamp
      /\ r.op.kind # "patch" /\ (r.op.kind = "upsert" => r.op.deleted = "no")
  BY <1>t, IssuedTyped DEF DeviceSound, SessionSound, Faithful, StampsName
<1>3. ShowsOwn(d, table) /\ Told(pending[d], table)
  BY <1>t, <1>h DEF DeviceFaithful, Answered
<1>4. ASSUME NEW q \in history, q.seq <= s.sequence, q.op.stamp.device # d
      PROVE  q \in s.page \/ q.op.entity \in forgotten[d] \/ TakenIn(table, q.op)
  <2>1. CASE s.phase = "pullAnswered"
    BY <1>t, <1>4, <2>1 DEF DeviceFaithful, Answered, Vouched
  <2>2. CASE s.phase = "applying"
    BY <1>t, <1>4, <2>2 DEF DeviceFaithful, Answered
  <2>3. QED
    BY <1>h, <2>1, <2>2
<1>5. forgotten'[d] = gone /\ \A e \in Device \ {d} : forgotten'[e] = forgotten[e]
  BY <1>1, <1>r
<1> HIDE DEF table
<1>6. Stamped(table)
  BY <1>3, ToldStamped
<1>7. /\ row = table[m] \/ (row.version = r.op.stamp /\ Says(r.op, row))
      /\ table[m] # NoRow =>
           row # NoRow /\ (row.version = table[m].version \/ Wins(row.version, table[m].version))
      /\ row # NoRow => row.version \in Stamp /\ ~Wins(r.op.stamp, row.version)
      /\ row = NoRow => r.op.kind = "delete" /\ table[m] = NoRow
  <2>1. table[m] \in LocalRow \cup {NoRow} /\ (table[m] # NoRow => table[m].version \in Stamp)
    BY <1>1, <1>2, <1>6 DEF LocalTable, Stamped
  <2>2. QED
    BY <1>2, <2>1, ApplyRemoteTakes
<1>8. row = NoRow => m \in gone
  BY <1>7
<1>9. forgotten[d] \subseteq gone
  OBVIOUS
<1> HIDE DEF row, gone
<1>10. after[m] = row /\ \A x \in Memo : x # m => after[x] = table[x]
  BY <1>1, <1>2 DEF LocalTable
<1> HIDE DEF after
<1>11. Advances(table, after) /\ Stamped(after)
  <2>1. ASSUME NEW x \in Memo, table[x] # NoRow
        PROVE  after[x] # NoRow /\ (after[x].version = table[x].version
                                    \/ Wins(after[x].version, table[x].version))
    BY <1>7, <1>10, <2>1
  <2>2. ASSUME NEW x \in Memo, after[x] # NoRow PROVE after[x].version \in Stamp
    BY <1>6, <1>7, <1>10, <2>2 DEF Stamped
  <2>3. QED
    BY <2>1, <2>2 DEF Advances, Stamped
<1>12. ShowsOwn(d, after)
  BY <1>3, <1>6, <1>11, IssuedTyped, TakenStays DEF ShowsOwn
<1>13. Told(pending[d], after)
  <2>1. ASSUME NEW x \in Memo, after[x] # NoRow
        PROVE  \E op \in Operation :
                 /\ op.entity = x /\ op.stamp = after[x].version /\ Says(op, after[x])
                 /\ Committed(op) \/ \E p \in pending[d] : p.op = op
    <3>1. CASE after[x] = table[x]
      BY <1>3, <2>1, <3>1 DEF Told
    <3>2. CASE after[x] # table[x]
      <4>1. x = m /\ after[x] = row /\ row # table[m]
        BY <1>10, <3>2
      <4>2. Committed(r.op)
        BY <1>2 DEF Committed
      <4>3. QED
        BY <1>2, <1>7, <4>1, <4>2
    <3>3. QED
      BY <3>1, <3>2
  <2>2. QED
    BY <2>1 DEF Told
<1>14. ASSUME NEW q \in history, q.seq <= s.sequence, q.op.stamp.device # d
       PROVE  q \in s.page \ {r} \/ q.op.entity \in gone \/ TakenIn(after, q.op)
  <2>1. CASE q = r
    BY <1>7, <1>8, <1>10, <2>1 DEF TakenIn
  <2>2. CASE q # r
    <3>1. q.op.entity \in Memo /\ q.op.stamp \in Stamp
      BY IssuedTyped
    <3>2. CASE TakenIn(table, q.op)
      BY <1>6, <1>11, <3>1, <3>2, TakenStays
    <3>3. QED
      BY <1>4, <1>9, <1>14, <2>2, <3>2
  <2>3. QED
    BY <2>1, <2>2
<1>15. new(r) = [s EXCEPT !.phase = "applying", !.page = s.page \ {r}, !.table = after]
  BY DEF after, row
<1>16. /\ new(r).batch = s.batch /\ new(r).page = s.page \ {r} /\ new(r).top = s.top
       /\ new(r).sequence = s.sequence /\ new(r).phase = "applying" /\ new(r).table = after
  BY <1>1, <1>15 DEF Sessions
<1> HIDE DEF new
<1>17. session'[d] = new(r) /\ \A e \in Device \ {d} : session'[e] = session[e]
  BY <1>1, <1>r
<1>18. Answered(d, new(r), pending[d], cursor[d], gone)
  BY <1>12, <1>13, <1>14, <1>16 DEF Answered
<1>19. /\ ShowsOwn(d, local'[d]) /\ Told(pending'[d], local'[d])
       /\ Vouched(d, cursor'[d], local'[d], forgotten'[d])
       /\ NumbersBelow(d, session'[d], cursor'[d])
  BY <1>t, <1>5, <1>9, <1>16, <1>17, <1>h DEF DeviceFaithful, Vouched, NumbersBelow
<1>20. Answered(d, session'[d], pending'[d], cursor'[d], forgotten'[d])
  BY <1>5, <1>17, <1>18, <1>h
<1>21. QED
  BY <1>5, <1>16, <1>17, <1>19, <1>20, <1>h, ClientFaithful

(* What both ends of a pull carry on.                                       *)
LEMMA ContinueCarries ==
  ASSUME session \in [Device -> Sessions], NEW d \in Device, NEW top \in Nat, Continue(d, top)
  PROVE  /\ \A e \in Device \ {d} : session'[e] = session[e]
         /\ session'[d].batch = {} /\ session'[d].sequence = 0
         /\ session'[d].top = 0 \/ session'[d].top = top
         /\ session'[d].phase \in {"off", "pullSent"}
<1> DEFINE more == [NoSession EXCEPT !.phase = "pullSent", !.top = top]
<1>1. session' = [session EXCEPT ![d] = IF session[d].more THEN more ELSE NoSession]
  BY DEF Continue
<1>2. /\ more.batch = {} /\ more.sequence = 0 /\ more.top = top /\ more.phase = "pullSent"
  BY DEF NoSession
<1>3. NoSession.batch = {} /\ NoSession.sequence = 0 /\ NoSession.top = 0 /\ NoSession.phase = "off"
  BY DEF NoSession
<1> HIDE DEF more
<1>4. session'[d] = more \/ session'[d] = NoSession
  BY <1>1
<1>5. QED
  BY <1>1, <1>2, <1>3, <1>4

LEMMA CommitApplyFaithful ==
  ASSUME Inductive, Faithful, NEW d \in Device, CommitApply(d)
  PROVE  Faithful'
<1> DEFINE s == session[d]
<1>h. /\ s.phase = "applying" /\ s.page = {}
      /\ local' = [local EXCEPT ![d] = s.table]
      /\ cursor' = [cursor EXCEPT ![d] = s.sequence]
      /\ Continue(d, Max({s.top, s.sequence}))
      /\ UNCHANGED <<log, rows, lastSeq, minAvailable, history, pending, late, edits,
                     failures, forgotten>>
  BY DEF CommitApply, server
<1>t. TypeOK /\ DeviceFaithful(d)
  BY DEF Inductive, Faithful
<1>1. /\ session \in [Device -> Sessions] /\ s.sequence \in Nat /\ s.top \in Nat
      /\ local \in [Device -> LocalTable] /\ cursor \in [Device -> Nat] /\ lastSeq \in Nat
  BY <1>t DEF TypeOK, Sessions
<1>m. Max({s.top, s.sequence}) \in Nat /\ Max({s.top, s.sequence}) \in {s.top, s.sequence}
  BY <1>1, HighestOfTwo
<1>2. /\ \A e \in Device \ {d} : session'[e] = session[e]
      /\ session'[d].batch = {} /\ session'[d].sequence = 0
      /\ session'[d].top = 0 \/ session'[d].top = Max({s.top, s.sequence})
      /\ session'[d].phase \in {"off", "pullSent"}
  BY <1>1, <1>m, <1>h, ContinueCarries
<1>3. /\ local'[d] = s.table /\ cursor'[d] = s.sequence
      /\ \A e \in Device \ {d} : local'[e] = local[e] /\ cursor'[e] = cursor[e]
  BY <1>1, <1>h
<1>4. /\ ShowsOwn(d, s.table) /\ Told(pending[d], s.table)
      /\ Vouched(d, s.sequence, s.table, forgotten[d])
  BY <1>t, <1>h DEF DeviceFaithful, Answered, Vouched
<1>5. NumbersBelow(d, session'[d], cursor'[d])
  BY <1>t, <1>1, <1>m, <1>2, <1>3, <1>h DEF DeviceFaithful, NumbersBelow
<1>6. Answered(d, session'[d], pending'[d], cursor'[d], forgotten'[d])
  BY <1>2, IdleAnswered
<1>7. QED
  BY <1>2, <1>3, <1>4, <1>5, <1>6, <1>h, ClientFaithful

LEMMA FinishPullFaithful ==
  ASSUME Inductive, Faithful, NEW d \in Device, FinishPull(d)
  PROVE  Faithful'
<1> DEFINE s == session[d]
           top == Max({s.top, s.sequence})
<1>h. /\ s.phase = "pullEmpty"
      /\ cursor' = [cursor EXCEPT ![d] = top]
      /\ Continue(d, top)
      /\ UNCHANGED <<log, rows, lastSeq, minAvailable, history, local, pending, late, edits,
                     failures, forgotten>>
  BY DEF FinishPull, server
<1>t. TypeOK /\ DeviceFaithful(d)
  BY DEF Inductive, Faithful
<1>1. /\ session \in [Device -> Sessions] /\ s.sequence \in Nat /\ s.top \in Nat
      /\ cursor \in [Device -> Nat] /\ lastSeq \in Nat
  BY <1>t DEF TypeOK, Sessions
<1>m. top \in Nat /\ top \in {s.top, s.sequence}
  BY <1>1, HighestOfTwo
<1> HIDE DEF top
<1>2. /\ \A e \in Device \ {d} : session'[e] = session[e]
      /\ session'[d].batch = {} /\ session'[d].sequence = 0
      /\ session'[d].top = 0 \/ session'[d].top = top
      /\ session'[d].phase \in {"off", "pullSent"}
  BY <1>1, <1>m, <1>h, ContinueCarries
<1>3. cursor'[d] = top /\ \A e \in Device \ {d} : cursor'[e] = cursor[e]
  BY <1>1, <1>h
<1>4. Vouched(d, top, local[d], forgotten[d])
  BY <1>t, <1>m, <1>h DEF DeviceFaithful, Answered, Vouched
<1>5. ShowsOwn(d, local'[d]) /\ Told(pending'[d], local'[d])
  BY <1>t, <1>h DEF DeviceFaithful
<1>6. NumbersBelow(d, session'[d], cursor'[d])
  BY <1>t, <1>1, <1>m, <1>2, <1>3, <1>h DEF DeviceFaithful, NumbersBelow
<1>7. Answered(d, session'[d], pending'[d], cursor'[d], forgotten'[d])
  BY <1>2, IdleAnswered
<1>8. QED
  BY <1>2, <1>3, <1>4, <1>5, <1>6, <1>7, <1>h, ClientFaithful
-----------------------------------------------------------------------------
(* The server's steps *)

(* A push that arrives, whether its device still waits for it or not.       *)
LEMMA PushFaithful ==
  ASSUME Inductive, Faithful, NEW batch \in SUBSET QueueRow, IsFiniteSet(batch),
         Spaced(batch), \A p \in batch : Issued(p.op), Accept(batch),
         UNCHANGED <<local, pending, cursor, edits, forgotten>>,
         \A e \in Device : session'[e].batch = session[e].batch,
         \A x \in late' : x \in late,
         \A d \in Device : session'[d] = session[d] \/
           /\ session'[d].phase \notin {"snapshotAnswered", "pullEmpty", "pullAnswered", "applying"}
           /\ session'[d].top = session[d].top
           /\ session'[d].sequence \in Nat /\ session'[d].sequence <= lastSeq'
  PROVE  Faithful'
<1>1. /\ RowsFollow' /\ LogComplete'
      /\ \A r \in history' : r \in history \/ r.seq > lastSeq
      /\ \A r \in history' : r.seq \in Nat
      /\ lastSeq' \in Nat /\ lastSeq <= lastSeq'
  BY AcceptFaithful
<1>2. /\ history \subseteq history'
      /\ \A r \in history' : r \in history \/ \E p \in batch : r.op = p.op
  BY AcceptSound
<1>3. ASSUME NEW op \in Operation, Issued(op)' PROVE Issued(op)
  <2>1. CASE \E r \in history' : r.op = op
    BY <1>2, <2>1 DEF Issued
  <2>2. CASE \E e \in Device : \E p \in pending'[e] \cup session'[e].batch : p.op = op
    BY <2>2 DEF Issued
  <2>3. CASE \E x \in late' : \E p \in x : p.op = op
    BY <2>3 DEF Issued
  <2>4. QED
    BY <1>3, <2>1, <2>2, <2>3 DEF Issued
<1>4. StampsName' /\ IssuedOps' \subseteq IssuedOps
  BY <1>3, StampsKept DEF Faithful
<1>5. BatchesSpaced'
  BY DEF Faithful, BatchesSpaced, Spaced
<1>6. ASSUME NEW d \in Device, session'[d] # session[d] PROVE DeviceFaithful(d)'
  <2>1. DeviceFaithful(d)
    BY DEF Faithful
  <2>2. /\ lastSeq \in Nat /\ cursor[d] \in Nat /\ session[d].top \in Nat
        /\ NumbersBelow(d, session[d], cursor[d])
    BY <2>1 DEF Inductive, TypeOK, Sessions, DeviceFaithful
  <2>3. \A r \in history' : r.seq <= cursor[d] => r \in history
    BY <1>1, <2>2 DEF NumbersBelow
  <2>4. ShowsOwn(d, local[d])'
    BY <1>4, <2>1 DEF DeviceFaithful, ShowsOwn, TakenIn
  <2>5. Told(pending[d], local[d])'
    <3>1. \A op : Committed(op) => \E r \in history' : r.op = op
      BY <1>2 DEF Committed
    <3>2. QED
      BY <2>1, <3>1 DEF DeviceFaithful, Told, Says, Committed
  <2>6. Vouched(d, cursor[d], local[d], forgotten[d])'
    BY <2>1, <2>3 DEF DeviceFaithful, Vouched, TakenIn
  <2>7. NumbersBelow(d, session[d], cursor[d])'
    BY <1>1, <1>6, <2>2 DEF NumbersBelow
  <2>8. Answered(d, session[d], pending[d], cursor[d], forgotten[d])'
    BY <1>6 DEF Answered
  <2>9. QED
    BY <2>4, <2>5, <2>6, <2>7, <2>8 DEF DeviceFaithful
<1>7. QED
  BY <1>1, <1>2, <1>4, <1>5, <1>6, StepFaithful

LEMMA NextLatestBelow ==
  ASSUME Inductive'
  PROVE  LatestSeq' \in Nat /\ LatestSeq' <= lastSeq'
<1>1. /\ log' \in SUBSET LogRow /\ history' \in SUBSET LogRow /\ lastSeq' \in Nat
      /\ log' \subseteq history' /\ \A r \in history' : r.seq <= lastSeq'
  BY DEF Inductive, TypeOK, LogBelowCounter
<1>2. \A e \in Memo : rows'[e] # NoRow => \E r \in history' : r.seq = rows'[e].seq
  BY DEF Inductive, RowsCommitted, Entity
<1>3. LatestSeq' = NewestOf(log', rows')
  BY DEF LatestSeq, NewestOf
<1>4. LatestSeq' \in Nat /\ (LatestSeq' = 0 \/ \E r \in history' : r.seq = LatestSeq')
  BY <1>1, <1>2, <1>3, NewestTyped
<1>5. QED
  BY <1>1, <1>4

LEMMA HandlePushFaithful ==
  ASSUME Inductive, Faithful, NEW d \in Device, HandlePush(d)
  PROVE  Faithful'
<1> DEFINE s == session[d]
<1>t. /\ session \in [Device -> Sessions] /\ s \in Sessions /\ DeviceSound(d)
  BY DEF Inductive, TypeOK
<1>b. /\ s.batch \in SUBSET QueueRow /\ IsFiniteSet(s.batch) /\ Spaced(s.batch)
      /\ \A p \in s.batch : Issued(p.op)
  BY <1>t DEF Sessions, DeviceSound, SessionSound, Faithful, BatchesSpaced, Issued
<1>h. /\ Accept(s.batch)
      /\ session' = [session EXCEPT ![d] = [@ EXCEPT !.phase = "pushAnswered",
                       !.sequence = LatestSeq']]
      /\ UNCHANGED <<local, pending, cursor, late, edits, failures, forgotten>>
  BY DEF HandlePush
<1>1. LatestSeq' \in Nat /\ LatestSeq' <= lastSeq'
  BY HandlePushStep, NextLatestBelow
<1>2. /\ session'[d] = [s EXCEPT !.phase = "pushAnswered", !.sequence = LatestSeq']
      /\ \A e \in Device \ {d} : session'[e] = session[e]
  BY <1>t, <1>h
<1>3. /\ session'[d].batch = s.batch /\ session'[d].top = s.top
      /\ session'[d].sequence = LatestSeq' /\ session'[d].phase = "pushAnswered"
  BY <1>2, <1>t DEF Sessions
<1>4. QED
  BY <1>b, <1>h, <1>1, <1>2, <1>3, PushFaithful

LEMMA HandleLateFaithful ==
  ASSUME Inductive, Faithful, NEW batch \in late, HandleLate(batch)
  PROVE  Faithful'
<1>h. /\ Accept(batch) /\ late' = late \ {batch}
      /\ UNCHANGED <<local, pending, cursor, session, edits, failures, forgotten>>
  BY DEF HandleLate
<1>b. /\ batch \in SUBSET QueueRow /\ IsFiniteSet(batch) /\ Spaced(batch)
      /\ \A p \in batch : Issued(p.op)
  BY DEF Inductive, TypeOK, Faithful, BatchesSpaced, Issued
<1>1. QED
  BY <1>b, <1>h, PushFaithful

LEMMA LoseLateFaithful ==
  ASSUME Inductive, Faithful, NEW batch \in late, LoseLate(batch)
  PROVE  Faithful'
<1>h. /\ late' = late \ {batch}
      /\ UNCHANGED <<log, rows, lastSeq, minAvailable, history, local, pending, cursor, session,
                     edits, forgotten>>
  BY DEF LoseLate, server
<1>1. \A op \in Operation : Issued(op)' => Issued(op)
  BY <1>h DEF Issued
<1>2. StampsName' /\ IssuedOps' \subseteq IssuedOps
  BY <1>1, StampsKept DEF Faithful
<1>3. RowsFollow' /\ LogComplete' /\ BatchesSpaced'
  BY <1>h DEF Faithful, RowsFollow, LogComplete, BatchesSpaced, Spaced
<1>4. /\ \A r \in history' : r.seq \in Nat
      /\ lastSeq' \in Nat /\ lastSeq <= lastSeq'
  BY <1>h DEF Inductive, TypeOK, LogRow
<1>5. QED
  BY <1>2, <1>3, <1>4, <1>h, StepFaithful

(* Compaction takes only what lies behind the new horizon.                  *)
LEMMA CompactFaithful ==
  ASSUME Inductive, Faithful, Compact
  PROVE  Faithful'
<1>h. /\ minAvailable' = LatestSeq - Retain /\ LatestSeq - Retain > minAvailable
      /\ log' = log \ {r \in log : r.seq <= LatestSeq - Retain}
      /\ UNCHANGED <<rows, lastSeq, history, local, pending, cursor, session, late, edits,
                     failures, forgotten>>
  BY DEF Compact
<1>1. \A op \in Operation : Issued(op)' => Issued(op)
  BY <1>h DEF Issued
<1>2. StampsName' /\ IssuedOps' \subseteq IssuedOps
  BY <1>1, StampsKept DEF Faithful
<1>3. RowsFollow' /\ BatchesSpaced'
  BY <1>h DEF Faithful, RowsFollow, BatchesSpaced, Spaced
<1>4. /\ \A r \in history' : r.seq \in Nat
      /\ lastSeq' \in Nat /\ lastSeq <= lastSeq'
  BY <1>h DEF Inductive, TypeOK, LogRow
<1>5. LogComplete'
  <2>1. IsFiniteSet(log')
    BY <1>h, FS_Subset DEF Faithful, LogComplete
  <2>2. LatestSeq \in Nat /\ Retain \in Nat /\ minAvailable \in Nat
    BY LatestBelow, CompactionAssumption DEF Inductive, TypeOK
  <2>3. ASSUME NEW r \in history', r.seq > minAvailable' PROVE r \in log'
    <3>1. r \in history /\ r.seq > LatestSeq - Retain /\ r.seq \in Nat
      BY <1>h, <1>4, <2>3
    <3>2. r.seq > minAvailable /\ ~(r.seq <= LatestSeq - Retain)
      BY <1>h, <2>2, <3>1
    <3>3. r \in log
      BY <3>1, <3>2 DEF Faithful, LogComplete
    <3>4. QED
      BY <1>h, <3>2, <3>3
  <2>4. QED
    BY <1>h, <2>1, <2>3 DEF Faithful, LogComplete
<1>6. QED
  BY <1>2, <1>3, <1>4, <1>5, <1>h, StepFaithful
-----------------------------------------------------------------------------
(* Edits *)

(* An edit is queued behind what waits, or in the place of what it replaces.*)
LEMMA QueuedSpaced ==
  ASSUME NEW q \in SUBSET QueueRow, Spaced(q), NEW n \in Nat, \A p \in q : p.at <= n,
         NEW row \in QueueRow, row.at = n + 1
  PROVE  Spaced(Queued(q, row)) /\ \A p \in Queued(q, row) : p.at <= n + 1
<1>0. \A p \in q : p.at \in Nat /\ p.at <= n + 1 /\ p.at # row.at
  BY DEF QueueRow
<1>1. CASE ~\E p \in q : p.op.entity = row.op.entity
  <2>1. Queued(q, row) = q \cup {row}
    BY <1>1 DEF Queued
  <2>2. QED
    BY <1>0, <1>1, <2>1 DEF Spaced
<1>2. CASE \E p \in q : p.op.entity = row.op.entity
  <2> DEFINE New(p) == IF p.op.entity = row.op.entity THEN [p EXCEPT !.op = row.op] ELSE p
             T == {New(p) : p \in q}
  <2>1. Queued(q, row) = T
    BY <1>2 DEF Queued
  <2>2. \A p \in q : New(p).op.entity = p.op.entity /\ New(p).at = p.at
    BY DEF QueueRow
  <2>3. \A p \in T : \E a \in q : p = New(a)
    OBVIOUS
  <2> HIDE DEF New, T
  <2>4. ASSUME NEW p \in T, NEW r \in T, p.at = r.at \/ p.op.entity = r.op.entity
        PROVE  p = r
    <3>1. PICK a \in q, b \in q : p = New(a) /\ r = New(b)
      BY <2>3
    <3>2. a = b
      BY <2>2, <2>4, <3>1 DEF Spaced
    <3>3. QED
      BY <3>1, <3>2
  <2>5. \A p \in T : p.at <= n + 1
    BY <1>0, <2>2, <2>3
  <2>6. QED
    BY <2>1, <2>4, <2>5 DEF Spaced
<1>3. QED
  BY <1>1, <1>2

(* No row a device shows is stamped later than what it has seen.            *)
LEMMA SeenBounds ==
  ASSUME Inductive, Faithful, NEW d \in Device
  PROVE  /\ SeenWall(d) \in Nat
         /\ \A m \in Memo : local[d][m] # NoRow =>
              local[d][m].version \in Stamp /\ local[d][m].version.wall <= SeenWall(d)
<1> DEFINE shown == {x \in Memo : local[d][x] # NoRow}
           S == {0} \cup {local[d][m].version.wall : m \in shown}
<1>1. ASSUME NEW m \in shown
      PROVE  /\ local[d][m].version \in Stamp /\ local[d][m].version.wall \in Nat
             /\ local[d][m].version.wall <= MaxWall
  <2>1. PICK op \in Operation :
          /\ op.stamp = local[d][m].version
          /\ Committed(op) \/ \E p \in pending[d] : p.op = op
    BY DEF Faithful, DeviceFaithful, Told
  <2>2. op \in IssuedOps
    BY <2>1 DEF IssuedOps, Issued, Committed
  <2>3. op.stamp.wall <= MaxWall /\ op.stamp \in Stamp
    BY <2>2, IssuedTyped DEF Faithful, StampsName
  <2>4. QED
    BY <2>1, <2>3, StampParts
<1>2. S \in SUBSET Nat /\ S # {} /\ MaxWall \in Nat /\ \A x \in S : x <= MaxWall
  BY <1>1, SkewAssumption
<1>3. Max(S) \in S /\ \A x \in S : x <= Max(S)
  BY <1>2, MaxOfBounded
<1>4. \A m \in shown : local[d][m].version.wall \in S
  OBVIOUS
<1>5. SeenWall(d) = Max(S)
  BY DEF SeenWall
<1> HIDE DEF S
<1>6. QED
  BY <1>1, <1>2, <1>3, <1>4, <1>5

LEMMA EditFaithful ==
  ASSUME MaxSkew = 0, Inductive, Faithful, NEW d \in Device, NEW m \in Memo,
         NEW wall \in Readings(d), NEW kind, Edit(d, kind, m, wall),
         kind # "save" => local[d][m] # NoRow
  PROVE  Faithful'
<1>h. /\ session[d].phase # "applying" /\ edits' = edits + 1
      /\ UNCHANGED <<log, rows, lastSeq, minAvailable, history, cursor, session, late, forgotten>>
  BY DEF Edit, server
<1>o. PICK op \in Operation, row \in LocalRow : Makes(d, m, wall, op, row)
  BY EditParts
<1>p. /\ op.entity = m /\ op.id = edits + 1 /\ op.stamp = row.version
      /\ op.stamp.device = d /\ op.stamp.wall = wall
      /\ op.kind # "patch" /\ (op.kind = "upsert" => op.deleted = "no")
      /\ Says(op, row)
      /\ pending' = [pending EXCEPT ![d] = Queued(pending[d], [at |-> edits + 1, op |-> op])]
      /\ local' = [local EXCEPT ![d] = [local[d] EXCEPT ![m] = row]]
  BY <1>o DEF Makes
<1> DEFINE queued == [at |-> edits + 1, op |-> op]
           queue == Queued(pending[d], queued)
           table == [local[d] EXCEPT ![m] = row]
<1>t. /\ DeviceSound(d) /\ DeviceFaithful(d) /\ StampsName /\ BatchesSpaced
  BY DEF Inductive, Faithful
<1>1. /\ edits \in Nat /\ edits + 1 \in Nat /\ op.stamp \in Stamp
      /\ local \in [Device -> LocalTable] /\ local[d] \in LocalTable
      /\ pending \in [Device -> SUBSET QueueRow] /\ pending[d] \in SUBSET QueueRow
      /\ QueueSound(pending[d]) /\ row # NoRow
  BY <1>t, OperationParts, NoLocalRowAssumption DEF Inductive, TypeOK, LocalTable, DeviceSound
<1>2. queued \in QueueRow /\ queued.op = op /\ queued.at = edits + 1
  BY <1>1 DEF QueueRow
<1>3. /\ \E p \in queue : p.op = op
      /\ \A p \in queue : p.op = op \/ p \in pending[d]
      /\ \A p \in pending[d] : p.op.entity = m \/ p \in queue
  <2> HIDE DEF queued
  <2>1. queued.op = op /\ op.entity = m /\ queued \in QueueRow
    BY <1>2, <1>p
  <2>2. QED
    BY <1>1, <2>1, QueuedSound
<1>4. Spaced(queue) /\ \A p \in queue : p.at <= edits + 1
  <2>1. Spaced(pending[d]) /\ \A p \in pending[d] : p.at <= edits
    BY <1>t DEF BatchesSpaced
  <2>2. QED
    BY <1>1, <1>2, <2>1, QueuedSpaced
<1>5. table[m] = row /\ \A x \in Memo : x # m => table[x] = local[d][x]
  BY <1>1 DEF LocalTable
<1> HIDE DEF queue, table
<1>6. /\ pending'[d] = queue /\ local'[d] = table
      /\ \A e \in Device \ {d} : pending'[e] = pending[e] /\ local'[e] = local[e]
  BY <1>1, <1>p DEF queue, table
<1>7. /\ SeenWall(d) \in Nat /\ wall \in Nat /\ wall > SeenWall(d) /\ wall <= MaxWall
      /\ \A x \in Memo : local[d][x] # NoRow =>
           local[d][x].version \in Stamp /\ local[d][x].version.wall <= SeenWall(d)
  <2>1. wall \in 1..MaxWall /\ MaxWall \in Nat /\ wall + MaxSkew > SeenWall(d)
    BY SkewAssumption DEF Readings
  <2>2. QED
    BY <2>1, SeenBounds
<1>8. ASSUME local[d][m] # NoRow PROVE Wins(op.stamp, local[d][m].version)
  BY <1>7, <1>8, <1>p, <1>1, StampParts DEF Wins, HlcLess
<1>9. Advances(local[d], table) /\ Stamped(local[d]) /\ Stamped(table)
  <2>1. Stamped(local[d])
    BY <1>7 DEF Stamped
  <2>2. Stamped(table)
    BY <1>1, <1>5, <1>p, <2>1 DEF Stamped
  <2>3. Advances(local[d], table)
    BY <1>1, <1>5, <1>8, <1>p DEF Advances
  <2>4. QED
    BY <2>1, <2>2, <2>3
<1>10. ASSUME NEW a \in IssuedOps' PROVE a = op \/ a \in IssuedOps
  <2>1. a \in Operation /\ Issued(a)'
    BY DEF IssuedOps
  <2>2. CASE \E r \in history' : r.op = a
    BY <1>h, <2>1, <2>2 DEF IssuedOps, Issued
  <2>3. CASE \E e \in Device : \E p \in pending'[e] \cup session'[e].batch : p.op = a
    <3>1. PICK e \in Device : \E p \in pending'[e] \cup session[e].batch : p.op = a
      BY <1>h, <2>3
    <3>2. PICK p \in pending'[e] \cup session[e].batch : p.op = a
      BY <3>1
    <3>3. a = op \/ p \in pending[e] \cup session[e].batch
      BY <1>3, <1>6, <3>2
    <3>4. QED
      BY <2>1, <3>2, <3>3 DEF IssuedOps, Issued
  <2>4. CASE \E batch \in late' : \E p \in batch : p.op = a
    BY <1>h, <2>1, <2>4 DEF IssuedOps, Issued
  <2>5. QED
    BY <2>1, <2>2, <2>3, <2>4 DEF Issued
<1>11. ASSUME NEW a \in IssuedOps, a.entity = m, a.stamp = op.stamp PROVE FALSE
  BY <1>t, <1>8, <1>11, <1>p DEF DeviceFaithful, ShowsOwn, TakenIn
<1>12. StampsName'
  <2>1. \A a \in IssuedOps' : /\ a.kind # "patch" /\ (a.kind = "upsert" => a.deleted = "no")
                              /\ a.stamp.wall <= MaxWall
    BY <1>t, <1>7, <1>10, <1>p DEF StampsName
  <2>2. ASSUME NEW a \in IssuedOps', NEW b \in IssuedOps', a.entity = b.entity, a.stamp = b.stamp
        PROVE  a = b
    BY <1>t, <1>10, <1>11, <1>p, <2>2 DEF StampsName
  <2>3. QED
    BY <2>1, <2>2 DEF StampsName
<1>13. RowsFollow' /\ LogComplete'
  BY <1>h DEF Faithful, RowsFollow, LogComplete
<1>14. BatchesSpaced'
  <2>1. ASSUME NEW e \in Device
        PROVE  Spaced(pending'[e]) /\ Spaced(session'[e].batch) /\ \A p \in pending'[e] : p.at <= edits'
    <3>1. CASE e = d
      BY <1>t, <1>4, <1>6, <1>h, <3>1 DEF BatchesSpaced
    <3>2. CASE e # d
      <4>1. /\ Spaced(pending[e]) /\ Spaced(session[e].batch)
            /\ \A p \in pending[e] : p.at <= edits /\ p.at \in Nat
        BY <1>t, <1>1 DEF BatchesSpaced, QueueRow
      <4>2. QED
        BY <1>1, <1>6, <1>h, <3>2, <4>1
    <3>3. QED
      BY <3>1, <3>2
  <2>2. QED
    BY <1>t, <1>h, <2>1 DEF BatchesSpaced, Spaced
<1>15. ShowsOwn(d, table) /\ TakenIn(table, op)
  <2>1. TakenIn(table, op)
    BY <1>1, <1>5, <1>p, WinsIsStrictTotalOrder DEF TakenIn
  <2>2. ShowsOwn(d, table)
    BY <1>t, <1>9, IssuedTyped, TakenStays DEF DeviceFaithful, ShowsOwn
  <2>3. QED
    BY <2>1, <2>2
<1>16. Told(queue, table)
  <2>1. ASSUME NEW x \in Memo, table[x] # NoRow
        PROVE  \E o \in Operation :
                 /\ o.entity = x /\ o.stamp = table[x].version /\ Says(o, table[x])
                 /\ Committed(o) \/ \E p \in queue : p.op = o
    <3>1. CASE x = m
      BY <1>3, <1>5, <1>p, <3>1
    <3>2. CASE x # m
      <4>1. PICK o \in Operation :
              /\ o.entity = x /\ o.stamp = table[x].version /\ Says(o, table[x])
              /\ Committed(o) \/ \E p \in pending[d] : p.op = o
        BY <1>t, <1>5, <2>1, <3>2 DEF DeviceFaithful, Told
      <4>2. Committed(o) \/ \E p \in queue : p.op = o
        BY <1>3, <3>2, <4>1
      <4>3. QED
        BY <4>1, <4>2
    <3>3. QED
      BY <3>1, <3>2
  <2>2. QED
    BY <2>1 DEF Told
<1>17. Vouched(d, cursor[d], table, forgotten[d])
  BY <1>t, <1>9, IssuedTyped, TakenStays DEF DeviceFaithful, Vouched
<1>18. Answered(d, session[d], queue, cursor[d], forgotten[d])
  BY <1>t, <1>h DEF DeviceFaithful, Answered
<1>19. DeviceFaithful(d)'
  <2>1. ShowsOwn(d, local[d])'
    BY <1>6, <1>10, <1>15 DEF ShowsOwn, TakenIn
  <2>2. Told(pending[d], local[d])'
    BY <1>6, <1>16, <1>h DEF Told, Says, Committed
  <2>3. Vouched(d, cursor[d], local[d], forgotten[d])'
    BY <1>6, <1>17, <1>h DEF Vouched, TakenIn
  <2>4. NumbersBelow(d, session[d], cursor[d])'
    BY <1>t, <1>h DEF DeviceFaithful, NumbersBelow
  <2>5. Answered(d, session[d], pending[d], cursor[d], forgotten[d])'
    BY <1>18, <1>h DEF Answered
  <2>6. QED
    BY <2>1, <2>2, <2>3, <2>4, <2>5 DEF DeviceFaithful
<1>20. /\ \A r \in history' : r.seq \in Nat
       /\ lastSeq' \in Nat /\ lastSeq <= lastSeq'
  BY <1>h DEF Inductive, TypeOK, LogRow
<1>21. ASSUME NEW e \in Device
       PROVE  \/ /\ local'[e] = local[e] /\ pending'[e] = pending[e] /\ session'[e] = session[e]
                 /\ cursor'[e] = cursor[e] /\ forgotten'[e] = forgotten[e]
                 /\ \A a \in IssuedOps' : a \in IssuedOps \/ a.stamp.device # e
              \/ DeviceFaithful(e)'
  BY <1>6, <1>10, <1>19, <1>h, <1>p
<1>22. QED
  BY <1>12, <1>13, <1>14, <1>20, <1>21, <1>h, StepFaithful
-----------------------------------------------------------------------------
LEMMA InitFaithful == Init => Faithful
<1> SUFFICES ASSUME Init PROVE Faithful
  OBVIOUS
<1>1. IssuedOps = {}
  BY NoSessionTyped DEF Init, IssuedOps, Issued
<1>2. StampsName /\ RowsFollow /\ LogComplete
  BY <1>1, FS_EmptySet DEF Init, StampsName, RowsFollow, LogComplete
<1>3. BatchesSpaced
  BY NoSessionTyped DEF Init, BatchesSpaced, Spaced
<1>4. ASSUME NEW d \in Device PROVE DeviceFaithful(d)
  <2>1. /\ pending[d] = {} /\ session[d] = NoSession /\ cursor[d] = 0 /\ lastSeq = 0
        /\ history = {} /\ \A m \in Memo : local[d][m] = NoRow
    BY DEF Init
  <2>2. NoSession.top = 0 /\ NoSession.sequence = 0
    BY DEF NoSession
  <2>3. Answered(d, NoSession, {}, 0, forgotten[d])
    BY NoSessionTyped, IdleAnswered
  <2>4. QED
    BY <1>1, <2>1, <2>2, <2>3 DEF DeviceFaithful, ShowsOwn, Told, Vouched, NumbersBelow
<1>5. QED
  BY <1>2, <1>3, <1>4 DEF Faithful

LEMMA NextFaithful ==
  ASSUME MaxSkew = 0
  PROVE  Inductive /\ Faithful /\ Next => Faithful'
<1> SUFFICES ASSUME Inductive, Faithful, Next PROVE Faithful'
  OBVIOUS
<1>1. CASE Compact
  BY <1>1, CompactFaithful
<1>2. ASSUME NEW batch \in late, HandleLate(batch) \/ LoseLate(batch) PROVE Faithful'
  BY <1>2, HandleLateFaithful, LoseLateFaithful
<1>3. ASSUME NEW d \in Device, SaveMemo(d) PROVE Faithful'
  <2>1. PICK m \in Memo, wall \in Readings(d) : Edit(d, "save", m, wall)
    BY <1>3 DEF SaveMemo
  <2>2. QED
    BY <2>1, EditFaithful
<1>4. ASSUME NEW d \in Device, DeleteMemo(d) PROVE Faithful'
  <2>1. PICK m \in Memo, wall \in Readings(d) :
          local[d][m] # NoRow /\ Edit(d, "delete", m, wall)
    BY <1>4 DEF DeleteMemo
  <2>2. QED
    BY <2>1, EditFaithful
<1>5. ASSUME NEW d \in Device, Sync(d) \/ GiveUp(d) PROVE Faithful'
  BY <1>5, BeginSyncFaithful, HandlePushFaithful, FinishPushFaithful, HandleSnapshotFaithful,
     ApplySnapshotFaithful, HandlePullFaithful, ApplyNextFaithful, CommitApplyFaithful,
     FinishPullFaithful, GiveUpFaithful DEF Sync
<1>6. QED
  BY <1>1, <1>2, <1>3, <1>4, <1>5 DEF Next, User

LEMMA StutterFaithful == Inductive /\ Faithful /\ UNCHANGED vars => Faithful'
<1> SUFFICES ASSUME Inductive, Faithful, UNCHANGED vars PROVE Faithful'
  OBVIOUS
<1> USE DEF vars
<1>1. \A op \in Operation : Issued(op)' => Issued(op)
  BY DEF Issued
<1>2. StampsName' /\ IssuedOps' \subseteq IssuedOps
  BY <1>1, StampsKept DEF Faithful
<1>3. RowsFollow' /\ LogComplete' /\ BatchesSpaced'
  BY DEF Faithful, RowsFollow, LogComplete, BatchesSpaced, Spaced
<1>4. /\ \A r \in history' : r.seq \in Nat
      /\ lastSeq' \in Nat /\ lastSeq <= lastSeq'
  BY DEF Inductive, TypeOK, LogRow
<1>5. QED
  BY <1>2, <1>3, <1>4, StepFaithful

(* The second inductive invariant, when no clock lags behind what its device*)
(* has seen.                                                                *)
THEOREM FaithfulInvariant ==
  ASSUME MaxSkew = 0
  PROVE  Spec => [](Inductive /\ Faithful)
<1>1. Inductive /\ Faithful /\ [Next]_vars => (Inductive /\ Faithful)'
  BY NextInductive, StutterInductive, NextFaithful, StutterFaithful
<1>2. Init => Inductive /\ Faithful
  BY InitInductive, InitFaithful
<1>3. QED
  BY <1>1, <1>2, PTL DEF Spec

(* A cursor vouches for everything before it: whatever page, snapshot, edit,*)
(* late push or compaction came between, a device has every operation of    *)
(* the others up to its cursor, or something newer of the memo, save the    *)
(* tombstones that found no row.                                            *)
THEOREM CursorsAreHonest ==
  ASSUME MaxSkew = 0
  PROVE  Spec => []CursorIsHonest
<1>1. Faithful => CursorIsHonest
  BY DEF Faithful, DeviceFaithful, Vouched, TakenIn, CursorIsHonest, Taken
<1>2. QED
  BY <1>1, FaithfulInvariant, PTL

(* What a device that has caught up shows of a memo is what the server shows*)
LEMMA CaughtUpShows ==
  ASSUME Inductive, Faithful, NEW d \in Device, CaughtUp(d), NEW m \in Memo \ forgotten[d]
  PROVE  Agrees(d, m)
<1>t. /\ rows \in [Entity -> StateRow \cup {NoRow}] /\ m \in Entity
      /\ local[d][m] \in LocalRow \cup {NoRow} /\ cursor[d] \in Nat
      /\ DeviceFaithful(d) /\ RowsFollow /\ StampsName
  BY DEF Inductive, TypeOK, LocalTable, Entity, Faithful
<1>1. ASSUME local[d][m] # NoRow
      PROVE  \E op \in Operation :
               /\ op.entity = m /\ op.stamp = local[d][m].version /\ Says(op, local[d][m])
               /\ Committed(op)
  BY <1>1, <1>t DEF DeviceFaithful, Told, CaughtUp
<1>2. ASSUME rows[m] # NoRow
      PROVE  \E r \in history : /\ r.op.entity = m /\ r.op.stamp = rows[m].stamp
                                /\ Says(r.op, rows[m]) /\ TakenIn(local[d], r.op)
  <2>1. PICK r \in history : /\ r.op.entity = m /\ r.op.stamp = rows[m].stamp
                             /\ r.seq = rows[m].seq /\ Says(r.op, rows[m])
    BY <1>2, <1>t DEF RowsFollow
  <2>2. r.op \in IssuedOps /\ r.seq \in Nat
    BY IssuedTyped
  <2>3. CASE r.op.stamp.device = d
    BY <1>t, <2>1, <2>2, <2>3 DEF DeviceFaithful, ShowsOwn
  <2>4. CASE r.op.stamp.device # d
    <3>1. r.seq <= LatestSeq
      BY <1>2, <2>1, LatestCovers
    <3>2. r.seq <= cursor[d]
      BY <2>2, <3>1, <1>t, LatestBelow DEF CaughtUp
    <3>3. QED
      BY <1>t, <2>1, <2>4, <3>2 DEF DeviceFaithful, Vouched
  <2>5. QED
    BY <2>1, <2>3, <2>4
<1>3. ASSUME local[d][m] # NoRow
      PROVE  \E op \in Operation :
               /\ op.stamp = local[d][m].version /\ op.stamp = rows[m].stamp
               /\ Says(op, local[d][m]) /\ rows[m] # NoRow /\ Says(op, rows[m])
  <2>1. PICK op \in Operation :
          /\ op.entity = m /\ op.stamp = local[d][m].version /\ Says(op, local[d][m])
          /\ Committed(op)
    BY <1>1, <1>3
  <2>2. rows[m] # NoRow /\ ~Wins(op.stamp, rows[m].stamp) /\ op \in IssuedOps /\ op.stamp \in Stamp
    BY <1>t, <2>1, IssuedTyped DEF Committed, RowsFollow
  <2>3. PICK r \in history : /\ r.op.entity = m /\ r.op.stamp = rows[m].stamp
                             /\ Says(r.op, rows[m]) /\ TakenIn(local[d], r.op)
    BY <1>2, <2>2
  <2>4. ~Wins(r.op.stamp, op.stamp) /\ r.op \in IssuedOps /\ r.op.stamp \in Stamp
    BY <2>1, <2>3, IssuedTyped DEF TakenIn
  <2>5. op.stamp = r.op.stamp
    BY <2>2, <2>3, <2>4, WinsIsStrictTotalOrder
  <2>6. op = r.op
    BY <1>t, <2>1, <2>2, <2>3, <2>4, <2>5 DEF StampsName
  <2>7. QED
    BY <2>1, <2>2, <2>3, <2>6
<1>4. CASE rows[m] # NoRow /\ rows[m].deleted = "no"
  <2>1. local[d][m] # NoRow
    BY <1>2, <1>4 DEF TakenIn
  <2>2. PICK op \in Operation :
          /\ op.stamp = local[d][m].version /\ op.stamp = rows[m].stamp
          /\ Says(op, local[d][m]) /\ Says(op, rows[m])
    BY <1>3, <2>1
  <2>3. /\ local[d][m].content = rows[m].content /\ local[d][m].deleted = "no"
        /\ local[d][m].version = rows[m].stamp
    BY <1>4, <2>2 DEF Says
  <2>4. local[d][m] \in LocalRow
    BY <1>t, <2>1
  <2>5. local[d][m] = [content |-> rows[m].content, deleted |-> "no", version |-> rows[m].stamp]
    BY <2>3, <2>4 DEF LocalRow
  <2>6. QED
    BY <1>4, <2>5 DEF Agrees
<1>5. CASE ~(rows[m] # NoRow /\ rows[m].deleted = "no")
  <2>1. ASSUME local[d][m] # NoRow PROVE local[d][m].deleted = "yes"
    <3>1. PICK op \in Operation :
            Says(op, local[d][m]) /\ rows[m] # NoRow /\ Says(op, rows[m])
      BY <1>3, <2>1
    <3>2. QED
      BY <1>5, <3>1 DEF Says
  <2>2. QED
    BY <1>5, <2>1 DEF Agrees
<1>6. QED
  BY <1>4, <1>5

(* Convergence, as safety: a device that has pushed and pulled everything   *)
(* shows what the server shows, so any two of them show the same, but for   *)
(* memos whose tombstone it was not sent or had no row to mark by.          *)
THEOREM CaughtUpDevicesAgree ==
  ASSUME MaxSkew = 0
  PROVE  Spec => []CaughtUpAgrees
<1>1. Inductive /\ Faithful => CaughtUpAgrees
  BY CaughtUpShows DEF CaughtUpAgrees
<1>2. QED
  BY <1>1, FaithfulInvariant, PTL
=============================================================================
