----------------------------- MODULE LocalStore -----------------------------
(***************************************************************************)
(* One desktop's store at the grain of its transactions (store.rs).  Its   *)
(* commands and its sync session run side by side over one SQLite file:    *)
(* an edit is written in one statement and queued, with its version, in a  *)
(* later transaction; foreign keys tie memos to repositories and           *)
(* attachments to both; attachment bytes live in a table of their own that *)
(* is swept.  The process may stop between any two statements.  The server *)
(* is its log and, per entity, the winning operation in it, which is what  *)
(* SyncServer shows its projection to be.                                  *)
(***************************************************************************)
EXTENDS LocalRows, Integers, Sequences, SequencesExt, FiniteSetsExt

CONSTANTS
  Self,          \* this device
  Temporary,     \* the repositories of kind temporary
  Inbox, Scratch, Welcome,   \* what ensure_defaults seeds
  Shared, Private,           \* sync_enabled of a repository
  None,          \* a column an entity does not have
  Task,          \* commands of the user interface that may run at one time
  Kinds,         \* the commands users give
  Others,        \* what other devices will push, in order
  MaxWall,       \* bound on the clock
  MaxEdits,      \* bound on commands
  MaxFailures    \* bound on failed statements, lost answers and restarts

ASSUME SeedAssumption ==
  Inbox \in Repository \ Temporary /\ Scratch \in Temporary /\ Welcome \in Memo
ASSUME TemporaryAssumption == Temporary \subseteq Repository
ASSUME SelfAssumption == Self \in Device
ASSUME StoreBoundAssumption == MaxWall \in Nat /\ MaxEdits \in Nat /\ MaxFailures \in Nat

(* What a command writes is a payload; the n-th one names its edit n.      *)
ASSUME PayloadAssumption ==
  /\ Field = {"repo", "memo", "text"}
  /\ Entity \cup {Shared, Private, None} \cup 0..MaxEdits \subseteq Value
  /\ Shared # Private /\ None \notin Entity

(* A memo of another device's is in a repository; nobody else has heard of *)
(* one that stays on this device, and random ids do not meet.              *)
InRepository(op) ==
  op.entity \in Memo \cup Attachment /\ op.kind # "delete" /\ "repo" \in DOMAIN op.content
    => op.content.repo \in Repository
ASSUME OthersAssumption ==
  /\ Others \in Seq(Operation) /\ 1..MaxEdits \subseteq OpId
  /\ \A i \in DOMAIN Others :
       /\ Others[i].stamp.device # Self /\ Others[i].id \notin 1..MaxEdits
       /\ Others[i].entity \notin Temporary /\ InRepository(Others[i])

VARIABLES
  table,     \* repositories, memos and attachments
  blobs,     \* attachment_blobs, by content hash
  pending,   \* local_operations, in created_at order
  cursor,    \* meta.last_server_sequence
  seeded,    \* meta.defaults_seeded_version is set
  open,      \* the store is open
  command,   \* what each task does next, with its locals
  session,   \* the run of sync_now, if any
  log,       \* the server's operation_log; a sequence number is an index
  edits,     \* how many commands were given
  failures   \* how many failures there were

vars == <<table, blobs, pending, cursor, seeded, open, command, session, log, edits, failures>>

(* A repository's only column of interest is sync_enabled; an attachment   *)
(* keeps the repository its memo was in when it was saved.                 *)
RepositoryContent(sync) == [repo |-> None, memo |-> None, text |-> sync]
MemoContent(repo, text) == [repo |-> repo, memo |-> None, text |-> text]
AttachmentContent(repo, memo, hash) == [repo |-> repo, memo |-> memo, text |-> hash]

Row(content, version) == [content |-> content, deleted |-> "no", version |-> version]

NoOp == [id |-> 0]
NoCommand == [at |-> "idle", n |-> 0, kind |-> "upsert", entity |-> None, content |-> NoContent,
              home |-> None, op |-> NoOp, keep |-> {}]
NoSession == [at |-> "off", batch |-> <<>>, items |-> {}, page |-> <<>>, sequence |-> 0,
              top |-> 0, keep |-> {}, next |-> "off"]

(* ensure_defaults *)
Seeds ==
  [e \in Entity |->
     CASE e = Inbox   -> Row(RepositoryContent(Shared), NoVersion)
       [] e = Scratch -> Row(RepositoryContent(Private), NoVersion)
       [] e = Welcome -> Row(MemoContent(Inbox, 0), NoVersion)
       [] OTHER       -> NoRow]

Init ==
  /\ table = Seeds /\ seeded = TRUE /\ open = TRUE
  /\ blobs = {} /\ pending = <<>> /\ cursor = 0
  /\ command = [t \in Task |-> NoCommand]
  /\ session = NoSession
  /\ log = <<>> /\ edits = 0 /\ failures = 0

Present(tab, S) == {e \in S : tab[e] # NoRow}

(* The foreign keys of a row, checked by the statement that writes it.     *)
Fits(tab, e, content) ==
  /\ e \in Memo => tab[content.repo] # NoRow
  /\ e \in Attachment => tab[content.repo] # NoRow /\ tab[content.memo] # NoRow

-----------------------------------------------------------------------------
(* Commands *)

Upsert(at, n, e, content, home) ==
  [NoCommand EXCEPT !.at = at, !.n = n, !.entity = e, !.content = content, !.home = home]
Delete(n, e, home) ==
  [NoCommand EXCEPT !.at = "written", !.n = n, !.kind = "delete", !.entity = e, !.home = home]

(* A command can be given once the store is open and the last is done.     *)
Ready(t) == open /\ command[t].at = "idle" /\ edits < MaxEdits

Give(t, kind, c) ==
  /\ kind \in Kinds
  /\ edits' = edits + 1
  /\ command' = [command EXCEPT ![t] = c]
  /\ UNCHANGED <<pending, cursor, seeded, open, session, log, failures>>

(* upsert_memo and its like leave a row's version as it was.               *)
Written(row, content) ==
  Row(content, IF row = NoRow THEN NoVersion ELSE row.version)

(* Ids are random: nobody else's is made up here.                          *)
Ours(S) == {e \in S : table[e] # NoRow \/ \A i \in DOMAIN Others : Others[i].entity # e}

(* save_memo: the row first, in a statement of its own.                    *)
SaveMemo(t) ==
  Ready(t) /\ \E m \in Ours(Memo), r \in Present(table, Repository) :
    LET content == MemoContent(r, edits + 1)
    IN /\ Give(t, "saveMemo", Upsert("written", edits + 1, m, content, r))
       /\ table' = [table EXCEPT ![m] = Written(@, content)]
       /\ UNCHANGED blobs

MarkDeleted(e) == table' = [table EXCEPT ![e] = [@ EXCEPT !.deleted = "yes"]]

(* delete_memo, delete_attachment: those of a row that is there.           *)
DeleteMemo(t) ==
  Ready(t) /\ \E m \in Present(table, Memo) :
    /\ Give(t, "deleteMemo", Delete(edits + 1, m, table[m].content.repo))
    /\ MarkDeleted(m)
    /\ UNCHANGED blobs

DeleteAttachment(t) ==
  Ready(t) /\ \E a \in Present(table, Attachment) :
    /\ Give(t, "deleteAttachment", Delete(edits + 1, a, table[a].content.repo))
    /\ MarkDeleted(a)
    /\ UNCHANGED blobs

(* save_attachment stores the bytes, then the row.  Its id is new.         *)
SaveAttachment(t) ==
  Ready(t) /\
  \E m \in Present(table, Memo), a \in Ours(Attachment) \ Present(table, Attachment) :
    LET r == table[m].content.repo
        content == AttachmentContent(r, m, edits + 1)
    IN /\ Give(t, "saveAttachment", Upsert("stored", edits + 1, a, content, r))
       /\ blobs' = blobs \cup {content.text}
       /\ UNCHANGED table

InsertAttachment(t) ==
  LET c == command[t]
  IN /\ c.at = "stored"
     /\ IF Fits(table, c.entity, c.content)
          THEN /\ table' = [table EXCEPT ![c.entity] = Written(@, c.content)]
               /\ command' = [command EXCEPT ![t] = [c EXCEPT !.at = "written"]]
          ELSE /\ command' = [command EXCEPT ![t] = NoCommand]
               /\ UNCHANGED table
     /\ UNCHANGED <<blobs, pending, cursor, seeded, open, session, log, edits, failures>>

(* create_repository, update_repository: only a persistent repository can  *)
(* be shared.                                                              *)
ShareAny(r, sync) == sync
Share(r, sync) == IF r \in Temporary THEN Private ELSE sync

SaveRepository(t) ==
  Ready(t) /\ \E r \in Ours(Repository), sync \in {Shared, Private} :
    LET content == RepositoryContent(Share(r, sync))
    IN /\ Give(t, IF table[r] = NoRow THEN "createRepository" ELSE "updateRepository",
               Upsert("written", edits + 1, r, content, r))
       /\ table[r] = NoRow => sync = Shared
       /\ table' = [table EXCEPT ![r] = Written(@, content)]
       /\ UNCHANGED blobs

(* repository_sync_enabled decides whether the edit is queued; its stamp   *)
(* is the wall clock, which is past every stamp the store has seen so far. *)
SyncEnabled(c) ==
  IF c.entity \in Repository THEN c.content.text = Shared
  ELSE table[c.home] # NoRow /\ table[c.home].content.text = Shared

SeenWall ==
  Max({0} \cup {table[e].version.wall :
                   e \in {x \in Present(table, Entity) : table[x].version # NoVersion}}
          \cup {command[t].op.stamp.wall : t \in {x \in Task : command[x].at = "stamped"}}
          \cup {pending[i].stamp.wall : i \in DOMAIN pending})

AfterEdit(c) == IF c.kind = "delete" /\ c.entity \in Attachment THEN "sweepRead" ELSE "idle"

Become(t, c, at) ==
  command' = [command EXCEPT ![t] = IF at = "idle" THEN NoCommand ELSE [c EXCEPT !.at = at]]

StampEdit(t) ==
  LET c == command[t]
  IN /\ c.at = "written"
     /\ \/ /\ ~SyncEnabled(c)
           /\ Become(t, c, AfterEdit(c))
        \/ /\ SyncEnabled(c)
           /\ \E w \in 1..MaxWall :
                w > SeenWall /\ Become(t, [c EXCEPT !.op =
                  [id |-> c.n, kind |-> c.kind, entity |-> c.entity, content |-> c.content,
                   deleted |-> IF c.kind = "delete" THEN "yes" ELSE "no",
                   stamp |-> [wall |-> w, counter |-> 0, device |-> Self]]], "stamped")
     /\ UNCHANGED <<table, blobs, pending, cursor, seeded, open, session, log, edits, failures>>

(* append_local_operation: the operation and the version, in one           *)
(* transaction.  A pending operation of the entity gives way in its place. *)
Queued(q, op) ==
  IF \E i \in DOMAIN q : q[i].entity = op.entity
    THEN [i \in DOMAIN q |-> IF q[i].entity = op.entity THEN op ELSE q[i]]
    ELSE Append(q, op)

Versioned(tab, op) ==
  IF tab[op.entity] = NoRow THEN tab
  ELSE [tab EXCEPT ![op.entity] = [@ EXCEPT !.version = op.stamp]]

AppendOperation(t) ==
  LET c == command[t]
  IN /\ c.at = "stamped"
     /\ pending' = Queued(pending, c.op)
     /\ table' = Versioned(table, c.op)
     /\ Become(t, c, AfterEdit(c))
     /\ UNCHANGED <<blobs, cursor, seeded, open, session, log, edits, failures>>

(* cleanup_attachment_blobs: the hashes that pending operations name are   *)
(* read first, then what neither they nor a live attachment needs goes.    *)
PendingHashes == {pending[i].content.text : i \in {j \in DOMAIN pending :
                    pending[j].entity \in Attachment /\ pending[j].kind = "upsert"}}
LiveHashes(tab) == {tab[a].content.text : a \in {x \in Present(tab, Attachment) :
                                                   tab[x].deleted = "no"}}
Swept(keep) == blobs \cap (keep \cup LiveHashes(table))

SweepCommand(t) ==
  LET c == command[t]
  IN /\ \/ /\ c.at = "sweepRead"
           /\ Become(t, [c EXCEPT !.keep = PendingHashes], "sweep")
           /\ UNCHANGED blobs
        \/ /\ c.at = "sweep"
           /\ blobs' = Swept(c.keep)
           /\ Become(t, c, "idle")
     /\ UNCHANGED <<table, pending, cursor, seeded, open, session, log, edits, failures>>

-----------------------------------------------------------------------------
(* sync_now *)

Turn(queue, top) ==
  session' = [NoSession EXCEPT !.top = top, !.batch = queue,
    !.at = IF queue # <<>> THEN "pushSent" ELSE IF cursor = 0 THEN "snapshotSent" ELSE "pullSent"]

BeginSync ==
  /\ open /\ session.at = "off"
  /\ Turn(pending, cursor)
  /\ UNCHANGED <<table, blobs, pending, cursor, seeded, open, command, log, edits, failures>>

(* The members of seq at some of its positions, in their order.            *)
Kept(seq, positions) ==
  LET Place(i) == Cardinality({h \in positions : h <= i})
  IN [p \in 1..Cardinality(positions) |-> seq[CHOOSE i \in positions : Place(i) = p]]

(* The server's side of a request, whole.                                  *)
Logged(op) == \E i \in DOMAIN log : log[i].id = op.id

ServePush ==
  LET new == {i \in DOMAIN session.batch : ~Logged(session.batch[i])}
  IN /\ session.at = "pushSent"
     /\ log' = log \o Kept(session.batch, new)
     /\ session' = [session EXCEPT !.at = "pushAnswered", !.sequence = Len(log')]
     /\ UNCHANGED <<table, blobs, pending, cursor, seeded, open, command, edits, failures>>

Winners ==
  {op \in ToSet(log) : \A o \in ToSet(log) : o.entity = op.entity => ~Wins(o.stamp, op.stamp)}

ServeSnapshot ==
  /\ session.at = "snapshotSent"
  /\ session' = [session EXCEPT !.at = "snapshotAnswered", !.sequence = Len(log),
                                !.items = {op \in Winners : op.kind = "upsert"}]
  /\ UNCHANGED <<table, blobs, pending, cursor, seeded, open, command, log, edits, failures>>

ServePull ==
  LET after == {i \in DOMAIN log : i > cursor /\ log[i].stamp.device # Self}
  IN /\ session.at = "pullSent"
     /\ session' = [session EXCEPT !.at = "pullAnswered", !.page = Kept(log, after),
                                   !.sequence = IF after = {} THEN Len(log) ELSE Max(after)]
     /\ UNCHANGED <<table, blobs, pending, cursor, seeded, open, command, log, edits, failures>>

(* mark_operations_pushed, by op_id, and the next turn of the push loop.   *)
PushedEntity(op) == \E i \in DOMAIN session.batch : session.batch[i].entity = op.entity
Pushed(op) == \E i \in DOMAIN session.batch : session.batch[i].id = op.id

(* server_sequence, the highest that an answer of this session reported.   *)
Acknowledged == Max({session.top, session.sequence})

FinishPush ==
  /\ session.at = "pushAnswered"
  /\ pending' = Kept(pending, {i \in DOMAIN pending : ~Pushed(pending[i])})
  /\ Turn(pending', Acknowledged)
  /\ UNCHANGED <<table, blobs, cursor, seeded, open, command, log, edits, failures>>

(* discard_seed_defaults_if_safe: the first snapshot that brings anything  *)
(* takes the place of seeds, told from other rows by their number.         *)
Discards ==
  /\ session.items # {} /\ seeded /\ cursor = 0 /\ pending = <<>>
  /\ Cardinality(Present(table, Repository)) = 2 /\ Cardinality(Present(table, Memo)) = 1
  /\ Present(table, Attachment) = {}

BeforeSnapshot == IF Discards THEN [e \in Entity |-> NoRow] ELSE table
TakenItems == {op \in session.items : LocalWins(BeforeSnapshot[op.entity], op.stamp)}

AfterSnapshot ==
  [e \in Entity |->
     IF \E op \in TakenItems : op.entity = e
       THEN LET op == CHOOSE op \in TakenItems : op.entity = e IN Row(op.content, op.stamp)
       ELSE BeforeSnapshot[e]]

(* Repositories come before memos, and those before attachments.           *)
SnapshotFits == \A op \in TakenItems : Fits(AfterSnapshot, op.entity, op.content)

(* apply_snapshot: one transaction, or an error that ends the session.     *)
ApplySnapshot ==
  /\ session.at = "snapshotAnswered"
  /\ IF SnapshotFits
       THEN /\ table' = AfterSnapshot
            /\ seeded' = (seeded /\ ~Discards)
            /\ cursor' = session.sequence
            /\ session' = [NoSession EXCEPT !.at = "sweepRead", !.next = "pullSent",
                             !.top = Acknowledged]
       ELSE /\ session' = NoSession
            /\ UNCHANGED <<table, seeded, cursor>>
  /\ UNCHANGED <<blobs, pending, open, command, log, edits, failures>>

(* apply_remote_operations: operation after operation; one whose foreign   *)
(* key fails undoes the page.                                              *)
Applied(so, op) ==
  LET row == ApplyRemote(so.table[op.entity], op)
  IN [table |-> [so.table EXCEPT ![op.entity] = row],
      fits  |-> so.fits /\ (row = so.table[op.entity] \/ Fits(so.table, op.entity, row.content))]

AfterOperations[n \in 0..Len(session.page)] ==
  IF n = 0 THEN [table |-> table, fits |-> TRUE]
  ELSE Applied(AfterOperations[n - 1], session.page[n])
AfterPage == AfterOperations[Len(session.page)]

ApplyPage ==
  /\ session.at = "pullAnswered"
  /\ CASE session.page = <<>> ->
            /\ cursor' = Acknowledged
            /\ session' = [NoSession EXCEPT !.at = "hydrate"]
            /\ UNCHANGED table
       [] session.page # <<>> /\ AfterPage.fits ->
            /\ table' = AfterPage.table
            /\ cursor' = session.sequence
            /\ session' = [NoSession EXCEPT !.at = "sweepRead", !.next = "hydrate"]
       [] OTHER ->
            /\ session' = NoSession
            /\ UNCHANGED <<table, cursor>>
  /\ UNCHANGED <<blobs, pending, seeded, open, command, log, edits, failures>>

SweepSession ==
  /\ \/ /\ session.at = "sweepRead"
        /\ session' = [session EXCEPT !.at = "sweep", !.keep = PendingHashes]
        /\ UNCHANGED blobs
     \/ /\ session.at = "sweep"
        /\ blobs' = Swept(session.keep)
        /\ session' = [NoSession EXCEPT !.at = session.next, !.top = session.top]
  /\ UNCHANGED <<table, pending, cursor, seeded, open, command, log, edits, failures>>

(* hydrate_missing_attachment_blobs: the relay has what a push brought it, *)
(* unless it has expired.  maintain sweeps once more.                      *)
Relayed == {log[i].content.text : i \in {j \in DOMAIN log :
              log[j].entity \in Attachment /\ log[j].kind = "upsert"}}

Hydrate ==
  /\ session.at = "hydrate"
  /\ \E found \in SUBSET ((LiveHashes(table) \ blobs) \cap Relayed) : blobs' = blobs \cup found
  /\ session' = [NoSession EXCEPT !.at = "sweepRead"]
  /\ UNCHANGED <<table, pending, cursor, seeded, open, command, log, edits, failures>>

-----------------------------------------------------------------------------
(* Another device pushes what it has queued.                               *)
OthersPush ==
  LET sent == Cardinality({i \in DOMAIN log : log[i].stamp.device # Self})
  IN /\ sent < Len(Others)
     /\ log' = Append(log, Others[sent + 1])
     /\ UNCHANGED <<table, blobs, pending, cursor, seeded, open, command, session, edits,
                    failures>>

(* A statement of a command fails, as when the database is busy too long.  *)
FailCommand(t) ==
  /\ command[t].at # "idle" /\ failures < MaxFailures
  /\ failures' = failures + 1
  /\ command' = [command EXCEPT ![t] = NoCommand]
  /\ UNCHANGED <<table, blobs, pending, cursor, seeded, open, session, log, edits>>

(* The session fails; a request that got through has had its effect.       *)
FailSession ==
  /\ session.at # "off" /\ failures < MaxFailures
  /\ failures' = failures + 1
  /\ session' = NoSession
  /\ UNCHANGED <<table, blobs, pending, cursor, seeded, open, command, log, edits>>

(* The process stops, at any point, and LocalStore::open runs: the memos of*)
(* temporary repositories are purged in one statement, which fails if an   *)
(* attachment refers to one of them, deleted or not; then the store does   *)
(* not open.                                                               *)
Purged == {m \in Present(table, Memo) : table[m].content.repo \in Temporary}

Restart ==
  /\ open /\ failures < MaxFailures
  /\ failures' = failures + 1
  /\ command' = [t \in Task |-> NoCommand]
  /\ session' = NoSession
  /\ IF \E a \in Present(table, Attachment) : table[a].content.memo \in Purged
       THEN /\ open' = FALSE
            /\ UNCHANGED <<table, seeded>>
       ELSE /\ table' = IF Present(table, Repository) = {} THEN Seeds
                        ELSE [e \in Entity |-> IF e \in Purged THEN NoRow ELSE table[e]]
            /\ seeded' = (seeded \/ Present(table, Repository) = {})
            /\ UNCHANGED open
  /\ UNCHANGED <<blobs, pending, cursor, log, edits>>

Command(t) ==
  \/ SaveMemo(t) \/ DeleteMemo(t) \/ SaveRepository(t)
  \/ SaveAttachment(t) \/ InsertAttachment(t) \/ DeleteAttachment(t)
  \/ StampEdit(t) \/ AppendOperation(t) \/ SweepCommand(t)

Sync ==
  \/ BeginSync \/ ServePush \/ FinishPush \/ ServeSnapshot \/ ApplySnapshot
  \/ ServePull \/ ApplyPage
  \/ SweepSession \/ Hydrate

Next ==
  \/ \E t \in Task : Command(t) \/ FailCommand(t)
  \/ Sync \/ FailSession \/ Restart \/ OthersPush

Spec == Init /\ [][Next]_vars
-----------------------------------------------------------------------------
(* Properties *)

CommandLabels == {"idle", "stored", "written", "stamped", "sweepRead", "sweep"}
SessionLabels == {"off", "pushSent", "pushAnswered", "snapshotSent", "snapshotAnswered",
                  "pullSent", "pullAnswered", "sweepRead", "sweep", "hydrate"}

Commands == [at: CommandLabels, n: Nat, kind: {"upsert", "delete"}, entity: Entity \cup {None},
             content: Content \cup {NoContent}, home: Repository \cup {None},
             op: Operation \cup {NoOp}, keep: SUBSET Value]
Sessions == [at: SessionLabels, batch: Seq(Operation), items: SUBSET Operation,
             page: Seq(Operation), sequence: Nat, top: Nat, keep: SUBSET Value,
             next: {"off", "pullSent", "hydrate"}]

(* Every variable holds a value of its kind, locals of tasks included; the  *)
(* cursor is a sequence number the server has given.                        *)
TypeOK ==
  /\ table \in [Entity -> LocalRow \cup {NoRow}]
  /\ blobs \in SUBSET Value
  /\ pending \in Seq(Operation) /\ log \in Seq(Operation)
  /\ cursor \in 0..Len(log) /\ edits \in Nat /\ failures \in Nat
  /\ seeded \in BOOLEAN /\ open \in BOOLEAN
  /\ command \in [Task -> Commands]
  /\ session \in Sessions

Sent == ToSet(pending) \cup ToSet(log)

(* However commands, sessions and crashes interleave, a version of this     *)
(* device's in a row is that of an operation it has queued or pushed.       *)
ShownEditIsSafe ==
  \A e \in Present(table, Entity) :
    LET v == table[e].version
    IN v # NoVersion /\ v.device = Self => \E op \in Sent : op.entity = e /\ op.stamp = v

(* A row is at least as new as what the device has queued for it.           *)
QueueNotAhead ==
  \A op \in ToSet(pending) :
    table[op.entity] # NoRow /\ table[op.entity].version # NoVersion =>
      ~Wins(op.stamp, table[op.entity].version)

(* No two pending operations are about one entity, whichever commands race. *)
OnePendingPerEntity ==
  \A i, j \in DOMAIN pending : pending[i].entity = pending[j].entity => i = j

(* Nothing of a temporary repository, or in one, is ever queued.            *)
TemporaryStaysLocal ==
  \A op \in Sent : op.stamp.device = Self /\ op.kind = "upsert" =>
    op.entity \notin Temporary /\ op.content.repo \notin Temporary

Quiet(e) == \A t \in Task : command[t].at = "idle" \/ command[t].entity # e

(* Once its commands are through, a memo of a shared repository is what the *)
(* operation says whose version it carries: nobody else gets a different    *)
(* text under that version, and no edit stays at home.                      *)
SaysVersion(op, row) ==
  /\ op.stamp = row.version
  /\ (op.kind = "delete") = (row.deleted = "yes")
  /\ op.kind = "upsert" => op.content = row.content

RowIsItsVersion ==
  \A m \in Present(table, Memo) :
    Quiet(m) /\ table[table[m].content.repo].content.text = Shared =>
      table[m] = Seeds[m] \/ \E op \in Sent : op.entity = m /\ SaysVersion(op, table[m])

(* An answer can be applied: whatever it refers to came with it or before.  *)
AnswerFits ==
  /\ session.at = "snapshotAnswered" => SnapshotFits
  /\ session.at = "pullAnswered" => AfterPage.fits

(* The store gives up its defaults only if nobody has touched them.         *)
TouchedSeedsKept == [][seeded /\ ~seeded' => table = Seeds]_vars

(* An attachment saved on this device has its bytes as long as it is live.  *)
LiveAttachmentHasBytes ==
  \A a \in Present(table, Attachment) :
    Quiet(a) /\ table[a].deleted = "no" /\ (\A i \in DOMAIN Others : Others[i].entity # a)
      => table[a].content.text \in blobs

(* The store opens whenever the process starts.                             *)
StoreOpens == open
=============================================================================
