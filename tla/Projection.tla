----------------------------- MODULE Projection -----------------------------
(***************************************************************************)
(* Sync operations and what one of them does to the row of its entity in   *)
(* the server's state tables (projection.rs).  Repositories, memos and     *)
(* attachments have a table each; the three tables follow the same rule.   *)
(***************************************************************************)
EXTENDS Versions

CONSTANTS
  OpId,                           \* op_id, unique in operation_log
  Repository, Memo, Attachment,   \* entity ids, by table
  Field, Value,                   \* a payload is a value per field
  NoRow,                          \* the entity has no row
  NoContent                       \* the '{}' payload of a bare tombstone

ASSUME EntityAssumption ==
  /\ Repository \cap Memo = {}
  /\ Repository \cap Attachment = {}
  /\ Memo \cap Attachment = {}

Entity == Repository \cup Memo \cup Attachment

Content == [Field -> Value]
Patch   == UNION {[F -> Value] : F \in SUBSET Field}

Flag == {"yes", "no"}

(* SyncOperation.  Only memos are patched; repositories have no deleted    *)
(* flag; a patch may leave the flag unset, as it may any field.            *)
Operation ==
       [id: OpId, kind: {"upsert"}, entity: Repository, content: Content,
        deleted: {"no"}, stamp: Stamp]
  \cup [id: OpId, kind: {"upsert"}, entity: Memo \cup Attachment, content: Content,
        deleted: Flag, stamp: Stamp]
  \cup [id: OpId, kind: {"patch"}, entity: Memo, content: Patch,
        deleted: Flag \cup {"unset"}, stamp: Stamp]
  \cup [id: OpId, kind: {"delete"}, entity: Memo \cup Attachment,
        content: {NoContent}, deleted: {"yes"}, stamp: Stamp]

StateRow == [content: Content \cup {NoContent}, deleted: Flag,
             stamp: Stamp, seq: Nat]

ASSUME NoRowAssumption == NoRow \notin StateRow
ASSUME NoContentAssumption == NoContent \notin Content

(* Memo::apply_patch: the fields the patch names replace the memo's.       *)
PatchedOnly(content, patch) == patch
Patched(content, patch) ==
  [f \in Field |-> IF f \in DOMAIN patch THEN patch[f] ELSE content[f]]

(* state_operation_wins: an entity without a row loses to anything.        *)
StateWinsAlways(row, op) == TRUE
StateWins(row, op) == row = NoRow \/ Wins(op.stamp, row.stamp)

StateRowOf(content, deleted, op, seq) ==
  [content |-> content, deleted |-> deleted, stamp |-> op.stamp, seq |-> seq]

(* apply_state_operation: the row of op.entity after op, logged as seq.    *)
(* A delete of an unknown entity leaves a bare tombstone; a patch needs a  *)
(* payload to work on.                                                     *)
ApplyState(row, op, seq) ==
  IF ~StateWins(row, op) THEN row
  ELSE CASE op.kind = "upsert" -> StateRowOf(op.content, op.deleted, op, seq)
         [] op.kind = "delete" ->
              StateRowOf(IF row = NoRow THEN NoContent ELSE row.content, "yes", op, seq)
         [] op.kind = "patch" ->
              IF row = NoRow \/ row.content = NoContent THEN row
              ELSE StateRowOf(Patched(row.content, op.content),
                              IF op.deleted = "unset" THEN row.deleted ELSE op.deleted,
                              op, seq)
=============================================================================
