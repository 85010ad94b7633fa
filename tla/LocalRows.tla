----------------------------- MODULE LocalRows -----------------------------
(***************************************************************************)
(* What an edit, a pulled operation or a snapshot item does to the row of  *)
(* its entity in the desktop's tables (store.rs).  A row remembers the     *)
(* version of the last synchronised write it took; a row that was never    *)
(* queued or pulled (a seed, a memo of a local repository) has none.       *)
(***************************************************************************)
EXTENDS Projection

CONSTANT NoVersion

ASSUME NoVersionAssumption == NoVersion \notin Stamp

LocalRow == [content: Content, deleted: Flag, version: Stamp \cup {NoVersion}]

ASSUME NoLocalRowAssumption == NoRow \notin LocalRow

(* operation_wins_tx: a row that is missing or has no version loses.       *)
LocalWinsAlways(row, stamp) == TRUE
LocalWins(row, stamp) ==
  row = NoRow \/ row.version = NoVersion \/ Wins(stamp, row.version)

(* save_memo and delete_memo, once append_local_operation has set the      *)
(* version: the edit is taken whatever the row's version was.              *)
Saved(content, stamp) == [content |-> content, deleted |-> "no", version |-> stamp]
Removed(row, stamp) == [row EXCEPT !.deleted = "yes", !.version = stamp]

(* apply_remote_operation_tx: a tombstone or a patch of an entity without a*)
(* row updates nothing, so its version is not remembered either.           *)
ApplyRemote(row, op) ==
  IF ~LocalWins(row, op.stamp) THEN row
  ELSE CASE op.kind = "upsert" ->
              [content |-> op.content, deleted |-> op.deleted, version |-> op.stamp]
         [] op.kind = "delete" -> IF row = NoRow THEN row ELSE Removed(row, op.stamp)
         [] op.kind = "patch" ->
              IF row = NoRow THEN row
              ELSE [content |-> Patched(row.content, op.content),
                    deleted |-> IF op.deleted = "unset" THEN row.deleted ELSE op.deleted,
                    version |-> op.stamp]

(* apply_snapshot, for one item: the server's row, which is not deleted.   *)
ApplyItemAlways(row, item) == Saved(item.content, item.stamp)
ApplyItem(row, item) ==
  IF LocalWins(row, item.stamp) THEN Saved(item.content, item.stamp) ELSE row
=============================================================================
