---------------------------- MODULE SyncDocument ----------------------------
(***************************************************************************)
(* SyncDocument of memo-core: the merge rule as the library states it, on  *)
(* maps in memory.  The server's projection follows a rule of its own; the *)
(* two are compared here over what the server has accepted.                *)
(***************************************************************************)
EXTENDS SyncServer

(* What the maps hold for an entity: Versioned<T>, or NoRow.                *)
Versioned == [content: Content, deleted: Flag, stamp: Stamp]
ASSUME NotVersionedAssumption == NoRow \notin Versioned

Version(content, deleted, op) ==
  [content |-> content, deleted |-> deleted, stamp |-> op.stamp]

Existing(entry, op) == entry # NoRow /\ Wins(op.stamp, entry.stamp)

(* merge_versioned                                                         *)
MergedAlways(entry, op) == Version(op.content, op.deleted, op)
Merged(entry, op) ==
  IF entry # NoRow /\ ~Wins(op.stamp, entry.stamp) THEN entry
  ELSE Version(op.content, op.deleted, op)

(* SyncDocument::apply, for the entity of op: a patch or a delete of an     *)
(* entity that the document does not hold is ignored.                      *)
Applied(entry, op) ==
  CASE op.kind = "upsert" -> Merged(entry, op)
    [] op.kind = "patch" /\ Existing(entry, op) ->
         Version(Patched(entry.content, op.content),
                 IF op.deleted = "unset" THEN entry.deleted ELSE op.deleted, op)
    [] op.kind = "delete" /\ Existing(entry, op) -> Version(entry.content, "yes", op)
    [] OTHER -> entry

(* The entry for e after the operation of H with number i, if that is on e; *)
(* and after all those numbered up to n, one after another.                *)
Taken(H, e, i, entry) ==
  LET here == {r \in H : r.seq = i /\ r.op.entity = e}
  IN IF here = {} THEN entry ELSE Applied(entry, (CHOOSE r \in here : TRUE).op)

Document(H, e, n) ==
  LET Upto[i \in 0..n] == IF i = 0 THEN NoRow ELSE Taken(H, e, i, Upto[i - 1])
  IN Upto[n]

(* A document that applies what the server accepted, in that order, shows   *)
(* what the projection shows, although the projection has seen retries,     *)
(* restarts and compactions.  They part over an entity whose delete came    *)
(* first: the projection keeps a bare tombstone, the document nothing.      *)
DeletedFirst(H, e) ==
  \E r \in H :
    /\ r.op.entity = e /\ r.op.kind = "delete"
    /\ \A q \in H : q.op.entity = e /\ q.seq < r.seq => q.op.kind = "patch"

Shown(row) ==
  IF row = NoRow THEN NoRow
  ELSE [content |-> row.content, deleted |-> row.deleted, stamp |-> row.stamp]

DocumentAgrees ==
  \A e \in Entity :
    ~DeletedFirst(history, e) => Document(history, e, lastSeq) = Shown(rows[e])
=============================================================================
