---------------------------- MODULE MCSyncServer ----------------------------
(* Values for the constants of SyncServer.                                 *)
EXTENDS SyncDocument, TLC

CONSTANTS title, body,   \* fields of a memo
          r1, m1, m2,    \* a repository and two memos
          h1, h2         \* two handlers

At(wall, device) == [wall |-> wall, counter |-> 0, device |-> device]
Full(v) == [f \in Field |-> v]

Upsert(id, e, v, stamp) ==
  [id |-> id, kind |-> "upsert", entity |-> e, content |-> Full(v), deleted |-> "no",
   stamp |-> stamp]
Delete(id, e, stamp) ==
  [id |-> id, kind |-> "delete", entity |-> e, content |-> NoContent, deleted |-> "yes",
   stamp |-> stamp]
PatchOf(id, e, patch, stamp) ==
  [id |-> id, kind |-> "patch", entity |-> e, content |-> patch, deleted |-> "unset",
   stamp |-> stamp]

(* Device 1 creates a memo in a new repository; device 2 edits it; device 1*)
(* deletes it at the same time of the clock as that edit.                  *)
MCCreate == <<Upsert(1, r1, 1, At(1, 1)), Upsert(2, m1, 1, At(1, 1))>>
MCEdit   == <<Upsert(3, m1, 2, At(2, 2))>>
MCDelete == <<Delete(4, m1, At(2, 1))>>
MCDeleteWithRepository == <<Upsert(1, r1, 1, At(2, 1)), Delete(4, m1, At(2, 1))>>
MCLate   == <<PatchOf(5, m1, (title :> 2), At(3, 2))>>

Symmetric == Permutations(Handler)

BatchesConcurrent == {MCEdit, MCDeleteWithRepository, MCLate}
BatchesOne        == {MCEdit, MCDelete}
BatchesSerial     == {MCCreate, MCEdit, MCDelete, MCLate}
=============================================================================
