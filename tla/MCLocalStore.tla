---------------------------- MODULE MCLocalStore ----------------------------
(* Values for the constants of LocalStore.                                 *)
EXTENDS LocalStore, TLC

CONSTANTS inbox, scratch, theirs,   \* two seeded repositories and another's
          welcome, m2, a1,          \* the seeded memo, another's, an attachment
          t1, t2                    \* two commands at a time

TaskSymmetry == Permutations(Task)

StoreFields == {"repo", "memo", "text"}
StoreValues == Entity \cup {Shared, Private, None} \cup 0..9

FromTwo(id, e, content, wall) ==
  [id |-> id, kind |-> "upsert", entity |-> e, content |-> content, deleted |-> "no",
   stamp |-> [wall |-> wall, counter |-> 0, device |-> 2]]

(* Device 2 makes a repository and a memo in it, and edits the memo.       *)
Nobody == <<>>
TheirMemo == <<FromTwo(8, theirs, RepositoryContent(Shared), 1),
               FromTwo(9, m2, MemoContent(theirs, 9), 2)>>
TheirMemoTwice == Append(TheirMemo, FromTwo(7, m2, MemoContent(theirs, 7), 3))

AllEdits == {"saveMemo", "deleteMemo", "saveAttachment", "deleteAttachment",
             "createRepository", "updateRepository"}
AttachmentEdits == {"saveMemo", "saveAttachment", "deleteAttachment"}
MemoSaves == {"saveMemo"}
=============================================================================
