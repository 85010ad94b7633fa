------------------------------ MODULE Autosave ------------------------------
(***************************************************************************)
(* The user interface's copy of the memos and how it is saved (App.tsx):   *)
(* typing changes the list on the screen and the one pending save, which a *)
(* timer or another command flushes; other commands save what they were    *)
(* shown when they began; answers and reloads replace what is on the       *)
(* screen.  Each await lets other events in.  A memo's content (text,      *)
(* title, tags, pin, archive) is the set of edits it shows; commands run   *)
(* in the background (lib.rs, store.rs) in any order.                      *)
(***************************************************************************)
EXTENDS Integers, Sequences, SequencesExt, FiniteSets

CONSTANTS
  Memo,
  Call,          \* chains of awaited commands that can be running at a time
  MaxEdits,      \* bound on edits and deletions
  MaxIncidents,  \* bound on failed commands and reloads together
  None

Edit == 1..MaxEdits

ASSUME MemoAssumption == None \notin Memo \cup [memo: Memo, content: SUBSET Edit]
ASSUME AutosaveBounds == MaxEdits \in Nat /\ MaxIncidents \in Nat

VARIABLES
  stored,    \* the memos table
  shown,     \* memos, the list on the screen: deleted says that it is not in it
  active,    \* activeMemoId
  pending,   \* pendingSaveRef
  timer,     \* saveTimerRef is armed
  calls,     \* what each chain has still to do, and where its first command is
  edits, faults, reloads,   \* how many there were, edits with deletions
  wanted,    \* history: what the user saw of a memo with the last edit made in it
  raced,     \* history: memos whose commands collided, in the ways named below
  late       \* history: memos that a reload brought up as they had been before a save

screen == <<shown, active>>
queue  == <<pending, timer>>
counts == <<edits, faults, reloads>>
history == <<wanted, raced, late>>
vars == <<stored, screen, queue, calls, counts, history>>

Row == [content: SUBSET Edit, deleted: BOOLEAN]
Empty == [content |-> {}, deleted |-> FALSE]
Free == [at |-> "sent", todo |-> <<>>, page |-> <<>>]

Init ==
  /\ stored = [m \in Memo |-> Empty] /\ shown = stored /\ wanted = stored
  /\ active = None /\ pending = None /\ timer = FALSE
  /\ calls = [c \in Call |-> Free]
  /\ edits = 0 /\ faults = 0 /\ reloads = 0 /\ raced = {} /\ late = {}

-----------------------------------------------------------------------------
(* Requests, and the chain of awaits that makes them *)

Request(kind, m, content) == [kind |-> kind, memo |-> m, content |-> content]
Save(m, content) == Request("save", m, content)

MemosOf(todo) == {todo[i].memo : i \in DOMAIN todo} \cap Memo
Busy(m) == \E c \in Call : m \in MemosOf(calls[c].todo)

(* Two chains that save or delete one memo: nothing orders their commands.  *)
Overlapping(todo) == {m \in MemosOf(todo) : Busy(m)}

Start(c, todo) ==
  /\ calls[c] = Free
  /\ calls' = [calls EXCEPT ![c].todo = todo]

(* The start of flushPendingSave, up to its await.                         *)
Flushed == IF pending = None THEN <<>> ELSE <<Request("flush", pending.memo, pending.content)>>
Cleared == pending' = None /\ timer' = FALSE

-----------------------------------------------------------------------------
(* The user *)

(* Without an active memo the first of the list is edited: any of them.     *)
Present == {m \in Memo : ~shown[m].deleted}
Opened == IF active \in Present THEN {active} ELSE Present

(* The content of m with a new edit, made on what the screen shows.         *)
Edited(m) == shown[m].content \cup {edits + 1}
Wants(m, row) ==
  /\ edits < MaxEdits /\ edits' = edits + 1
  /\ wanted' = [wanted EXCEPT ![m] = row]
  /\ UNCHANGED <<faults, reloads>>
Makes(m) == Wants(m, [content |-> Edited(m), deleted |-> FALSE])
Drops(m) == Wants(m, [content |-> {}, deleted |-> TRUE])

(* queueSave: there is one pending save, for whichever memo came last.      *)
Queued(m, armed) ==
  /\ m \in Opened /\ Makes(m)
  /\ shown' = [shown EXCEPT ![m].content = Edited(m)]
  /\ active' = m
  /\ pending' = [memo |-> m, content |-> Edited(m)] /\ timer' = armed
  /\ raced' = IF pending # None /\ pending.memo # m THEN raced \cup {pending.memo} ELSE raced
  /\ UNCHANGED <<stored, calls, late>>
QueueUntimed(m) == Queued(m, FALSE)
QueueSave(m) == Queued(m, TRUE)

(* The timer, or the key that saves at once.                               *)
FlushPendingSave(c) ==
  /\ pending # None
  /\ Start(c, Flushed) /\ Cleared
  /\ raced' = raced \cup Overlapping(Flushed)
  /\ UNCHANGED <<stored, screen, counts, wanted, late>>

TimerFires(c) == timer /\ FlushPendingSave(c)

(* The list of memos flushes when another is chosen; keys and the command   *)
(* palette do not.                                                         *)
SelectMemo(m, c) ==
  /\ m \in Present /\ m # active /\ active' = m
  /\ Start(c, Flushed) /\ Cleared
  /\ raced' = raced \cup Overlapping(Flushed)
  /\ UNCHANGED <<stored, shown, counts, wanted, late>>

JumpTo(m) ==
  /\ m \in Present /\ m # active /\ active' = m
  /\ UNCHANGED <<stored, shown, queue, calls, counts, history>>

(* handleSave and handleMoveMemo: flush, then save what was shown before.   *)
SaveChange(m, c) ==
  /\ m \in Opened /\ Makes(m)
  /\ LET todo == Append(Flushed, Save(m, Edited(m)))
     IN Start(c, todo) /\ raced' = raced \cup Overlapping(todo)
  /\ Cleared
  /\ UNCHANGED <<stored, screen, late>>

(* handleArchiveToggle saves without a flush.                              *)
ArchiveToggle(m, c) ==
  /\ m \in Opened /\ Makes(m)
  /\ LET todo == <<Save(m, Edited(m))>>
         waits == IF pending # None THEN {pending.memo} ELSE {}
     IN Start(c, todo) /\ raced' = raced \cup Overlapping(todo) \cup (waits \cap {m})
  /\ UNCHANGED <<stored, screen, queue, late>>

Delete(m, c) ==
  /\ m \in Opened /\ Drops(m)
  /\ LET todo == Append(Flushed, Request("delete", m, {}))
     IN Start(c, todo) /\ raced' = raced \cup Overlapping(todo)
  /\ Cleared
  /\ UNCHANGED <<stored, screen, late>>

(* memos-changed, after a sync pulled something: bootstrap is read again.   *)
Reload(c) ==
  /\ faults + reloads < MaxIncidents /\ reloads' = reloads + 1
  /\ Start(c, <<Request("reload", None, {})>>)
  /\ UNCHANGED <<stored, screen, queue, edits, faults, history>>

-----------------------------------------------------------------------------
(* The commands *)

First(c) == Head(calls[c].todo)
Sent(c) == calls[c].todo # <<>> /\ calls[c].at = "sent"

(* save_memo writes all that it is given, and brings a deleted memo back.   *)
Effect(r) ==
  CASE r.kind \in {"flush", "save"} ->
         [stored EXCEPT ![r.memo] = [content |-> r.content, deleted |-> FALSE]]
    [] r.kind = "delete" -> [stored EXCEPT ![r.memo].deleted = TRUE]
    [] r.kind = "reload" -> stored

Run(c) ==
  /\ Sent(c)
  /\ stored' = Effect(First(c))
  /\ calls' = [calls EXCEPT ![c].at = "answered",
                            ![c].page = IF First(c).kind = "reload" THEN stored ELSE <<>>]
  /\ UNCHANGED <<screen, queue, counts, history>>

(* A command can fail before or after it has written the row.              *)
Fail(c) ==
  /\ Sent(c) /\ faults + reloads < MaxIncidents /\ faults' = faults + 1
  /\ stored' \in {stored, Effect(First(c))}
  /\ calls' = [calls EXCEPT ![c].at = "failed"]
  /\ UNCHANGED <<screen, queue, edits, reloads, history>>

-----------------------------------------------------------------------------
(* Their answers *)

Continues(c) ==
  calls' = [calls EXCEPT ![c] = [Free EXCEPT !.todo = Tail(calls[c].todo)]]

(* replaceMemo *)
ReplacedNothing(m, content) == UNCHANGED screen
Replaced(m, content) ==
  /\ shown' = [shown EXCEPT ![m] = [content |-> content, deleted |-> FALSE]]
  /\ active' = m

SavedClearing(c) ==
  /\ calls[c].at = "answered" /\ First(c).kind \in {"flush", "save"}
  /\ Replaced(First(c).memo, First(c).content)
  /\ Cleared
  /\ Continues(c)
  /\ UNCHANGED <<stored, counts, history>>
Saved(c) ==
  /\ calls[c].at = "answered" /\ First(c).kind \in {"flush", "save"}
  /\ Replaced(First(c).memo, First(c).content)
  /\ Continues(c)
  /\ UNCHANGED <<stored, queue, counts, history>>

Deleted(c) ==
  /\ calls[c].at = "answered" /\ First(c).kind = "delete"
  /\ shown' = [shown EXCEPT ![First(c).memo].deleted = TRUE] /\ active' = None
  /\ Continues(c)
  /\ UNCHANGED <<stored, queue, counts, history>>

(* applyBootstrap: the list becomes what the store held when it was read.   *)
Late(page) == {m \in Memo : page[m] # stored[m]}
ApplyBootstrap(c) ==
  /\ calls[c].at = "answered" /\ First(c).kind = "reload"
  /\ shown' = calls[c].page
  /\ late' = late \cup Late(calls[c].page)
  /\ Continues(c)
  /\ UNCHANGED <<stored, active, queue, counts, wanted, raced>>

(* A flush that failed is pending again, in the place of what is pending    *)
(* now, and its chain goes on; any other failure ends its chain.            *)
FlushFails(c) ==
  /\ calls[c].at = "failed" /\ First(c).kind = "flush"
  /\ pending' = [memo |-> First(c).memo, content |-> First(c).content]
  /\ LET displaced == IF pending = None THEN {} ELSE {pending.memo}
     IN raced' = raced \cup displaced \cup MemosOf(Tail(calls[c].todo))
  /\ Continues(c)
  /\ UNCHANGED <<stored, screen, timer, counts, wanted, late>>

ChainFails(c) ==
  /\ calls[c].at = "failed" /\ First(c).kind # "flush"
  /\ calls' = [calls EXCEPT ![c] = Free]
  /\ raced' = raced \cup MemosOf(calls[c].todo)
  /\ UNCHANGED <<stored, screen, queue, counts, wanted, late>>

-----------------------------------------------------------------------------
Answer(c) ==
  /\ calls[c].todo # <<>>
  /\ Saved(c) \/ Deleted(c) \/ ApplyBootstrap(c) \/ FlushFails(c) \/ ChainFails(c)

Next ==
  \/ \E m \in Memo : QueueSave(m) \/ JumpTo(m)
  \/ \E m \in Memo, c \in Call :
       SelectMemo(m, c) \/ SaveChange(m, c) \/ ArchiveToggle(m, c) \/ Delete(m, c)
  \/ \E c \in Call : FlushPendingSave(c) \/ Reload(c) \/ Run(c) \/ Fail(c) \/ Answer(c)

Spec == Init /\ [][Next]_vars

(* Commands end, their answers are handled, and an armed timer fires.       *)
FairSpec ==
  /\ Spec
  /\ WF_vars(\E c \in Call : TimerFires(c))
  /\ \A c \in Call : WF_vars(Run(c)) /\ WF_vars(Answer(c))
-----------------------------------------------------------------------------
(* Properties *)

Requests == [kind: {"flush", "save", "delete", "reload"}, memo: Memo \cup {None},
             content: SUBSET Edit]

(* Every variable holds a value of its kind, and an armed timer has a save. *)
TypeOK ==
  /\ stored \in [Memo -> Row] /\ shown \in [Memo -> Row] /\ wanted \in [Memo -> Row]
  /\ active \in Memo \cup {None}
  /\ pending = None \/ pending \in [memo: Memo, content: SUBSET Edit]
  /\ timer \in BOOLEAN /\ (timer => pending # None)
  /\ \A c \in Call : /\ calls[c].at \in {"sent", "answered", "failed"}
                     /\ calls[c].todo \in Seq(Requests)
                     /\ calls[c].page = <<>> \/ calls[c].page \in [Memo -> Row]
  /\ edits \in 0..MaxEdits /\ faults \in Nat /\ reloads \in Nat
  /\ faults + reloads <= MaxIncidents
  /\ raced \subseteq Memo /\ late \subseteq Memo

AtRest == pending = None /\ \A c \in Call : calls[c] = Free
Kept(m) == wanted[m].content \subseteq stored[m].content /\ ~stored[m].deleted
Written(m) == IF wanted[m].deleted THEN stored[m].deleted ELSE Kept(m)

(* At rest the store has the last edit of every memo, with all that its     *)
(* user saw when making it, though edits go on while saves are on their     *)
(* way, their answers replace what was typed since, memos are switched and  *)
(* failed saves wait for the next flush; and a deleted memo does not come   *)
(* back through a save that was pending or under way when it was deleted.   *)
(* Not so after one of the ways in which the commands of a memo collide:    *)
(* two chains for it at a time, an edit of another memo or a failed flush   *)
(* in the place of its pending save, its archiving while a save is pending, *)
(* or a failure later in its chain.                                         *)
LastEditIsWritten == AtRest => \A m \in Memo \ raced : Written(m)

(* At rest the list on the screen is what is stored, whatever answers and   *)
(* reloads came in which order, but for the collisions and for a reload     *)
(* that was read before a save and applied after it.                        *)
ScreenIsStore == AtRest => \A m \in Memo \ (raced \cup late) : shown[m] = stored[m]

(* An edit or a deletion reaches the store without the user doing anything  *)
(* more, or has collided, or waits, after a failure, for the next flush.    *)
EditsReachStore ==
  \A m \in Memo :
    ~Written(m) ~> Written(m) \/ m \in raced \/ (faults > 0 /\ pending # None /\ ~timer)
=============================================================================
