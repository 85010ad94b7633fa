--------------------------- MODULE AutosaveProofs ---------------------------
(***************************************************************************)
(* What typing, saving, deleting and reloading leave in the store and on   *)
(* the screen, for any number of memos, chains of commands, edits, failed  *)
(* commands and reloads.                                                   *)
(***************************************************************************)
EXTENDS Autosave, TLAPS, SequenceTheorems

(* A chain is a flush, a change of one memo, both in this order, or a       *)
(* reload of all.                                                           *)
Flushes == [kind: {"flush"}, memo: Memo, content: SUBSET Edit]
Changes == [kind: {"save"}, memo: Memo, content: SUBSET Edit]
           \cup [kind: {"delete"}, memo: Memo, content: {{}}]
Reloads == [kind: {"reload"}, memo: {None}, content: {{}}]

Todos == {<<>>} \cup {<<r>> : r \in Flushes \cup Changes \cup Reloads}
         \cup {<<p[1], p[2]>> : p \in Flushes \X Changes}

Chains == [at: {"sent", "answered", "failed"}, todo: Todos, page: {<<>>} \cup [Memo -> Row]]
Waiting == {None} \cup [memo: Memo, content: SUBSET Edit]

RowsTyped ==
  /\ stored \in [Memo -> Row] /\ shown \in [Memo -> Row] /\ wanted \in [Memo -> Row]
  /\ pending \in Waiting /\ edits \in 0..MaxEdits

CallsTyped ==
  /\ calls \in [Call -> Chains]
  /\ \A c \in Call : /\ calls[c].todo = <<>> => calls[c] = Free
                     /\ /\ calls[c].at = "answered" /\ First(c).kind = "reload"
                        => calls[c].page \in [Memo -> Row]

Typed == RowsTyped /\ CallsTyped

(* What a chain has still to do about a memo: whether it is to be saved,    *)
(* and what is the last that is asked.                                      *)
Says(r, row) == row.content = r.content /\ (row.deleted <=> r.kind = "delete")
SavesIn(todo, m) == \E i \in DOMAIN todo : todo[i].memo = m /\ todo[i].kind # "delete"
EndsWith(todo, m, row) ==
  \E i \in DOMAIN todo : /\ todo[i].memo = m /\ Says(todo[i], row)
                         /\ \A j \in DOMAIN todo : j > i => todo[j].memo # m

Has(c, m) == m \in MemosOf(calls[c].todo)
IsPending(m) == pending # None /\ pending.memo = m
Ran(c, m) == calls[c].at # "sent" /\ Has(c, m) /\ First(c).memo = m

(* One chain at a time has to do with the memo.                             *)
Alone(m) == \A c, d \in Call : Has(c, m) /\ Has(d, m) => c = d

(* The user's last edit is what is pending; if nothing is, what the chain   *)
(* ends with; if there is none, what the store has.                         *)
LastWord(m) ==
  /\ IsPending(m) => wanted[m] = [content |-> pending.content, deleted |-> FALSE]
  /\ ~IsPending(m) =>
       /\ \A c \in Call : Has(c, m) => EndsWith(calls[c].todo, m, wanted[m])
       /\ ~Busy(m) => Written(m)

(* A command that was answered is what the store has.                       *)
Answered(m) ==
  \A c \in Call : Ran(c, m) /\ calls[c].at = "answered" =>
    IF First(c).kind = "delete" THEN stored[m].deleted
    ELSE stored[m] = [content |-> First(c).content, deleted |-> FALSE]

(* What is shown is stored, unless a save is to come, or a deletion was run *)
(* whose answer is.                                                         *)
Seen(m) ==
  ~IsPending(m) /\ (\A c \in Call : ~SavesIn(calls[c].todo, m)) =>
    /\ shown[m].content = stored[m].content
    /\ shown[m].deleted # stored[m].deleted => \E c \in Call : Ran(c, m)

Orderly(m) == Alone(m) /\ LastWord(m) /\ Answered(m) /\ (m \notin late => Seen(m))

Inductive == Typed /\ \A m \in Memo \ raced : Orderly(m)
-----------------------------------------------------------------------------
(* Chains *)

Orders == Flushes \cup Changes \cup Reloads

LEMMA OrderParts ==
  ASSUME NEW r \in Orders
  PROVE  /\ r.memo \in Memo <=> r.kind # "reload"
         /\ r.memo \notin Memo => r.memo = None
         /\ r.content \in SUBSET Edit /\ r.kind \in {"flush", "save", "delete", "reload"}
         /\ r.kind = "delete" => r.content = {}
         /\ r.kind = "flush" <=> r \in Flushes
BY MemoAssumption DEF Orders, Flushes, Changes, Reloads

LEMMA NothingToDo ==
  /\ <<>> \in Todos /\ MemosOf(<<>>) = {}
  /\ \A m \in Memo : ~SavesIn(<<>>, m)
BY DEF Todos, MemosOf, SavesIn

(* A chain of one command.                                                  *)
LEMMA OneToDo ==
  ASSUME NEW r \in Orders
  PROVE  /\ <<r>> \in Todos /\ <<r>> # <<>> /\ Head(<<r>>) = r /\ Tail(<<r>>) = <<>>
         /\ MemosOf(<<r>>) = {r.memo} \cap Memo
         /\ \A m \in Memo : SavesIn(<<r>>, m) <=> r.memo = m /\ r.kind # "delete"
         /\ \A m \in Memo : \A row \in Row :
              EndsWith(<<r>>, m, row) <=> r.memo = m /\ Says(r, row)
<1>1. DOMAIN <<r>> = {1} /\ <<r>>[1] = r
  OBVIOUS
<1>2. MemosOf(<<r>>) = {r.memo} \cap Memo
  BY <1>1 DEF MemosOf
<1>3. \A m \in Memo : SavesIn(<<r>>, m) <=> r.memo = m /\ r.kind # "delete"
  BY <1>1 DEF SavesIn
<1>4. \A m \in Memo : \A row \in Row :
        EndsWith(<<r>>, m, row) <=> r.memo = m /\ Says(r, row)
  <2> HIDE DEF Says
  <2>1. QED
    BY <1>1 DEF EndsWith
<1>5. <<r>> \in Todos
  BY DEF Todos, Orders
<1>6. QED
  BY <1>2, <1>3, <1>4, <1>5

(* A flush, then a change.                                                  *)
LEMMA TwoToDo ==
  ASSUME NEW r \in Flushes, NEW s \in Changes
  PROVE  /\ <<r, s>> \in Todos /\ <<r, s>> # <<>> /\ Head(<<r, s>>) = r /\ Tail(<<r, s>>) = <<s>>
         /\ MemosOf(<<r, s>>) = {r.memo, s.memo}
         /\ \A m \in Memo :
              SavesIn(<<r, s>>, m) <=> r.memo = m \/ (s.memo = m /\ s.kind # "delete")
         /\ \A m \in Memo : \A row \in Row :
              EndsWith(<<r, s>>, m, row) <=>
                IF s.memo = m THEN Says(s, row) ELSE r.memo = m /\ Says(r, row)
<1>1. DOMAIN <<r, s>> = {1, 2} /\ <<r, s>>[1] = r /\ <<r, s>>[2] = s
  OBVIOUS
<1>2. r.memo \in Memo /\ s.memo \in Memo /\ r.kind # "delete"
  BY DEF Flushes, Changes
<1>3. MemosOf(<<r, s>>) = {r.memo, s.memo}
  BY <1>1, <1>2 DEF MemosOf
<1>4. \A m \in Memo :
        SavesIn(<<r, s>>, m) <=> r.memo = m \/ (s.memo = m /\ s.kind # "delete")
  BY <1>1, <1>2 DEF SavesIn
<1>5. \A m \in Memo : \A row \in Row :
        EndsWith(<<r, s>>, m, row) <=>
          IF s.memo = m THEN Says(s, row) ELSE r.memo = m /\ Says(r, row)
  <2> HIDE DEF Says
  <2>1. QED
    BY <1>1 DEF EndsWith
<1>6. <<r, s>> \in Todos
  <2>1. <<r, s>> \in Flushes \X Changes /\ <<r, s>> = <<<<r, s>>[1], <<r, s>>[2]>>
    OBVIOUS
  <2>2. QED
    BY <2>1 DEF Todos
<1>7. Tail(<<r, s>>) = <<s>>
  OBVIOUS
<1>8. QED
  BY <1>3, <1>4, <1>5, <1>6, <1>7

(* What is left of a chain when its first command is done.                  *)
LEMMA FirstAndRest ==
  ASSUME NEW todo \in Todos, todo # <<>>
  PROVE  /\ Head(todo) \in Orders /\ Tail(todo) \in Todos
         /\ Tail(todo) # <<>> => Head(todo) \in Flushes
         /\ MemosOf(todo) = ({Head(todo).memo} \cap Memo) \cup MemosOf(Tail(todo))
         /\ \A m \in Memo :
              SavesIn(todo, m) <=> \/ Head(todo).memo = m /\ Head(todo).kind # "delete"
                                   \/ SavesIn(Tail(todo), m)
         /\ \A m \in Memo : \A row \in Row :
              EndsWith(todo, m, row) <=>
                IF m \in MemosOf(Tail(todo)) THEN EndsWith(Tail(todo), m, row)
                ELSE Head(todo).memo = m /\ Says(Head(todo), row)
<1>1. CASE \E r \in Orders : todo = <<r>>
  <2>1. PICK r \in Orders : todo = <<r>>
    BY <1>1
  <2> HIDE DEF Says
  <2>2. QED
    BY <2>1, OneToDo, NothingToDo
<1>2. CASE \E r \in Flushes, s \in Changes : todo = <<r, s>>
  <2>1. PICK r \in Flushes : \E s \in Changes : todo = <<r, s>>
    BY <1>2
  <2>2. PICK s \in Changes : todo = <<r, s>>
    BY <2>1
  <2>3. r \in Orders /\ s \in Orders /\ r.memo \in Memo /\ s.memo \in Memo
    BY DEF Orders, Flushes, Changes
  <2> HIDE DEF Says
  <2>4. Head(todo) = r /\ Tail(todo) = <<s>>
    BY <2>2, TwoToDo
  <2>5. MemosOf(todo) = {r.memo, s.memo} /\ MemosOf(Tail(todo)) = {s.memo}
    <3>1. MemosOf(<<r, s>>) = {r.memo, s.memo}
      BY TwoToDo
    <3>2. MemosOf(<<s>>) = {s.memo} \cap Memo
      BY <2>3, OneToDo
    <3>3. {s.memo} \cap Memo = {s.memo}
      BY <2>3
    <3>4. QED
      BY <2>2, <2>4, <3>1, <3>2, <3>3, Zenon
  <2>6. \A m \in Memo : SavesIn(Tail(todo), m) <=> s.memo = m /\ s.kind # "delete"
    <3>1. \A m \in Memo : SavesIn(<<s>>, m) <=> s.memo = m /\ s.kind # "delete"
      BY <2>3, OneToDo
    <3>2. QED
      BY <2>4, <3>1, Zenon
  <2>7. \A m \in Memo : SavesIn(todo, m) <=> r.memo = m \/ SavesIn(Tail(todo), m)
    <3>1. \A m \in Memo :
            SavesIn(<<r, s>>, m) <=> r.memo = m \/ (s.memo = m /\ s.kind # "delete")
      BY TwoToDo
    <3>2. \A m \in Memo :
            SavesIn(todo, m) <=> r.memo = m \/ (s.memo = m /\ s.kind # "delete")
      BY <2>2, <3>1, Zenon
    <3>3. QED
      BY <2>6, <3>2
  <2>8. \A m \in Memo : \A row \in Row : EndsWith(Tail(todo), m, row) <=> s.memo = m /\ Says(s, row)
    <3>1. \A m \in Memo : \A row \in Row : EndsWith(<<s>>, m, row) <=> s.memo = m /\ Says(s, row)
      BY <2>3, OneToDo
    <3>2. QED
      BY <2>4, <3>1, Zenon
  <2>9. \A m \in Memo : \A row \in Row : EndsWith(todo, m, row) <=>
          IF s.memo = m THEN Says(s, row) ELSE r.memo = m /\ Says(r, row)
    <3>1. \A m \in Memo : \A row \in Row : EndsWith(<<r, s>>, m, row) <=>
            IF s.memo = m THEN Says(s, row) ELSE r.memo = m /\ Says(r, row)
      BY TwoToDo
    <3>2. QED
      BY <2>2, <3>1
  <2>10. r.kind # "delete" /\ <<s>> \in Todos
    BY <2>3, OneToDo DEF Flushes
  <2>11. QED
    BY <2>3, <2>4, <2>5, <2>7, <2>8, <2>9, <2>10
<1>3. QED
  BY <1>1, <1>2 DEF Todos, Orders

LEMMA HadWhenNamed ==
  ASSUME NEW todo \in Todos, NEW m \in Memo
  PROVE  /\ SavesIn(todo, m) => m \in MemosOf(todo)
         /\ \A row \in Row : EndsWith(todo, m, row) => m \in MemosOf(todo)
BY DEF SavesIn, EndsWith, MemosOf

LEMMA ChainParts ==
  ASSUME CallsTyped, NEW c \in Call
  PROVE  /\ calls[c] \in Chains /\ calls[c].todo \in Todos
         /\ calls[c].at \in {"sent", "answered", "failed"}
         /\ calls[c].page \in {<<>>} \cup [Memo -> Row]
         /\ calls[c] = [at |-> calls[c].at, todo |-> calls[c].todo, page |-> calls[c].page]
         /\ calls[c].todo = <<>> => calls[c] = Free
<1>1. calls[c] \in Chains
  BY DEF CallsTyped
<1>2. QED
  BY <1>1 DEF Chains, CallsTyped

(* Steps in which nothing changes that m is about.                          *)
ViewKept(m) ==
  \A c \in Call :
    /\ Has(c, m)' <=> Has(c, m)
    /\ SavesIn(calls'[c].todo, m) <=> SavesIn(calls[c].todo, m)
    /\ \A row \in Row : EndsWith(calls[c].todo, m, row) => EndsWith(calls'[c].todo, m, row)
    /\ Ran(c, m)' <=> Ran(c, m)
    /\ Ran(c, m) => calls'[c] = calls[c]

LEMMA Unconcerned ==
  ASSUME NEW m \in Memo, Orderly(m), RowsTyped, ViewKept(m),
         wanted'[m] = wanted[m], stored'[m] = stored[m],
         m \notin late' => shown'[m] = shown[m] \/ shown'[m] = stored[m],
         IsPending(m)' <=> IsPending(m),
         IsPending(m) => pending'.content = pending.content,
         m \in late => m \in late'
  PROVE  Orderly(m)'
<1>1. Alone(m)'
  BY DEF Orderly, Alone, ViewKept
<1>2. LastWord(m)'
  <2>1. (IsPending(m) => wanted[m] = [content |-> pending.content, deleted |-> FALSE])'
    BY DEF Orderly, LastWord
  <2>2. ASSUME ~IsPending(m)', NEW c \in Call, Has(c, m)'
        PROVE  EndsWith(calls'[c].todo, m, wanted'[m])
    <3>1. Has(c, m) /\ ~IsPending(m) /\ wanted[m] \in Row
      BY <2>2 DEF ViewKept, RowsTyped
    <3>2. EndsWith(calls[c].todo, m, wanted[m])
      BY <3>1 DEF Orderly, LastWord
    <3>3. QED
      BY <3>1, <3>2 DEF ViewKept
  <2>3. ~IsPending(m)' /\ ~Busy(m)' => Written(m)'
    <3>1. Busy(m)' <=> Busy(m)
      BY DEF Busy, ViewKept, Has
    <3>2. ~IsPending(m) /\ ~Busy(m) => Written(m)
      BY DEF Orderly, LastWord
    <3>3. Written(m)' <=> Written(m)
      BY DEF Written, Kept
    <3>4. QED
      BY <3>1, <3>2, <3>3
  <2>4. QED
    BY <2>1, <2>2, <2>3 DEF LastWord
<1>3. Answered(m)'
  BY DEF Orderly, Answered, ViewKept, First
<1>4. m \notin late' => Seen(m)'
  BY DEF Orderly, Seen, ViewKept
<1>5. QED
  BY <1>1, <1>2, <1>3, <1>4 DEF Orderly
-----------------------------------------------------------------------------
(* A chain begins *)

LEMMA StartTyped ==
  ASSUME CallsTyped, NEW c \in Call, NEW todo \in Todos, Start(c, todo)
  PROVE  /\ CallsTyped' /\ calls'[c] = [Free EXCEPT !.todo = todo]
         /\ \A d \in Call \ {c} : calls'[d] = calls[d]
<1>1. /\ calls[c] = Free /\ calls' = [calls EXCEPT ![c].todo = todo]
      /\ calls \in [Call -> Chains]
  BY DEF Start, CallsTyped
<1>2. calls'[c] = [at |-> "sent", todo |-> todo, page |-> <<>>]
  BY <1>1 DEF Free
<1>3. calls'[c] \in Chains
  BY <1>2 DEF Chains
<1>4. \A d \in Call \ {c} : calls'[d] = calls[d]
  BY <1>1
<1>5. calls' \in [Call -> Chains]
  BY <1>1, <1>3, <1>4
<1>6. todo = <<>> => calls'[c] = Free
  BY <1>2 DEF Free
<1>7. CallsTyped'
  BY <1>2, <1>4, <1>5, <1>6 DEF CallsTyped, First
<1>8. QED
  BY <1>2, <1>4, <1>7 DEF Free

(* Memos that the new chain does not name.                                  *)
LEMMA StartKeeps ==
  ASSUME CallsTyped, NEW c \in Call, NEW todo \in Todos, Start(c, todo),
         NEW m \in Memo, m \notin MemosOf(todo)
  PROVE  ViewKept(m)
<1>1. /\ calls[c] = Free /\ calls'[c] = [Free EXCEPT !.todo = todo]
      /\ \A d \in Call \ {c} : calls'[d] = calls[d]
  BY StartTyped DEF Start
<1>2. calls[c].todo = <<>> /\ calls'[c].todo = todo /\ calls'[c].at = "sent"
  BY <1>1 DEF Free
<1>3. ~Has(c, m) /\ ~Has(c, m)' /\ ~Ran(c, m) /\ ~Ran(c, m)'
  BY <1>2, NothingToDo DEF Has, Ran
<1>4. ~SavesIn(calls[c].todo, m) /\ ~SavesIn(calls'[c].todo, m)
  BY <1>2, NothingToDo, HadWhenNamed
<1>5. \A row \in Row : ~EndsWith(calls[c].todo, m, row)
  BY <1>2, NothingToDo, HadWhenNamed
<1>6. ASSUME NEW d \in Call \ {c}
      PROVE  (Has(d, m)' <=> Has(d, m)) /\ (Ran(d, m)' <=> Ran(d, m))
  BY <1>1 DEF Has, Ran, First
<1>7. QED
  BY <1>1, <1>3, <1>4, <1>5, <1>6 DEF ViewKept

(* Memos that it names, and no other chain.                                 *)
LEMMA StartOrderly ==
  ASSUME CallsTyped, NEW c \in Call, NEW todo \in Todos, Start(c, todo),
         NEW m \in MemosOf(todo), m \in Memo, m \notin Overlapping(todo),
         ~IsPending(m)', EndsWith(todo, m, wanted'[m]),
         m \notin late' => SavesIn(todo, m) \/ shown'[m] = stored'[m]
  PROVE  Orderly(m)'
<1>1. /\ calls'[c] = [Free EXCEPT !.todo = todo]
      /\ \A d \in Call \ {c} : calls'[d] = calls[d]
  BY StartTyped
<1>2. calls'[c].todo = todo /\ calls'[c].at = "sent"
  BY <1>1 DEF Free
<1>3. \A d \in Call : ~Has(d, m)
  BY DEF Overlapping, Busy, Has
<1>4. \A d \in Call : Has(d, m)' <=> d = c
  BY <1>1, <1>2, <1>3 DEF Has
<1>5. Alone(m)' /\ Answered(m)' /\ \A d \in Call : ~Ran(d, m)'
  BY <1>2, <1>4 DEF Alone, Answered, Ran
<1>6. LastWord(m)'
  BY <1>2, <1>4 DEF LastWord, Busy, Has
<1>7. m \notin late' => Seen(m)'
  BY <1>2 DEF Seen
<1>8. QED
  BY <1>5, <1>6, <1>7 DEF Orderly
-----------------------------------------------------------------------------
(* The user *)

LEMMA AppendToOne == ASSUME NEW f, NEW x PROVE Append(<<f>>, x) = <<f, x>>
<1> DEFINE S == {f, x}
           s == Append(<<f>>, x)
           t == <<f, x>>
<1>1. <<f>> \in Seq(S) /\ t \in Seq(S) /\ x \in S
  OBVIOUS
<1>2. s \in Seq(S) /\ Len(s) = 2 /\ Len(t) = 2
  BY <1>1
<1>3. s[1] = f /\ s[2] = x /\ t[1] = f /\ t[2] = x
  BY <1>1
<1> HIDE DEF S, s, t
<1>4. \A i \in 1..Len(s) : s[i] = t[i]
  BY <1>2, <1>3
<1>5. s = t
  BY <1>1, <1>2, <1>4, SeqEqual
<1>6. QED
  BY <1>5 DEF s, t

LastTyped == [content |-> pending.content, deleted |-> FALSE]

(* The flush that goes first, if anything is pending.                       *)
LEMMA FlushedParts ==
  ASSUME pending \in Waiting
  PROVE  /\ Flushed \in Todos
         /\ \A x \in Changes : Append(Flushed, x) \in Todos
         /\ pending = None => Flushed = <<>> /\ \A x \in Changes : Append(Flushed, x) = <<x>>
         /\ pending # None =>
              /\ LastTyped \in Row
              /\ \E f \in Flushes : /\ f.memo = pending.memo /\ Says(f, LastTyped)
                                    /\ Flushed = <<f>>
                                    /\ \A x \in Changes : Append(Flushed, x) = <<f, x>>
<1>1. CASE pending = None
  <2>1. Flushed = <<>> /\ \A x \in Changes : Append(Flushed, x) = <<x>>
    BY <1>1 DEF Flushed
  <2>2. \A x \in Changes : <<x>> \in Todos
    BY DEF Todos
  <2>3. QED
    BY <1>1, <2>1, <2>2, NothingToDo
<1>2. CASE pending # None
  <2> DEFINE f == Request("flush", pending.memo, pending.content)
  <2>1. /\ f \in Flushes /\ f.memo = pending.memo /\ Says(f, LastTyped)
        /\ Flushed = <<f>> /\ LastTyped \in Row
    BY <1>2 DEF Waiting, Request, Flushes, Flushed, Says, LastTyped, Row
  <2> HIDE DEF f
  <2>2. \A x \in Changes : Append(Flushed, x) = <<f, x>>
    BY <2>1, AppendToOne
  <2>3. Flushed \in Todos
    BY <2>1, OneToDo DEF Orders
  <2>4. \A x \in Changes : Append(Flushed, x) \in Todos
    <3>1. \A x \in Changes : <<f, x>> \in Todos
      BY <2>1, TwoToDo
    <3>2. QED
      BY <2>2, <3>1
  <2>5. QED
    BY <1>2, <2>1, <2>2, <2>3, <2>4
<1>3. QED
  BY <1>1, <1>2

(* Flushing alone: FlushPendingSave, SelectMemo.                            *)
LEMMA FlushInductive ==
  ASSUME Inductive, NEW c \in Call, Start(c, Flushed), Cleared,
         raced' = raced \cup Overlapping(Flushed),
         UNCHANGED <<stored, shown, edits, wanted, late>>
  PROVE  Inductive'
<1>1. RowsTyped /\ CallsTyped /\ pending \in Waiting /\ Flushed \in Todos
  BY FlushedParts DEF Inductive, Typed, RowsTyped
<1>2. RowsTyped' /\ CallsTyped' /\ pending' = None
  BY <1>1, StartTyped DEF RowsTyped, Cleared, Waiting
<1>3. ASSUME NEW m \in Memo, m \notin raced' PROVE Orderly(m)'
  <2>1. Orderly(m) /\ m \notin Overlapping(Flushed) /\ ~IsPending(m)' /\ wanted[m] \in Row
    BY <1>1, <1>2, <1>3 DEF Inductive, IsPending, RowsTyped
  <2>2. CASE IsPending(m)
    <3>1. PICK f \in Flushes : f.memo = m /\ Says(f, LastTyped) /\ Flushed = <<f>>
      BY <1>1, <2>2, FlushedParts DEF IsPending
    <3>2. f \in Orders /\ f.kind = "flush"
      BY <3>1 DEF Orders, Flushes
    <3>3. Says(f, wanted[m])
      BY <2>1, <2>2, <3>1 DEF Orderly, LastWord, LastTyped
    <3>4. m \in MemosOf(<<f>>) /\ SavesIn(<<f>>, m) /\ EndsWith(<<f>>, m, wanted[m])
      BY <2>1, <3>1, <3>2, <3>3, OneToDo
    <3>5. m \in MemosOf(Flushed) /\ SavesIn(Flushed, m) /\ EndsWith(Flushed, m, wanted'[m])
      BY <3>1, <3>4
    <3>6. QED
      BY <1>1, <2>1, <3>5, StartOrderly
  <2>3. CASE ~IsPending(m)
    <3>1. m \notin MemosOf(Flushed)
      <4>1. CASE pending = None
        BY <1>1, <4>1, FlushedParts, NothingToDo
      <4>2. CASE pending # None
        <5>1. PICK f \in Flushes : f.memo = pending.memo /\ Flushed = <<f>>
          BY <1>1, <4>2, FlushedParts
        <5>2. MemosOf(<<f>>) = {f.memo} \cap Memo
          BY OneToDo DEF Orders
        <5>3. QED
          BY <2>3, <4>2, <5>1, <5>2 DEF IsPending
      <4>3. QED
        BY <4>1, <4>2
    <3>2. ViewKept(m)
      BY <1>1, <3>1, StartKeeps
    <3>3. QED
      BY <1>1, <2>1, <2>3, <3>2, Unconcerned
  <2>4. QED
    BY <2>2, <2>3
<1>4. QED
  BY <1>2, <1>3 DEF Inductive, Typed

(* Flushing before a change: SaveChange, Delete.                            *)
LEMMA ChangeInductive ==
  ASSUME Inductive, NEW c \in Call, NEW x \in Changes, NEW row \in Row,
         Start(c, Append(Flushed, x)), Cleared,
         raced' = raced \cup Overlapping(Append(Flushed, x)),
         Says(x, row), wanted' = [wanted EXCEPT ![x.memo] = row], edits' \in 0..MaxEdits,
         UNCHANGED <<stored, shown, late>>
  PROVE  Inductive'
<1> DEFINE todo == Append(Flushed, x)
<1>1. RowsTyped /\ CallsTyped /\ pending \in Waiting /\ todo \in Todos
  BY FlushedParts DEF Inductive, Typed, RowsTyped
<1>2. RowsTyped' /\ CallsTyped' /\ pending' = None
  BY <1>1, StartTyped DEF RowsTyped, Cleared, Waiting
<1>3. /\ x \in Orders /\ x.memo \in Memo /\ wanted'[x.memo] = row
      /\ \A m \in Memo : m # x.memo => wanted'[m] = wanted[m]
  BY <1>1 DEF Orders, Changes, RowsTyped
<1>4. x.memo \in MemosOf(todo) /\ EndsWith(todo, x.memo, row)
      /\ (IsPending(x.memo) => SavesIn(todo, x.memo))
      /\ (x.kind # "delete" => SavesIn(todo, x.memo))
  <2>1. CASE pending = None
    <3>1. x.memo \in MemosOf(<<x>>) /\ EndsWith(<<x>>, x.memo, row)
          /\ (x.kind # "delete" => SavesIn(<<x>>, x.memo))
      BY <1>3, OneToDo
    <3>2. todo = <<x>>
      BY <1>1, <2>1, FlushedParts
    <3> HIDE DEF todo
    <3>3. QED
      BY <2>1, <3>1, <3>2 DEF IsPending
  <2>2. CASE pending # None
    <3>1. PICK f \in Flushes : f.memo = pending.memo /\ Append(Flushed, x) = <<f, x>>
      BY <1>1, <2>2, FlushedParts
    <3>2. /\ EndsWith(<<f, x>>, x.memo, row)
          /\ f.memo = x.memo => SavesIn(<<f, x>>, x.memo)
          /\ x.kind # "delete" => SavesIn(<<f, x>>, x.memo)
      BY <1>3, TwoToDo
    <3>3. MemosOf(<<f, x>>) = {f.memo, x.memo}
      BY TwoToDo
    <3>4. x.memo \in MemosOf(<<f, x>>)
      BY <3>3
    <3>5. QED
      BY <2>2, <3>1, <3>2, <3>4 DEF IsPending
  <2>3. QED
    BY <2>1, <2>2
<1>5. ASSUME NEW m \in Memo, m # x.memo, IsPending(m)
      PROVE  m \in MemosOf(todo) /\ EndsWith(todo, m, LastTyped) /\ SavesIn(todo, m)
  <2>1. PICK f \in Flushes : /\ f.memo = m /\ Says(f, LastTyped)
                             /\ Append(Flushed, x) = <<f, x>>
    BY <1>1, <1>5, FlushedParts DEF IsPending
  <2>2. LastTyped \in Row
    BY <1>1, <1>5, FlushedParts DEF IsPending
  <2>3. MemosOf(<<f, x>>) = {f.memo, x.memo} /\ SavesIn(<<f, x>>, m)
    BY <2>1, TwoToDo
  <2>4. EndsWith(<<f, x>>, m, LastTyped)
    BY <1>5, <2>1, <2>2, TwoToDo
  <2>5. m \in MemosOf(<<f, x>>)
    BY <2>1, <2>3
  <2>6. QED
    BY <2>1, <2>3, <2>4, <2>5
<1>6. ASSUME NEW m \in Memo, m # x.memo, ~IsPending(m)
      PROVE  m \notin MemosOf(todo)
  <2>1. CASE pending = None
    <3>1. MemosOf(<<x>>) = {x.memo} \cap Memo
      BY <1>3, OneToDo
    <3>2. QED
      BY <1>1, <1>6, <2>1, <3>1, FlushedParts
  <2>2. CASE pending # None
    <3>1. PICK f \in Flushes : f.memo = pending.memo /\ Append(Flushed, x) = <<f, x>>
      BY <1>1, <2>2, FlushedParts
    <3>2. MemosOf(<<f, x>>) = {f.memo, x.memo}
      BY TwoToDo
    <3>3. QED
      BY <1>6, <2>2, <3>1, <3>2 DEF IsPending
  <2>3. QED
    BY <2>1, <2>2
<1> HIDE DEF todo
<1>7. ASSUME NEW m \in Memo, m \notin raced' PROVE Orderly(m)'
  <2>1. Orderly(m) /\ m \notin Overlapping(todo) /\ ~IsPending(m)'
    BY <1>2, <1>7 DEF Inductive, IsPending, todo
  <2>2. CASE m = x.memo
    <3>1. SavesIn(todo, m) \/ (~IsPending(m) /\ ~Busy(m))
      BY <1>4, <2>1, <2>2 DEF Overlapping
    <3>2. m \notin late' => SavesIn(todo, m) \/ shown'[m] = stored'[m]
      <4>1. SUFFICES ASSUME m \notin late, ~IsPending(m), ~Busy(m)
                     PROVE  shown[m] = stored[m]
        BY <3>1
      <4>2. \A d \in Call : ~Has(d, m) /\ ~Ran(d, m) /\ ~SavesIn(calls[d].todo, m)
        BY <1>1, <4>1, ChainParts, HadWhenNamed DEF Busy, Has, Ran
      <4>3. /\ shown[m].content = stored[m].content
            /\ ~(shown[m].deleted # stored[m].deleted)
        BY <2>1, <4>1, <4>2 DEF Orderly, Seen
      <4>4. shown[m] \in Row /\ stored[m] \in Row
        BY <1>1 DEF RowsTyped
      <4>5. QED
        BY <4>3, <4>4 DEF Row
    <3>3. QED
      BY <1>1, <1>3, <1>4, <2>1, <2>2, <3>2, StartOrderly DEF todo
  <2>3. CASE m # x.memo /\ IsPending(m)
    <3>1. wanted'[m] = LastTyped
      BY <1>3, <2>1, <2>3 DEF Orderly, LastWord, LastTyped
    <3>2. QED
      BY <1>1, <1>5, <2>1, <2>3, <3>1, StartOrderly DEF todo
  <2>4. CASE m # x.memo /\ ~IsPending(m)
    <3>1. ViewKept(m)
      BY <1>1, <1>6, <2>4, StartKeeps DEF todo
    <3>2. QED
      BY <1>1, <1>3, <2>1, <2>4, <3>1, Unconcerned
  <2>5. QED
    BY <2>2, <2>3, <2>4
<1>8. QED
  BY <1>2, <1>7 DEF Inductive, Typed

LEMMA EditedTyped ==
  ASSUME RowsTyped, NEW m \in Memo, edits < MaxEdits
  PROVE  Edited(m) \in SUBSET Edit /\ edits + 1 \in 0..MaxEdits
<1>1. shown[m].content \in SUBSET Edit
  BY DEF RowsTyped, Row
<1>2. edits \in Nat /\ MaxEdits \in Nat
  BY AutosaveBounds DEF RowsTyped
<1>3. edits + 1 \in Edit /\ edits + 1 \in 0..MaxEdits
  BY <1>2 DEF Edit
<1>4. QED
  BY <1>1, <1>3 DEF Edited

LEMMA CallsKept ==
  ASSUME UNCHANGED calls, NEW m \in Memo
  PROVE  ViewKept(m)
BY DEF ViewKept, Has, Ran, First

LEMMA QueueSaveInductive ==
  ASSUME Inductive, NEW n \in Memo, QueueSave(n)
  PROVE  Inductive'
<1> DEFINE row == [content |-> Edited(n), deleted |-> FALSE]
<1>1. /\ RowsTyped /\ CallsTyped /\ edits < MaxEdits /\ edits' = edits + 1
      /\ wanted' = [wanted EXCEPT ![n] = row]
      /\ shown' = [shown EXCEPT ![n].content = Edited(n)]
      /\ pending' = [memo |-> n, content |-> Edited(n)]
      /\ UNCHANGED <<stored, calls, late>>
      /\ raced' = IF pending # None /\ pending.memo # n THEN raced \cup {pending.memo} ELSE raced
  BY DEF Inductive, Typed, QueueSave, Queued, Makes, Wants
<1>2. Edited(n) \in SUBSET Edit /\ row \in Row /\ edits' \in 0..MaxEdits
  BY <1>1, EditedTyped DEF Row
<1>3. pending' \in [memo: Memo, content: SUBSET Edit]
  BY <1>1, <1>2
<1>4. pending' # None /\ pending'.memo = n /\ pending'.content = Edited(n)
  BY <1>1, <1>3, MemoAssumption
<1>5. RowsTyped'
  <2>1. shown' \in [Memo -> Row]
    BY <1>1, <1>2 DEF RowsTyped, Row
  <2>2. wanted' \in [Memo -> Row] /\ pending' \in Waiting
    BY <1>1, <1>2, <1>3 DEF RowsTyped, Waiting
  <2>3. QED
    BY <1>1, <1>2, <2>1, <2>2 DEF RowsTyped
<1>6. CallsTyped'
  BY <1>1 DEF CallsTyped, First
<1>7. ASSUME NEW m \in Memo, m \notin raced' PROVE Orderly(m)'
  <2>1. Orderly(m) /\ ViewKept(m)
    BY <1>1, <1>7, CallsKept DEF Inductive
  <2>2. CASE m = n
    <3>1. IsPending(m)' /\ wanted'[m] = row
      BY <1>1, <1>4, <2>2 DEF IsPending, RowsTyped
    <3>2. Alone(m)' /\ Answered(m)'
      BY <1>1, <2>1 DEF Orderly, Alone, Answered, Has, Ran, First
    <3>3. LastWord(m)'
      BY <1>4, <3>1 DEF LastWord
    <3>4. Seen(m)'
      BY <3>1 DEF Seen
    <3>5. QED
      BY <3>2, <3>3, <3>4 DEF Orderly
  <2>3. CASE m # n
    <3>1. ~IsPending(m) /\ ~IsPending(m)'
      BY <1>1, <1>4, <1>7, <2>3 DEF IsPending
    <3>2. wanted'[m] = wanted[m] /\ shown'[m] = shown[m] /\ stored'[m] = stored[m]
      BY <1>1, <2>3 DEF RowsTyped
    <3>3. QED
      BY <1>1, <2>1, <3>1, <3>2, Unconcerned
  <2>4. QED
    BY <2>2, <2>3
<1>8. QED
  BY <1>5, <1>6, <1>7 DEF Inductive, Typed

LEMMA JumpToInductive ==
  ASSUME Inductive, NEW n \in Memo, JumpTo(n)
  PROVE  Inductive'
<1>1. UNCHANGED <<stored, shown, pending, calls, edits, wanted, raced, late>>
  BY DEF JumpTo, queue, counts, history
<1>2. Typed'
  BY <1>1 DEF Inductive, Typed, RowsTyped, CallsTyped, First
<1>3. ASSUME NEW m \in Memo, m \notin raced' PROVE Orderly(m)'
  <2>1. Orderly(m) /\ ViewKept(m) /\ RowsTyped
    BY <1>1, <1>3, CallsKept DEF Inductive, Typed
  <2>2. QED
    BY <1>1, <2>1, Unconcerned DEF IsPending
<1>4. QED
  BY <1>2, <1>3 DEF Inductive

LEMMA SaveChangeInductive ==
  ASSUME Inductive, NEW n \in Memo, NEW c \in Call, SaveChange(n, c)
  PROVE  Inductive'
<1> DEFINE x == Save(n, Edited(n))
           row == [content |-> Edited(n), deleted |-> FALSE]
<1>1. /\ edits < MaxEdits /\ edits' = edits + 1 /\ wanted' = [wanted EXCEPT ![n] = row]
      /\ Start(c, Append(Flushed, x)) /\ Cleared
      /\ raced' = raced \cup Overlapping(Append(Flushed, x))
      /\ UNCHANGED <<stored, shown, late>>
  BY DEF SaveChange, Makes, Wants, screen
<1>2. Edited(n) \in SUBSET Edit /\ edits' \in 0..MaxEdits
  BY <1>1, EditedTyped DEF Inductive, Typed
<1>3. x \in Changes /\ x.memo = n /\ row \in Row /\ Says(x, row)
  BY <1>2 DEF Save, Request, Changes, Row, Says
<1> HIDE DEF x, row
<1>4. QED
  BY <1>1, <1>2, <1>3, ChangeInductive

LEMMA DeleteInductive ==
  ASSUME Inductive, NEW n \in Memo, NEW c \in Call, Delete(n, c)
  PROVE  Inductive'
<1> DEFINE x == Request("delete", n, {})
           row == [content |-> {}, deleted |-> TRUE]
<1>1. /\ edits < MaxEdits /\ edits' = edits + 1 /\ wanted' = [wanted EXCEPT ![n] = row]
      /\ Start(c, Append(Flushed, x)) /\ Cleared
      /\ raced' = raced \cup Overlapping(Append(Flushed, x))
      /\ UNCHANGED <<stored, shown, late>>
  BY DEF Delete, Drops, Wants, screen
<1>2. edits' \in 0..MaxEdits
  BY <1>1, EditedTyped DEF Inductive, Typed
<1>3. x \in Changes /\ x.memo = n /\ row \in Row /\ Says(x, row)
  BY DEF Request, Changes, Row, Says
<1> HIDE DEF x, row
<1>4. QED
  BY <1>1, <1>2, <1>3, ChangeInductive

LEMMA FlushPendingSaveInductive ==
  ASSUME Inductive, NEW c \in Call, FlushPendingSave(c)
  PROVE  Inductive'
BY FlushInductive DEF FlushPendingSave, screen, counts

LEMMA SelectMemoInductive ==
  ASSUME Inductive, NEW n \in Memo, NEW c \in Call, SelectMemo(n, c)
  PROVE  Inductive'
BY FlushInductive DEF SelectMemo, counts

(* Archiving saves without a flush.                                         *)
LEMMA ArchiveToggleInductive ==
  ASSUME Inductive, NEW n \in Memo, NEW c \in Call, ArchiveToggle(n, c)
  PROVE  Inductive'
<1> DEFINE x == Save(n, Edited(n))
           row == [content |-> Edited(n), deleted |-> FALSE]
<1>1. /\ RowsTyped /\ CallsTyped
      /\ edits < MaxEdits /\ edits' = edits + 1 /\ wanted' = [wanted EXCEPT ![n] = row]
      /\ Start(c, <<x>>) /\ Overlapping(<<x>>) \subseteq raced' /\ raced \subseteq raced'
      /\ IsPending(n) => n \in raced'
      /\ UNCHANGED <<stored, shown, pending, late>>
  BY DEF ArchiveToggle, Makes, Wants, screen, queue, IsPending, Inductive, Typed
<1>2. Edited(n) \in SUBSET Edit /\ edits' \in 0..MaxEdits
  BY <1>1, EditedTyped
<1>3. x \in Changes /\ x \in Orders /\ x.memo = n /\ x.kind = "save" /\ row \in Row /\ Says(x, row)
  BY <1>2 DEF Save, Request, Changes, Orders, Row, Says
<1> HIDE DEF x, row
<1>4. /\ <<x>> \in Todos /\ MemosOf(<<x>>) = {n} /\ SavesIn(<<x>>, n) /\ EndsWith(<<x>>, n, row)
  BY <1>3, OneToDo
<1>5. RowsTyped' /\ CallsTyped'
  BY <1>1, <1>2, <1>3, <1>4, StartTyped DEF RowsTyped
<1>6. ASSUME NEW m \in Memo, m \notin raced' PROVE Orderly(m)'
  <2>1. Orderly(m) /\ m \notin Overlapping(<<x>>)
    BY <1>1, <1>6 DEF Inductive
  <2>2. CASE m = n
    <3>1. ~IsPending(m)' /\ wanted'[m] = row
      BY <1>1, <1>6, <2>2 DEF IsPending, RowsTyped
    <3>2. m \in MemosOf(<<x>>) /\ EndsWith(<<x>>, m, wanted'[m]) /\ SavesIn(<<x>>, m)
      BY <1>4, <2>2, <3>1
    <3>3. QED
      BY <1>1, <1>4, <2>1, <3>1, <3>2, StartOrderly
  <2>3. CASE m # n
    <3>1. ViewKept(m)
      BY <1>1, <1>4, <2>3, StartKeeps
    <3>2. wanted'[m] = wanted[m] /\ (IsPending(m)' <=> IsPending(m))
      BY <1>1, <2>3 DEF RowsTyped, IsPending
    <3>3. QED
      BY <1>1, <2>1, <3>1, <3>2, Unconcerned
  <2>4. QED
    BY <2>2, <2>3
<1>7. QED
  BY <1>5, <1>6 DEF Inductive, Typed

LEMMA ReloadInductive ==
  ASSUME Inductive, NEW c \in Call, Reload(c)
  PROVE  Inductive'
<1> DEFINE x == Request("reload", None, {})
<1>1. /\ RowsTyped /\ CallsTyped /\ Start(c, <<x>>)
      /\ UNCHANGED <<stored, shown, pending, edits, wanted, raced, late>>
  BY DEF Reload, screen, queue, history, Inductive, Typed
<1>2. x \in Orders /\ x.memo \notin Memo
  BY MemoAssumption DEF Request, Orders, Reloads
<1> HIDE DEF x
<1>3. <<x>> \in Todos /\ MemosOf(<<x>>) = {}
  BY <1>2, OneToDo
<1>4. Typed'
  BY <1>1, <1>3, StartTyped DEF Typed, RowsTyped
<1>5. ASSUME NEW m \in Memo, m \notin raced' PROVE Orderly(m)'
  <2>1. Orderly(m) /\ ViewKept(m)
    BY <1>1, <1>3, <1>5, StartKeeps DEF Inductive
  <2>2. QED
    BY <1>1, <2>1, Unconcerned DEF IsPending
<1>6. QED
  BY <1>4, <1>5 DEF Inductive
-----------------------------------------------------------------------------
(* The commands *)

LEMMA EffectParts ==
  ASSUME RowsTyped, NEW r \in Orders
  PROVE  /\ Effect(r) \in [Memo -> Row]
         /\ \A m \in Memo : m # r.memo => Effect(r)[m] = stored[m]
         /\ r.memo \in Memo =>
              IF r.kind = "delete"
              THEN /\ Effect(r)[r.memo].deleted
                   /\ Effect(r)[r.memo].content = stored[r.memo].content
              ELSE Effect(r)[r.memo] = [content |-> r.content, deleted |-> FALSE]
<1>1. /\ stored \in [Memo -> Row] /\ r.content \in SUBSET Edit
      /\ r.memo \in Memo <=> r.kind # "reload"
      /\ r.kind \in {"flush", "save", "delete", "reload"}
  BY OrderParts DEF RowsTyped
<1>2. CASE r.kind \in {"flush", "save"}
  <2>1. /\ Effect(r) = [stored EXCEPT ![r.memo] = [content |-> r.content, deleted |-> FALSE]]
        /\ [content |-> r.content, deleted |-> FALSE] \in Row
    BY <1>1, <1>2 DEF Effect, Row
  <2>2. QED
    BY <1>1, <1>2, <2>1
<1>3. CASE r.kind = "delete"
  <2>1. Effect(r) = [stored EXCEPT ![r.memo].deleted = TRUE] /\ r.memo \in Memo
    BY <1>1, <1>3 DEF Effect
  <2>2. stored[r.memo] \in Row
    BY <1>1, <2>1
  <2>3. [stored[r.memo] EXCEPT !.deleted = TRUE] \in Row
    BY <2>2 DEF Row
  <2>4. /\ [stored[r.memo] EXCEPT !.deleted = TRUE].deleted
        /\ [stored[r.memo] EXCEPT !.deleted = TRUE].content = stored[r.memo].content
    BY <2>2 DEF Row
  <2>5. QED
    BY <1>1, <1>3, <2>1, <2>3, <2>4
<1>4. CASE r.kind = "reload"
  BY <1>1, <1>4 DEF Effect
<1>5. QED
  BY <1>1, <1>2, <1>3, <1>4

LEMMA FirstParts ==
  ASSUME CallsTyped, NEW c \in Call, calls[c].todo # <<>>
  PROVE  /\ First(c) \in Orders /\ calls[c].todo \in Todos /\ Tail(calls[c].todo) \in Todos
         /\ Tail(calls[c].todo) # <<>> => First(c).kind = "flush"
         /\ \A m \in Memo : Has(c, m) <=> First(c).memo = m \/ m \in MemosOf(Tail(calls[c].todo))
<1>1. calls[c].todo \in Todos
  BY ChainParts
<1>2. QED
  BY <1>1, FirstAndRest DEF First, Has, Flushes

(* The first command is run, or fails before or after it has been.          *)
LEMMA CommandInductive ==
  ASSUME Inductive, NEW c \in Call, Sent(c),
         stored' \in {stored, Effect(First(c))},
         calls' \in [Call -> Chains], calls'[c].todo = calls[c].todo,
         \A d \in Call \ {c} : calls'[d] = calls[d],
         calls'[c].at \in {"answered", "failed"},
         calls'[c].at = "answered" =>
           /\ stored' = Effect(First(c))
           /\ First(c).kind = "reload" => calls'[c].page \in [Memo -> Row],
         UNCHANGED <<shown, pending, edits, wanted, raced, late>>
  PROVE  Inductive'
<1> DEFINE r == First(c)
<1>1. /\ RowsTyped /\ CallsTyped /\ calls[c].todo # <<>> /\ calls[c].at = "sent"
      /\ r \in Orders /\ First(c)' = r
  BY FirstParts DEF Inductive, Typed, Sent, First
<1>2. \A d \in Call : calls'[d].todo = calls[d].todo
  OBVIOUS
<1>3. RowsTyped'
  BY <1>1, EffectParts DEF RowsTyped
<1>4. CallsTyped'
  BY <1>1, <1>2 DEF CallsTyped, First
<1>5. \A d \in Call, m \in Memo : /\ Has(d, m)' <=> Has(d, m)
                                  /\ d # c => (Ran(d, m)' <=> Ran(d, m))
  BY <1>2 DEF Has, Ran, First
<1>6. ASSUME NEW m \in Memo, m \notin raced' PROVE Orderly(m)'
  <2>1. Orderly(m) /\ ~Ran(c, m)
    BY <1>1, <1>6 DEF Inductive, Ran
  <2>2. CASE m # r.memo
    <3>1. ~Ran(c, m)'
      BY <1>1, <2>2 DEF Ran
    <3>2. ViewKept(m)
      BY <1>2, <1>5, <2>1, <3>1 DEF ViewKept
    <3>3. stored'[m] = stored[m]
      BY <1>1, <2>2, EffectParts
    <3>4. QED
      BY <1>1, <2>1, <3>2, <3>3, Unconcerned DEF IsPending
  <2>3. CASE m = r.memo
    <3>1. Has(c, m) /\ Has(c, m)' /\ Ran(c, m)'
      BY <1>1, <1>5, <2>3, FirstParts DEF Ran
    <3>2. Alone(m)' /\ \A d \in Call : Has(d, m)' => d = c
      BY <1>5, <2>1, <3>1 DEF Orderly, Alone
    <3>3. LastWord(m)'
      <4>1. (IsPending(m) => wanted[m] = [content |-> pending.content, deleted |-> FALSE])'
        BY <2>1 DEF Orderly, LastWord, IsPending
      <4>2. ~IsPending(m)' => \A d \in Call : Has(d, m)' => EndsWith(calls'[d].todo, m, wanted'[m])
        BY <1>2, <1>5, <2>1 DEF Orderly, LastWord, IsPending
      <4>3. Busy(m)'
        BY <3>1 DEF Busy, Has
      <4>4. QED
        BY <4>1, <4>2, <4>3 DEF LastWord
    <3>4. Answered(m)'
      <4>1. ASSUME NEW d \in Call, Ran(d, m)', calls'[d].at = "answered"
            PROVE  IF r.kind = "delete" THEN stored'[m].deleted
                   ELSE stored'[m] = [content |-> r.content, deleted |-> FALSE]
        <5>1. d = c
          BY <3>2, <4>1 DEF Ran
        <5>2. stored' = Effect(r)
          BY <4>1, <5>1
        <5>3. QED
          BY <1>1, <2>3, <5>2, EffectParts
      <4>2. \A d \in Call : Ran(d, m)' => First(d)' = r
        BY <1>1, <3>2 DEF Ran
      <4> HIDE DEF r
      <4>3. QED
        BY <4>1, <4>2 DEF Answered
    <3>5. m \notin late' => Seen(m)'
      <4>1. SUFFICES ASSUME m \notin late, ~IsPending(m),
                            \A d \in Call : ~SavesIn(calls[d].todo, m)
                     PROVE  stored'[m].content = shown[m].content
        BY <1>2, <3>1 DEF Seen, IsPending
      <4>2. stored[m].content = shown[m].content
        BY <2>1, <4>1 DEF Orderly, Seen
      <4>3. r.kind = "delete"
        BY <1>1, <2>3, <4>1, FirstParts, FirstAndRest DEF First
      <4>4. QED
        BY <1>1, <2>3, <4>2, <4>3, EffectParts
    <3>6. QED
      BY <3>2, <3>3, <3>4, <3>5 DEF Orderly
  <2>4. QED
    BY <2>2, <2>3
<1>7. QED
  BY <1>3, <1>4, <1>6 DEF Inductive, Typed

LEMMA RunInductive ==
  ASSUME Inductive, NEW c \in Call, Run(c)
  PROVE  Inductive'
<1> DEFINE p == IF First(c).kind = "reload" THEN stored ELSE <<>>
<1>1. /\ calls \in [Call -> Chains] /\ Sent(c) /\ stored' = Effect(First(c))
      /\ calls' = [calls EXCEPT ![c].at = "answered", ![c].page = p]
      /\ p \in {<<>>} \cup [Memo -> Row]
      /\ First(c).kind = "reload" => p \in [Memo -> Row]
      /\ UNCHANGED <<shown, pending, edits, wanted, raced, late>>
  BY DEF Run, Inductive, Typed, RowsTyped, CallsTyped, screen, queue, counts, history
<1> HIDE DEF p
<1>2. /\ calls' \in [Call -> Chains] /\ calls'[c].todo = calls[c].todo
      /\ calls'[c].at = "answered" /\ calls'[c].page = p
      /\ \A d \in Call \ {c} : calls'[d] = calls[d]
  BY <1>1 DEF Chains
<1>3. QED
  BY <1>1, <1>2, CommandInductive

LEMMA FailInductive ==
  ASSUME Inductive, NEW c \in Call, Fail(c)
  PROVE  Inductive'
<1>1. /\ calls \in [Call -> Chains] /\ Sent(c) /\ stored' \in {stored, Effect(First(c))}
      /\ calls' = [calls EXCEPT ![c].at = "failed"]
      /\ UNCHANGED <<shown, pending, edits, wanted, raced, late>>
  BY DEF Fail, Inductive, Typed, CallsTyped, screen, queue, history
<1>2. /\ calls' \in [Call -> Chains] /\ calls'[c].todo = calls[c].todo
      /\ calls'[c].at = "failed"
      /\ \A d \in Call \ {c} : calls'[d] = calls[d]
  BY <1>1 DEF Chains
<1>3. QED
  BY <1>1, <1>2, CommandInductive
-----------------------------------------------------------------------------
(* Their answers *)

LEMMA ContinueTyped ==
  ASSUME CallsTyped, NEW c \in Call, calls[c].todo # <<>>, Continues(c)
  PROVE  /\ CallsTyped' /\ \A d \in Call \ {c} : calls'[d] = calls[d]
         /\ calls'[c].todo = Tail(calls[c].todo) /\ calls'[c].at = "sent"
<1> DEFINE q == [Free EXCEPT !.todo = Tail(calls[c].todo)]
<1>1. calls \in [Call -> Chains] /\ Tail(calls[c].todo) \in Todos /\ calls' = [calls EXCEPT ![c] = q]
  BY FirstParts DEF CallsTyped, Continues
<1>2. q = [at |-> "sent", todo |-> Tail(calls[c].todo), page |-> <<>>]
  BY DEF Free
<1>3. q \in Chains
  BY <1>1, <1>2 DEF Chains
<1>4. q.todo = Tail(calls[c].todo) /\ q.at = "sent" /\ (q.todo = <<>> => q = Free)
  BY <1>2 DEF Free
<1> HIDE DEF q
<1>5. calls' \in [Call -> Chains] /\ calls'[c] = q /\ \A d \in Call \ {c} : calls'[d] = calls[d]
  BY <1>1, <1>3
<1>6. CallsTyped'
  BY <1>4, <1>5 DEF CallsTyped, First
<1>7. QED
  BY <1>4, <1>5, <1>6

(* Memos that the command was not about.                                    *)
LEMMA ContinueKeeps ==
  ASSUME CallsTyped, NEW c \in Call, calls[c].todo # <<>>, Continues(c),
         NEW m \in Memo, First(c).memo # m
  PROVE  ViewKept(m)
<1> DEFINE todo == calls[c].todo
<1>1. /\ todo \in Todos /\ calls'[c].todo = Tail(todo) /\ calls'[c].at = "sent"
      /\ \A d \in Call \ {c} : calls'[d] = calls[d]
  BY ContinueTyped, FirstParts
<1>2. Has(c, m)' <=> Has(c, m)
  BY <1>1, FirstParts DEF Has
<1>3. SavesIn(calls'[c].todo, m) <=> SavesIn(todo, m)
  BY <1>1, FirstAndRest DEF First
<1>4. \A row \in Row : EndsWith(todo, m, row) => EndsWith(calls'[c].todo, m, row)
  BY <1>1, FirstAndRest DEF First
<1>5. ~Ran(c, m) /\ ~Ran(c, m)'
  BY <1>1 DEF Ran
<1>6. \A d \in Call \ {c} : (Has(d, m)' <=> Has(d, m)) /\ (Ran(d, m)' <=> Ran(d, m))
  BY <1>1 DEF Has, Ran, First
<1>7. QED
  BY <1>1, <1>2, <1>3, <1>4, <1>5, <1>6 DEF ViewKept

(* The memo that it was about, when the store and the screen agree.         *)
LEMMA ContinueOrderly ==
  ASSUME RowsTyped, CallsTyped, NEW c \in Call, calls[c].todo # <<>>, Continues(c),
         NEW m \in Memo, First(c).memo = m, calls[c].at = "answered", Orderly(m),
         wanted'[m] = wanted[m], stored'[m] = stored[m], UNCHANGED pending,
         m \in late => m \in late',
         m \notin late' =>
           IsPending(m) \/ SavesIn(Tail(calls[c].todo), m) \/ shown'[m] = stored[m]
  PROVE  Orderly(m)'
<1> DEFINE todo == calls[c].todo
<1>1. /\ todo \in Todos /\ calls'[c].todo = Tail(todo) /\ calls'[c].at = "sent"
      /\ Tail(todo) \in Todos /\ Has(c, m) /\ Ran(c, m)
      /\ \A d \in Call \ {c} : calls'[d] = calls[d]
  BY ContinueTyped, FirstParts DEF Ran
<1>2. \A d \in Call : Has(d, m) => d = c
  BY <1>1 DEF Orderly, Alone
<1>3. \A d \in Call : Has(d, m)' => d = c
  BY <1>1, <1>2 DEF Has
<1>4. Alone(m)' /\ \A d \in Call : ~Ran(d, m)'
  BY <1>1, <1>3 DEF Alone, Ran
<1>5. Answered(m)'
  BY <1>4 DEF Answered
<1>6. LastWord(m)'
  <2>1. (IsPending(m) => wanted[m] = [content |-> pending.content, deleted |-> FALSE])'
    BY DEF Orderly, LastWord, IsPending
  <2>2. SUFFICES ASSUME ~IsPending(m)
                 PROVE  /\ Has(c, m)' => EndsWith(Tail(todo), m, wanted[m])
                        /\ ~Has(c, m)' => Written(m)'
    BY <1>1, <1>3, <2>1 DEF LastWord, IsPending, Busy, Has
  <2>3. wanted[m] \in Row /\ EndsWith(todo, m, wanted[m])
    BY <1>1, <2>2 DEF Orderly, LastWord, RowsTyped
  <2>4. Has(c, m)' => EndsWith(Tail(todo), m, wanted[m])
    BY <1>1, <2>3, FirstAndRest DEF Has
  <2>5. ASSUME ~Has(c, m)' PROVE Written(m)'
    <3>1. Says(First(c), wanted[m])
      BY <1>1, <2>3, <2>5, FirstAndRest DEF Has, First
    <3>2. IF First(c).kind = "delete" THEN stored[m].deleted
          ELSE stored[m] = [content |-> First(c).content, deleted |-> FALSE]
      BY <1>1 DEF Orderly, Answered
    <3>3. Written(m)
      BY <3>1, <3>2 DEF Says, Written, Kept
    <3>4. QED
      BY <3>3 DEF Written, Kept
  <2>6. QED
    BY <2>4, <2>5
<1>7. m \notin late' => Seen(m)'
  <2>1. SUFFICES ASSUME m \notin late', ~IsPending(m), ~SavesIn(Tail(todo), m)
                 PROVE  shown'[m] = stored'[m]
    BY <1>1 DEF Seen, IsPending
  <2>2. QED
    BY <2>1
<1>8. QED
  BY <1>4, <1>5, <1>6, <1>7 DEF Orderly

LEMMA SavedInductive ==
  ASSUME Inductive, NEW c \in Call, calls[c].todo # <<>>, Saved(c)
  PROVE  Inductive'
<1> DEFINE r == First(c)
           row == [content |-> r.content, deleted |-> FALSE]
<1>1. /\ RowsTyped /\ CallsTyped /\ r \in Orders /\ r.kind \in {"flush", "save"}
      /\ calls[c].at = "answered" /\ Continues(c)
      /\ shown' = [shown EXCEPT ![r.memo] = row]
      /\ UNCHANGED <<stored, pending, edits, wanted, raced, late>>
  BY FirstParts DEF Saved, Replaced, Inductive, Typed, queue, counts, history
<1>2. r.memo \in Memo /\ row \in Row
  BY <1>1, OrderParts DEF Row
<1>3. RowsTyped' /\ CallsTyped'
  BY <1>1, <1>2, ContinueTyped DEF RowsTyped
<1>4. ASSUME NEW m \in Memo, m \notin raced' PROVE Orderly(m)'
  <2>1. Orderly(m)
    BY <1>1, <1>4 DEF Inductive
  <2>2. CASE m # r.memo
    <3>1. ViewKept(m) /\ shown'[m] = shown[m]
      BY <1>1, <2>2, ContinueKeeps DEF RowsTyped
    <3>2. QED
      BY <1>1, <2>1, <3>1, Unconcerned DEF IsPending
  <2>3. CASE m = r.memo
    <3>1. Ran(c, m)
      BY <1>1, <2>3, FirstParts DEF Ran
    <3>2. stored[m] = row
      BY <1>1, <2>1, <3>1 DEF Orderly, Answered
    <3>3. shown'[m] = row
      BY <1>1, <2>3 DEF RowsTyped
    <3>4. QED
      BY <1>1, <2>1, <2>3, <3>2, <3>3, ContinueOrderly
  <2>4. QED
    BY <2>2, <2>3
<1>5. QED
  BY <1>1, <1>3, <1>4 DEF Inductive, Typed

LEMMA DeletedInductive ==
  ASSUME Inductive, NEW c \in Call, calls[c].todo # <<>>, Deleted(c)
  PROVE  Inductive'
<1> DEFINE r == First(c)
<1>1. /\ RowsTyped /\ CallsTyped /\ r \in Orders /\ r.kind = "delete"
      /\ calls[c].at = "answered" /\ Continues(c)
      /\ shown' = [shown EXCEPT ![r.memo].deleted = TRUE]
      /\ UNCHANGED <<stored, pending, edits, wanted, raced, late>>
  BY FirstParts DEF Deleted, Inductive, Typed, queue, counts, history
<1>2. r.memo \in Memo /\ Tail(calls[c].todo) = <<>>
  BY <1>1, OrderParts, FirstParts
<1>3. /\ shown[r.memo] \in Row /\ shown' \in [Memo -> Row]
      /\ shown'[r.memo] = [content |-> shown[r.memo].content, deleted |-> TRUE]
  BY <1>1, <1>2 DEF RowsTyped, Row
<1>4. RowsTyped' /\ CallsTyped'
  BY <1>1, <1>3, ContinueTyped DEF RowsTyped
<1>5. ASSUME NEW m \in Memo, m \notin raced' PROVE Orderly(m)'
  <2>1. Orderly(m)
    BY <1>1, <1>5 DEF Inductive
  <2>2. CASE m # r.memo
    <3>1. ViewKept(m) /\ shown'[m] = shown[m]
      BY <1>1, <2>2, ContinueKeeps DEF RowsTyped
    <3>2. QED
      BY <1>1, <2>1, <3>1, Unconcerned DEF IsPending
  <2>3. CASE m = r.memo
    <3>1. Ran(c, m)
      BY <1>1, <2>3, FirstParts DEF Ran
    <3>2. stored[m].deleted /\ stored[m] \in Row
      BY <1>1, <2>1, <3>1 DEF Orderly, Answered, RowsTyped
    <3>3. \A d \in Call : d # c => ~SavesIn(calls[d].todo, m)
      BY <1>1, <2>1, <3>1, ChainParts, HadWhenNamed DEF Orderly, Alone, Ran, Has
    <3>4. ~SavesIn(calls[c].todo, m)
      <4>1. calls[c].todo \in Todos /\ Head(calls[c].todo).kind = "delete"
        BY <1>1, FirstParts DEF First
      <4>2. ~SavesIn(Tail(calls[c].todo), m)
        BY <1>2, NothingToDo, Zenon
      <4>3. QED
        BY <4>1, <4>2, FirstAndRest
    <3>5. m \notin late /\ ~IsPending(m) => shown[m].content = stored[m].content
      BY <2>1, <3>3, <3>4 DEF Orderly, Seen
    <3>6. m \notin late /\ ~IsPending(m) => shown'[m] = stored[m]
      BY <1>3, <2>3, <3>2, <3>5 DEF Row
    <3>7. QED
      BY <1>1, <2>1, <2>3, <3>6, ContinueOrderly
  <2>4. QED
    BY <2>2, <2>3
<1>6. QED
  BY <1>1, <1>4, <1>5 DEF Inductive, Typed

LEMMA ApplyBootstrapInductive ==
  ASSUME Inductive, NEW c \in Call, calls[c].todo # <<>>, ApplyBootstrap(c)
  PROVE  Inductive'
<1>1. /\ RowsTyped /\ CallsTyped /\ First(c) \in Orders /\ First(c).kind = "reload"
      /\ calls[c].at = "answered" /\ Continues(c)
      /\ shown' = calls[c].page /\ late' = late \cup Late(calls[c].page)
      /\ UNCHANGED <<stored, pending, edits, wanted, raced>>
  BY FirstParts DEF ApplyBootstrap, Inductive, Typed, queue, counts
<1>2. calls[c].page \in [Memo -> Row] /\ First(c).memo \notin Memo
  BY <1>1, OrderParts DEF CallsTyped
<1>3. RowsTyped' /\ CallsTyped'
  BY <1>1, <1>2, ContinueTyped DEF RowsTyped
<1>4. ASSUME NEW m \in Memo, m \notin raced' PROVE Orderly(m)'
  <2>1. Orderly(m) /\ ViewKept(m)
    BY <1>1, <1>2, <1>4, ContinueKeeps DEF Inductive
  <2>2. m \notin late' => shown'[m] = stored[m]
    BY <1>1 DEF Late
  <2>3. QED
    BY <1>1, <2>1, <2>2, Unconcerned DEF IsPending
<1>5. QED
  BY <1>1, <1>3, <1>4 DEF Inductive, Typed

LEMMA FlushFailsInductive ==
  ASSUME Inductive, NEW c \in Call, calls[c].todo # <<>>, FlushFails(c)
  PROVE  Inductive'
<1> DEFINE r == First(c)
<1>1. /\ RowsTyped /\ CallsTyped /\ r \in Orders /\ r.kind = "flush"
      /\ Continues(c) /\ pending' = [memo |-> r.memo, content |-> r.content]
      /\ raced \subseteq raced' /\ MemosOf(Tail(calls[c].todo)) \subseteq raced'
      /\ pending # None => pending.memo \in raced'
      /\ UNCHANGED <<stored, shown, edits, wanted, late>>
  BY FirstParts DEF FlushFails, Inductive, Typed, screen, counts
<1>2. r.memo \in Memo /\ pending' \in [memo: Memo, content: SUBSET Edit]
  BY <1>1, OrderParts
<1>3. pending' # None
  BY <1>2, MemoAssumption
<1>4. RowsTyped' /\ CallsTyped'
  BY <1>1, <1>2, ContinueTyped DEF RowsTyped, Waiting
<1>5. ASSUME NEW m \in Memo, m \notin raced' PROVE Orderly(m)'
  <2>1. Orderly(m) /\ ~IsPending(m) /\ m \notin MemosOf(Tail(calls[c].todo)) /\ wanted[m] \in Row
    BY <1>1, <1>5 DEF Inductive, IsPending, RowsTyped
  <2>2. CASE m # r.memo
    <3>1. ViewKept(m) /\ ~IsPending(m)'
      BY <1>1, <2>2, ContinueKeeps DEF IsPending
    <3>2. QED
      BY <1>1, <2>1, <3>1, Unconcerned
  <2>3. CASE m = r.memo
    <3>1. /\ Has(c, m) /\ calls[c].todo \in Todos /\ calls'[c].at = "sent"
          /\ calls'[c].todo = Tail(calls[c].todo)
          /\ \A d \in Call \ {c} : calls'[d] = calls[d]
      BY <1>1, <2>3, FirstParts, ContinueTyped
    <3>2. \A d \in Call : ~Has(d, m)'
      BY <2>1, <3>1 DEF Orderly, Alone, Has
    <3>3. Alone(m)' /\ Answered(m)'
      BY <3>2 DEF Alone, Answered, Ran
    <3>4. Says(r, wanted[m])
      BY <2>1, <3>1, FirstAndRest DEF Orderly, LastWord, First
    <3>5. wanted[m] = [content |-> r.content, deleted |-> FALSE]
      BY <1>1, <2>1, <3>4 DEF Says, Row
    <3>6. IsPending(m)' /\ wanted'[m] = [content |-> pending'.content, deleted |-> FALSE]
      BY <1>1, <1>3, <2>3, <3>5 DEF IsPending
    <3>7. LastWord(m)' /\ Seen(m)'
      BY <3>6 DEF LastWord, Seen
    <3>8. QED
      BY <3>3, <3>7 DEF Orderly
  <2>4. QED
    BY <2>2, <2>3
<1>6. QED
  BY <1>4, <1>5 DEF Inductive, Typed

LEMMA ChainFailsInductive ==
  ASSUME Inductive, NEW c \in Call, calls[c].todo # <<>>, ChainFails(c)
  PROVE  Inductive'
<1>1. /\ RowsTyped /\ CallsTyped /\ calls' = [calls EXCEPT ![c] = Free]
      /\ raced' = raced \cup MemosOf(calls[c].todo)
      /\ UNCHANGED <<stored, shown, pending, edits, wanted, late>>
  BY DEF ChainFails, Inductive, Typed, screen, queue, counts
<1>2. Free \in Chains /\ Free.todo = <<>> /\ Free.at = "sent"
  BY NothingToDo DEF Free, Chains
<1>3. calls' \in [Call -> Chains] /\ calls'[c] = Free /\ \A d \in Call \ {c} : calls'[d] = calls[d]
  BY <1>1, <1>2 DEF CallsTyped
<1>4. RowsTyped' /\ CallsTyped'
  BY <1>1, <1>2, <1>3 DEF RowsTyped, CallsTyped, First
<1>5. ASSUME NEW m \in Memo, m \notin raced' PROVE Orderly(m)'
  <2>1. Orderly(m) /\ ~Has(c, m) /\ calls[c].todo \in Todos
    BY <1>1, <1>5, ChainParts DEF Inductive, Has
  <2>2. /\ ~Has(c, m)' /\ ~SavesIn(calls[c].todo, m) /\ ~SavesIn(calls'[c].todo, m)
        /\ \A row \in Row : ~EndsWith(calls[c].todo, m, row)
        /\ ~Ran(c, m) /\ ~Ran(c, m)'
    BY <1>2, <1>3, <2>1, NothingToDo, HadWhenNamed DEF Has, Ran
  <2>3. \A d \in Call \ {c} : (Has(d, m)' <=> Has(d, m)) /\ (Ran(d, m)' <=> Ran(d, m))
    BY <1>3 DEF Has, Ran, First
  <2>4. ViewKept(m)
    BY <1>3, <2>1, <2>2, <2>3 DEF ViewKept
  <2>5. QED
    BY <1>1, <2>1, <2>4, Unconcerned DEF IsPending
<1>6. QED
  BY <1>4, <1>5 DEF Inductive, Typed
-----------------------------------------------------------------------------
(* The theorems *)

LEMMA InitInductive == Init => Inductive
<1> SUFFICES ASSUME Init PROVE Inductive
  OBVIOUS
<1>1. Empty \in Row /\ Free \in Chains /\ Free.todo = <<>> /\ Free.at = "sent"
  BY NothingToDo DEF Empty, Row, Free, Chains
<1>2. RowsTyped
  BY <1>1, AutosaveBounds DEF Init, RowsTyped, Waiting
<1>3. calls \in [Call -> Chains] /\ \A c \in Call : calls[c] = Free
  BY <1>1 DEF Init
<1>4. CallsTyped
  BY <1>1, <1>3 DEF CallsTyped
<1>5. ASSUME NEW m \in Memo PROVE Orderly(m)
  <2>1. \A c \in Call : ~Has(c, m) /\ ~Ran(c, m)
    BY <1>1, <1>3, NothingToDo DEF Has, Ran
  <2>2. stored[m] = Empty /\ wanted[m] = Empty /\ shown[m] = Empty /\ ~IsPending(m)
    BY DEF Init, IsPending
  <2>3. Written(m)
    BY <2>2 DEF Written, Kept, Empty
  <2>4. QED
    BY <2>1, <2>2, <2>3 DEF Orderly, Alone, LastWord, Answered, Seen
<1>6. QED
  BY <1>2, <1>4, <1>5 DEF Inductive, Typed

LEMMA NextInductive ==
  ASSUME Inductive, [Next]_vars
  PROVE  Inductive'
<1>1. CASE UNCHANGED vars
  <2>1. UNCHANGED <<stored, shown, pending, calls, edits, wanted, raced, late>>
    BY <1>1 DEF vars, screen, queue, counts, history
  <2>2. Typed'
    BY <2>1 DEF Inductive, Typed, RowsTyped, CallsTyped, First
  <2>3. ASSUME NEW m \in Memo, m \notin raced' PROVE Orderly(m)'
    BY <2>1, <2>3, CallsKept, Unconcerned DEF Inductive, Typed, IsPending
  <2>4. QED
    BY <2>2, <2>3 DEF Inductive
<1>2. ASSUME NEW m \in Memo, QueueSave(m) \/ JumpTo(m) PROVE Inductive'
  BY <1>2, QueueSaveInductive, JumpToInductive
<1>3. ASSUME NEW m \in Memo, NEW c \in Call,
             SelectMemo(m, c) \/ SaveChange(m, c) \/ ArchiveToggle(m, c) \/ Delete(m, c)
      PROVE  Inductive'
  BY <1>3, SelectMemoInductive, SaveChangeInductive, ArchiveToggleInductive, DeleteInductive
<1>4. ASSUME NEW c \in Call, FlushPendingSave(c) \/ Reload(c) \/ Run(c) \/ Fail(c)
      PROVE  Inductive'
  BY <1>4, FlushPendingSaveInductive, ReloadInductive, RunInductive, FailInductive
<1>5. ASSUME NEW c \in Call, Answer(c) PROVE Inductive'
  BY <1>5, SavedInductive, DeletedInductive, ApplyBootstrapInductive,
     FlushFailsInductive, ChainFailsInductive DEF Answer
<1>6. QED
  BY <1>1, <1>2, <1>3, <1>4, <1>5 DEF Next

(* Of every memo whose commands have not collided, the last edit is pending *)
(* or the end of its chain or stored, and the screen shows what is stored   *)
(* or will, whatever the user does, fails or is reloaded.                   *)
THEOREM AlwaysInductive == Spec => []Inductive
BY InitInductive, NextInductive, PTL DEF Spec

(* When all has come to rest the store has the last edit of every memo      *)
(* whose commands have not collided (App.tsx, queueSave, flushPendingSave,  *)
(* handleSave, handleDelete): no save, answer or failed flush loses it.     *)
THEOREM EditsAreWritten == Spec => []LastEditIsWritten
<1>1. Inductive => LastEditIsWritten
  <2> SUFFICES ASSUME Inductive, AtRest, NEW m \in Memo \ raced PROVE Written(m)
    BY DEF LastEditIsWritten
  <2>1. \A c \in Call : m \notin MemosOf(calls[c].todo)
    BY NothingToDo DEF AtRest, Free
  <2>2. QED
    BY <2>1 DEF AtRest, Inductive, Orderly, LastWord, IsPending, Busy
<1>2. QED
  BY <1>1, AlwaysInductive, PTL

(* And the list on the screen is what is stored (replaceMemo,               *)
(* applyBootstrap), but for a memo that a reload brought up as it had been. *)
THEOREM ScreenAgrees == Spec => []ScreenIsStore
<1>1. Inductive => ScreenIsStore
  <2> SUFFICES ASSUME Inductive, AtRest, NEW m \in Memo \ (raced \cup late)
               PROVE  shown[m] = stored[m]
    BY DEF ScreenIsStore
  <2>1. \A c \in Call : calls[c].todo = <<>> /\ ~SavesIn(calls[c].todo, m) /\ ~Ran(c, m)
    BY NothingToDo DEF AtRest, Free, Ran
  <2>2. shown[m] \in Row /\ stored[m] \in Row
    BY DEF Inductive, Typed, RowsTyped
  <2>3. /\ shown[m].content = stored[m].content
        /\ ~(shown[m].deleted # stored[m].deleted)
    BY <2>1 DEF AtRest, Inductive, Orderly, Seen, IsPending
  <2>4. QED
    BY <2>2, <2>3 DEF Row
<1>2. QED
  BY <1>1, AlwaysInductive, PTL
====
