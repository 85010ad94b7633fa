-------------------------- MODULE LocalStoreProofs --------------------------
(***************************************************************************)
(* An edit that the desktop shows is queued or pushed, and nothing of a    *)
(* temporary repository ever is, however commands, sessions and crashes    *)
(* interleave.                                                             *)
(***************************************************************************)
EXTENDS LocalStore, ProjectionProofs, FiniteSetTheorems

-----------------------------------------------------------------------------
(* Some members of a sequence *)

LEMMA FirstNumbers ==
  ASSUME NEW n \in Nat
  PROVE  IsFiniteSet(1..n) /\ Cardinality(1..n) = n
BY FS_Interval

(* How many of a set's members are up to one of them tells which it is.     *)
LEMMA PlacesAreDistinct ==
  ASSUME NEW n \in Nat, NEW P \in SUBSET (1..n)
  PROVE  /\ IsFiniteSet(P) /\ Cardinality(P) \in Nat
         /\ \A i \in P : Cardinality({h \in P : h <= i}) \in 1..Cardinality(P)
         /\ \A i, j \in P : Cardinality({h \in P : h <= i}) = Cardinality({h \in P : h <= j})
                              => i = j
<1> DEFINE Low(i) == {h \in P : h <= i}
<1>1. IsFiniteSet(P) /\ Cardinality(P) \in Nat
  BY FirstNumbers, FS_Subset, FS_CardinalityType
<1>2. ASSUME NEW i \in P
      PROVE  /\ IsFiniteSet(Low(i)) /\ Low(i) # {}
             /\ Cardinality(Low(i)) \in Nat /\ Cardinality(Low(i)) <= Cardinality(P)
  <2>1. Low(i) \in SUBSET P /\ i \in Low(i)
    OBVIOUS
  <2> HIDE DEF Low
  <2>2. IsFiniteSet(Low(i)) /\ Cardinality(Low(i)) <= Cardinality(P)
    BY <1>1, <2>1, FS_Subset
  <2>3. QED
    BY <2>1, <2>2, FS_CardinalityType
<1>3. ASSUME NEW i \in P PROVE Cardinality(Low(i)) \in 1..Cardinality(P)
  <2>1. Cardinality(Low(i)) # 0
    BY <1>2, FS_EmptySet
  <2> HIDE DEF Low
  <2>2. QED
    BY <1>1, <1>2, <2>1
<1>4. ASSUME NEW i \in P, NEW j \in P, i < j PROVE Cardinality(Low(i)) # Cardinality(Low(j))
  <2>1. P \subseteq Nat
    OBVIOUS
  <2>2. Low(i) \in SUBSET Low(j)
    <3>1. \A h \in P : h <= i => h <= j
      BY <1>4, <2>1
    <3>2. QED
      BY <3>1
  <2>3. j \in Low(j) /\ j \notin Low(i)
    BY <1>4, <2>1
  <2> HIDE DEF Low
  <2>4. Low(j) # Low(i)
    BY <2>3
  <2>5. QED
    BY <1>2, <2>2, <2>4, FS_Subset
<1>5. \A i, j \in P : Cardinality(Low(i)) = Cardinality(Low(j)) => i = j
  <2> HIDE DEF Low
  <2>1. \A i, j \in P : i = j \/ i < j \/ j < i
    OBVIOUS
  <2>2. QED
    BY <1>4, <2>1
<1>6. QED
  BY <1>1, <1>3, <1>5

(* Kept is a sequence of exactly the members at the positions, and tells    *)
(* two positions apart.                                                     *)
LEMMA KeptMembers ==
  ASSUME NEW S, NEW s \in Seq(S), NEW P \in SUBSET DOMAIN s
  PROVE  /\ Kept(s, P) \in Seq(S)
         /\ ToSet(Kept(s, P)) = {s[i] : i \in P}
         /\ \A p, q \in DOMAIN Kept(s, P) :
              \E i, j \in P : /\ Kept(s, P)[p] = s[i] /\ Kept(s, P)[q] = s[j]
                              /\ p # q => i # j
<1> DEFINE n == Len(s)
           Place(i) == Cardinality({h \in P : h <= i})
           At(p) == CHOOSE i \in P : Place(i) = p
           m == Cardinality(P)
           place == [i \in P |-> Place(i)]
           k == Kept(s, P)
<1>1. n \in Nat /\ DOMAIN s = 1..n /\ \A i \in 1..n : s[i] \in S
  OBVIOUS
<1>2. /\ IsFiniteSet(P) /\ m \in Nat /\ \A i \in P : Place(i) \in 1..m
      /\ \A i, j \in P : Place(i) = Place(j) => i = j
  <2>1. P \in SUBSET (1..n)
    BY <1>1
  <2>2. QED
    BY <1>1, <2>1, PlacesAreDistinct
<1>3. k = [p \in 1..m |-> s[At(p)]]
  BY DEF Kept
<1> HIDE DEF n, Place, m, k
<1>4. place \in Injection(P, 1..m)
  BY <1>2 DEF Injection, IsInjective
<1>5. place \in Surjection(P, 1..m)
  <2>1. IsFiniteSet(1..m) /\ Cardinality(1..m) = Cardinality(P)
    BY <1>2, FirstNumbers DEF m
  <2> HIDE DEF place
  <2>2. QED
    BY <1>4, <2>1, FS_Injection
<1>6. \A p \in 1..m : At(p) \in P /\ Place(At(p)) = p
  <2>1. \A p \in 1..m : \E i \in P : Place(i) = p
    BY <1>5 DEF Surjection
  <2>2. QED
    BY <2>1
<1> HIDE DEF At
<1>7. \A i \in P : At(Place(i)) = i
  BY <1>2, <1>6
<1>8. \A p \in 1..m : k[p] = s[At(p)] /\ At(p) \in P /\ s[At(p)] \in S
  BY <1>1, <1>3, <1>6
<1>9. k \in Seq(S) /\ DOMAIN k = 1..m
  <2>1. k \in [1..m -> S]
    BY <1>3, <1>8
  <2>2. QED
    BY <1>2, <2>1
<1>10. ToSet(k) = {s[i] : i \in P}
  <2>1. ASSUME NEW i \in P PROVE s[i] \in ToSet(k)
    <3>1. Place(i) \in 1..m /\ k[Place(i)] = s[i]
      BY <1>2, <1>7, <1>8
    <3>2. QED
      BY <1>9, <3>1 DEF ToSet
  <2>2. ToSet(k) \subseteq {s[i] : i \in P}
    BY <1>8, <1>9 DEF ToSet
  <2>3. QED
    BY <2>1, <2>2
<1>11. \A p, q \in 1..m : At(p) = At(q) => p = q
  BY <1>6
<1>12. QED
  BY <1>8, <1>9, <1>10, <1>11 DEF k
-----------------------------------------------------------------------------
(* The inductive invariant                                                  *)

(* Commands whose edit is not queued yet, and those with a number of their  *)
(* own that an operation of theirs will carry, or carries.                  *)
Editing(c) == c.at \in {"stored", "written"}
Numbered(c) == c.at \in {"stored", "written", "stamped"}

(* Operations that are queued, logged, under way in a push or about to be   *)
(* queued.                                                                  *)
Stamped == {command[t].op : t \in {x \in Task : command[x].at = "stamped"}}
Travelling == Sent \cup ToSet(session.batch) \cup Stamped

(* What is true of an operation wherever it is, n commands having been      *)
(* given: an edit of this device's carries the number of its command, and   *)
(* nothing names a temporary repository.                                    *)
SoundOp(n, op) ==
  /\ op \in Operation
  /\ op.id \in 1..n \/ op.id \notin 1..MaxEdits
  /\ op.entity \notin Temporary /\ InRepository(op)
  /\ op.stamp.device = Self /\ op.kind = "upsert" => op.content.repo \notin Temporary
SoundOps == \A op \in Travelling : SoundOp(edits, op)

(* A command knows the repository it writes to; only attachments wait for   *)
(* their bytes; nothing makes a temporary repository a shared one.          *)
SoundEdit(c) ==
  /\ c.kind = "delete" => c.entity \in Memo \cup Attachment /\ c.content = NoContent
  /\ c.kind = "upsert" =>
       /\ c.entity \in Entity /\ c.content \in Content
       /\ c.entity \in Memo \cup Attachment => c.content.repo = c.home /\ c.home \in Repository
       /\ c.entity \in Repository => c.content.repo = None
       /\ c.entity \in Temporary => c.content.text # Shared
SoundCommand(n, c) ==
  /\ Numbered(c) => c.n \in 1..n
  /\ c.at = "stored" => c.entity \in Attachment /\ c.kind = "upsert"
  /\ Editing(c) => SoundEdit(c)
  /\ c.at = "stamped" => c.op.id = c.n
SoundCommands == \A t \in Task : SoundCommand(edits, command[t])

(* A row's version is that of an operation in sent.                         *)
SoundRow(sent, e, row) ==
  row # NoRow =>
    /\ row.version # NoVersion => \E op \in sent : op.entity = e /\ op.stamp = row.version
    /\ e \in Memo \cup Attachment => row.content.repo \in Repository
    /\ e \in Temporary => row.content.text # Shared
Tables(sent) ==
  {tab \in [Entity -> LocalRow \cup {NoRow}] : \A e \in Entity : SoundRow(sent, e, tab[e])}

OwnQueue == edits \in 0..MaxEdits /\ \A op \in ToSet(pending) : op.id \in 1..edits

(* An edit's number is used once: by one command, and by no operation until *)
(* the command stamps it.                                                   *)
NumbersMeetOnce ==
  /\ \A t, u \in Task :
       t # u /\ Numbered(command[t]) /\ Numbered(command[u]) => command[t].n # command[u].n
  /\ \A t \in Task : Editing(command[t]) => \A op \in Travelling : op.id # command[t].n

(* The id of an edit of this device's tells the operation.                  *)
IdsName == \A o, p \in Travelling : o.id = p.id /\ o.id \in 1..MaxEdits => o = p

(* What a session holds of the server's answers is in the log.              *)
SoundSession ==
  /\ session.sequence \in 0..Len(log) /\ session.top \in 0..Len(log)
  /\ session.items \subseteq ToSet(log) /\ \A op \in session.items : op.kind = "upsert"
  /\ ToSet(session.page) \subseteq ToSet(log)
  /\ session.at = "pushAnswered" => \A op \in ToSet(session.batch) : Logged(op)

Inductive ==
  /\ TypeOK /\ table \in Tables(Sent) /\ SoundOps /\ OwnQueue /\ SoundCommands
  /\ NumbersMeetOnce /\ IdsName /\ SoundSession /\ OnePendingPerEntity

-----------------------------------------------------------------------------
(* Rows and tables                                                          *)

(* The payloads that commands write.                                        *)
LEMMA WrittenContents ==
  /\ \A sync \in {Shared, Private} :
       /\ RepositoryContent(sync) \in Content
       /\ RepositoryContent(sync).repo = None /\ RepositoryContent(sync).text = sync
  /\ \A r \in Repository, n \in 0..MaxEdits :
       MemoContent(r, n) \in Content /\ MemoContent(r, n).repo = r
  /\ \A r \in Repository, m \in Memo, n \in 0..MaxEdits :
       /\ AttachmentContent(r, m, n) \in Content
       /\ AttachmentContent(r, m, n).repo = r /\ AttachmentContent(r, m, n).text = n
BY PayloadAssumption DEF RepositoryContent, MemoContent, AttachmentContent, Content, Entity

LEMMA ContentParts ==
  ASSUME NEW c \in Content
  PROVE  c.repo \in Value /\ c.memo \in Value /\ c.text \in Value
BY PayloadAssumption DEF Content

LEMMA SetRow ==
  ASSUME NEW sent, NEW tab \in Tables(sent), NEW e \in Entity,
         NEW row \in LocalRow \cup {NoRow}, SoundRow(sent, e, row)
  PROVE  [tab EXCEPT ![e] = row] \in Tables(sent)
BY DEF Tables

LEMMA MoreSent ==
  ASSUME NEW sent, NEW more, sent \subseteq more, NEW tab \in Tables(sent)
  PROVE  tab \in Tables(more)
BY DEF Tables, SoundRow

LEMMA SeedsSound ==
  ASSUME NEW sent
  PROVE  Seeds \in Tables(sent)
<1>1. /\ RepositoryContent(Shared) \in Content /\ RepositoryContent(Private) \in Content
      /\ MemoContent(Inbox, 0) \in Content /\ MemoContent(Inbox, 0).repo = Inbox
      /\ RepositoryContent(Private).text = Private
  <2>1. 0 \in 0..MaxEdits
    BY StoreBoundAssumption
  <2>2. Inbox \in Repository
    BY SeedAssumption
  <2>3. QED
    BY <2>1, <2>2, WrittenContents
<1>2. /\ Row(RepositoryContent(Shared), NoVersion) \in LocalRow
      /\ Row(RepositoryContent(Private), NoVersion) \in LocalRow
      /\ Row(MemoContent(Inbox, 0), NoVersion) \in LocalRow
  BY <1>1 DEF Row, LocalRow, Flag
<1>3. ASSUME NEW e \in Entity PROVE Seeds[e] \in LocalRow \cup {NoRow}
  BY <1>2 DEF Seeds
<1>4. ASSUME NEW e \in Entity PROVE SoundRow(sent, e, Seeds[e])
  <2>1. CASE e = Inbox
    <3>1. e \in Repository \ Temporary /\ e \notin Memo \cup Attachment
      BY <2>1, SeedAssumption, EntityAssumption
    <3>2. e # Scratch /\ e # Welcome
      BY <3>1, SeedAssumption
    <3>3. Seeds[e] = Row(RepositoryContent(Shared), NoVersion)
      BY <2>1, <3>2 DEF Seeds
    <3>4. QED
      BY <3>1, <3>3 DEF SoundRow, Row
  <2>2. CASE e = Scratch
    <3>1. e \in Repository /\ e \notin Memo \cup Attachment
      BY <2>2, SeedAssumption, TemporaryAssumption, EntityAssumption
    <3>2. e # Inbox /\ e # Welcome
      BY <2>2, <3>1, SeedAssumption
    <3>3. Seeds[e] = Row(RepositoryContent(Private), NoVersion)
      BY <2>2, <3>2 DEF Seeds
    <3>4. QED
      BY <1>1, <3>1, <3>3, PayloadAssumption DEF SoundRow, Row
  <2>3. CASE e = Welcome
    <3>1. e # Inbox /\ e # Scratch /\ e \notin Temporary
      BY <2>3, SeedAssumption, TemporaryAssumption, EntityAssumption
    <3>2. Seeds[e] = Row(MemoContent(Inbox, 0), NoVersion)
      BY <2>3, <3>1 DEF Seeds
    <3>3. QED
      BY <1>1, <3>1, <3>2, SeedAssumption DEF SoundRow, Row
  <2>4. CASE e # Inbox /\ e # Scratch /\ e # Welcome
    BY <2>4 DEF Seeds, SoundRow
  <2>5. QED
    BY <2>1, <2>2, <2>3, <2>4
<1>5. Seeds \in [Entity -> LocalRow \cup {NoRow}]
  <2>1. DOMAIN Seeds = Entity /\ Seeds = [e \in Entity |-> Seeds[e]]
    BY DEF Seeds
  <2>2. QED
    BY <1>3, <2>1
<1>6. QED
  BY <1>4, <1>5 DEF Tables

(* A pulled operation leaves the row it found, or one with its stamp.       *)
LEMMA ApplyRemoteSound ==
  ASSUME NEW sent, NEW op \in sent, NEW n, SoundOp(n, op),
         NEW row \in LocalRow \cup {NoRow}, SoundRow(sent, op.entity, row),
         NEW new, new = ApplyRemote(row, op)
  PROVE  new \in LocalRow \cup {NoRow} /\ SoundRow(sent, op.entity, new)
<1>1. /\ op \in Operation /\ op.stamp \in Stamp /\ op.entity \notin Temporary
      /\ op.kind \in {"upsert", "patch", "delete"}
  BY OperationParts DEF SoundOp
<1>2. CASE new = row
  BY <1>2
<1>3. CASE new # row /\ op.kind = "upsert"
  <2>1. new = [content |-> op.content, deleted |-> op.deleted, version |-> op.stamp]
    BY <1>3 DEF ApplyRemote
  <2>2. op.content \in Content /\ op.deleted \in Flag
    BY <1>1, <1>3, OperationParts
  <2>3. new \in LocalRow
    BY <1>1, <2>1, <2>2 DEF LocalRow
  <2>4. op.entity \in Memo \cup Attachment => op.content.repo \in Repository
    <3>1. "repo" \in DOMAIN op.content
      BY <2>2, PayloadAssumption DEF Content
    <3>2. QED
      BY <1>3, <3>1 DEF SoundOp, InRepository
  <2>5. SoundRow(sent, op.entity, new)
    BY <1>1, <2>1, <2>4 DEF SoundRow
  <2>6. QED
    BY <2>3, <2>5
<1>4. CASE new # row /\ op.kind = "delete"
  <2>1. row # NoRow /\ new = [row EXCEPT !.deleted = "yes", !.version = op.stamp]
    BY <1>4 DEF ApplyRemote, Removed
  <2>2. new \in LocalRow /\ new.version = op.stamp /\ new.content = row.content
    BY <1>1, <2>1 DEF LocalRow, Flag
  <2>3. QED
    BY <1>1, <2>1, <2>2 DEF SoundRow
<1>5. CASE new # row /\ op.kind = "patch"
  <2> DEFINE c == Patched(row.content, op.content)
  <2>1. /\ row # NoRow
        /\ new = [content |-> c, deleted |-> IF op.deleted = "unset" THEN row.deleted ELSE op.deleted,
                  version |-> op.stamp]
    BY <1>5 DEF ApplyRemote
  <2>2. row.content \in Content /\ row.deleted \in Flag
    BY <2>1 DEF LocalRow
  <2>3. op.content \in Patch /\ op.deleted \in Flag \cup {"unset"}
    BY <1>1, <1>5, OperationParts
  <2>4. c \in Content
    BY <2>2, <2>3, PatchedType
  <2>5. new \in LocalRow
    <3> HIDE DEF c
    <3>1. QED
      BY <1>1, <2>1, <2>2, <2>3, <2>4 DEF LocalRow
  <2>6. op.entity \in Memo \cup Attachment => c.repo \in Repository
    <3>1. c.repo = IF "repo" \in DOMAIN op.content THEN op.content.repo ELSE row.content.repo
      BY PayloadAssumption DEF Patched
    <3>2. op.entity \in Memo \cup Attachment => row.content.repo \in Repository
      BY <2>1 DEF SoundRow
    <3> HIDE DEF c
    <3>3. QED
      BY <1>5, <3>1, <3>2 DEF SoundOp, InRepository
  <2> HIDE DEF c
  <2>7. SoundRow(sent, op.entity, new)
    BY <1>1, <2>1, <2>6 DEF SoundRow
  <2>8. QED
    BY <2>5, <2>7
<1>6. QED
  BY <1>1, <1>2, <1>3, <1>4, <1>5

(* So a page of them leaves a sound table.                                  *)
LEMMA PageSound ==
  ASSUME NEW sent, NEW n, table \in Tables(sent), session.page \in Seq(Operation),
         \A op \in ToSet(session.page) : op \in sent /\ SoundOp(n, op)
  PROVE  AfterPage.table \in Tables(sent)
<1> DEFINE m == Len(session.page)
           R == [table: Tables(sent), fits: BOOLEAN]
           first == [table |-> table, fits |-> TRUE]
           step == [i \in 1..m |-> [so \in R |-> Applied(so, session.page[i])]]
<1>1. m \in Nat /\ first \in R
  OBVIOUS
<1>2. ASSUME NEW i \in 1..m, NEW so \in R PROVE Applied(so, session.page[i]) \in R
  <2> DEFINE op == session.page[i]
             row == ApplyRemote(so.table[op.entity], op)
             fits == so.fits /\ (row = so.table[op.entity] \/ Fits(so.table, op.entity, row.content))
  <2>1. op \in sent /\ SoundOp(n, op) /\ op.entity \in Entity
    <3>1. op \in ToSet(session.page)
      BY DEF ToSet
    <3>2. QED
      BY <3>1, OperationParts DEF SoundOp
  <2>2. so.table \in Tables(sent) /\ so.fits \in BOOLEAN
    OBVIOUS
  <2>3. so.table[op.entity] \in LocalRow \cup {NoRow} /\ SoundRow(sent, op.entity, so.table[op.entity])
    BY <2>1, <2>2 DEF Tables
  <2>4. row \in LocalRow \cup {NoRow} /\ SoundRow(sent, op.entity, row)
    <3> HIDE DEF op
    <3>1. QED
      BY <2>1, <2>3, ApplyRemoteSound
  <2>5. fits \in BOOLEAN
    BY Zenon DEF Fits
  <2>6. Applied(so, op) = [table |-> [so.table EXCEPT ![op.entity] = row], fits |-> fits]
    BY DEF Applied
  <2> HIDE DEF op, row, fits
  <2>7. [so.table EXCEPT ![op.entity] = row] \in Tables(sent)
    BY <2>1, <2>2, <2>4, SetRow
  <2>8. Applied(so, op) \in R
    BY <2>5, <2>6, <2>7
  <2>9. QED
    BY <2>8 DEF op
<1>3. step \in [1..m -> [R -> R]]
  BY <1>2
<1>4. PICK f \in [0..m -> R] : Steps(f, m, first, step)
  <2> HIDE DEF m, R, first, step
  <2>1. QED
    BY <1>1, <1>3, StepsExist
<1>5. \A i \in 1..m : f[i - 1] \in R /\ step[i][f[i - 1]] = Applied(f[i - 1], session.page[i])
  <2>1. \A i \in 1..m : i - 1 \in 0..m
    BY <1>1
  <2> HIDE DEF R, first
  <2>2. \A i \in 1..m : f[i - 1] \in R
    BY <2>1
  <2>3. QED
    BY <2>2
<1>6. f = [i \in 0..m |-> IF i = 0 THEN first ELSE Applied(f[i - 1], session.page[i])]
  <2>1. \A i \in 0..m : f[i] = IF i = 0 THEN first ELSE Applied(f[i - 1], session.page[i])
    <3>1. \A i \in 0..m : i # 0 => i \in 1..m
      OBVIOUS
    <3> HIDE DEF step, R, first
    <3>2. QED
      BY <1>4, <1>5, <3>1 DEF Steps
  <2> HIDE DEF R, first
  <2>2. QED
    BY <2>1
<1> DEFINE g == AfterOperations
<1>7. g = [i \in 0..m |-> IF i = 0 THEN first ELSE Applied(g[i - 1], session.page[i])]
  <2> HIDE DEF first
  <2>1. QED
    BY <1>6, Zenon DEF AfterOperations, first
<1>8. g[0] \in R /\ \A i \in 1..m : g[i - 1] \in R => g[i] \in R
  <2> HIDE DEF g, first
  <2>1. 0 \in 0..m /\ \A i \in 1..m : i \in 0..m /\ i # 0
    BY <1>1
  <2> HIDE DEF m
  <2>2. g[0] = first
    BY <1>7, <2>1
  <2>3. \A i \in 1..m : g[i] = Applied(g[i - 1], session.page[i])
    BY <1>7, <2>1
  <2> HIDE DEF R
  <2>4. QED
    BY <1>1, <1>2, <2>2, <2>3
<1>9. \A i \in 0..m : g[i] \in R
  <2> HIDE DEF g, R, m
  <2>1. QED
    BY <1>1, <1>8, StepsStay
<1>10. g[m] \in R
  <2> HIDE DEF g, R
  <2>1. QED
    BY <1>1, <1>9
<1>11. QED
  BY <1>10 DEF AfterPage


(* And so does a snapshot.                                                  *)
LEMMA SnapshotSound ==
  ASSUME NEW sent, NEW n, table \in Tables(sent),
         \A op \in session.items : op \in sent /\ SoundOp(n, op) /\ op.kind = "upsert"
  PROVE  AfterSnapshot \in Tables(sent)
<1>1. BeforeSnapshot \in Tables(sent)
  <2>1. [e \in Entity |-> NoRow] \in Tables(sent)
    BY DEF Tables, SoundRow
  <2>2. QED
    BY <2>1 DEF BeforeSnapshot
<1>2. \A e \in Entity : /\ BeforeSnapshot[e] \in LocalRow \cup {NoRow}
                        /\ SoundRow(sent, e, BeforeSnapshot[e])
  BY <1>1 DEF Tables
<1>3. ASSUME NEW op \in TakenItems
      PROVE  /\ Row(op.content, op.stamp) \in LocalRow
             /\ SoundRow(sent, op.entity, Row(op.content, op.stamp))
  <2>1. op \in sent /\ SoundOp(n, op) /\ op.kind = "upsert"
    BY DEF TakenItems
  <2>2. op.content \in Content /\ op.stamp \in Stamp /\ op.entity \notin Temporary
    BY <2>1, OperationParts DEF SoundOp
  <2>3. op.entity \in Memo \cup Attachment => op.content.repo \in Repository
    <3>1. "repo" \in DOMAIN op.content
      BY <2>2, PayloadAssumption DEF Content
    <3>2. QED
      BY <2>1, <3>1 DEF SoundOp, InRepository
  <2>4. QED
    BY <2>1, <2>2, <2>3 DEF Row, LocalRow, Flag, SoundRow
<1>4. ASSUME NEW e \in Entity
      PROVE  AfterSnapshot[e] \in LocalRow \cup {NoRow} /\ SoundRow(sent, e, AfterSnapshot[e])
  <2>1. CASE \E op \in TakenItems : op.entity = e
    <3> DEFINE op == CHOOSE op \in TakenItems : op.entity = e
    <3>1. op \in TakenItems /\ op.entity = e
      BY <2>1
    <3>2. AfterSnapshot[e] = Row(op.content, op.stamp)
      BY <2>1 DEF AfterSnapshot
    <3> HIDE DEF op
    <3>3. QED
      BY <1>3, <3>1, <3>2
  <2>2. CASE ~\E op \in TakenItems : op.entity = e
    <3>1. AfterSnapshot[e] = BeforeSnapshot[e]
      BY <2>2 DEF AfterSnapshot
    <3>2. QED
      BY <1>2, <3>1
  <2>3. QED
    BY <2>1, <2>2
<1>5. AfterSnapshot \in [Entity -> LocalRow \cup {NoRow}]
  <2>1. AfterSnapshot = [e \in Entity |-> AfterSnapshot[e]]
    BY DEF AfterSnapshot
  <2>2. QED
    BY <1>4, <2>1
<1>6. QED
  BY <1>4, <1>5 DEF Tables

-----------------------------------------------------------------------------
(* What steps have in common                                                *)

LEMMA CommandParts ==
  ASSUME NEW c \in Commands
  PROVE  /\ c.at \in CommandLabels /\ c.n \in Nat /\ c.kind \in {"upsert", "delete"}
         /\ c.entity \in Entity \cup {None} /\ c.content \in Content \cup {NoContent}
         /\ c.home \in Repository \cup {None} /\ c.op \in Operation \cup {NoOp}
         /\ c.keep \in SUBSET Value
         /\ \A at \in CommandLabels : [c EXCEPT !.at = at] \in Commands
BY DEF Commands

LEMMA NoCommandTyped == NoCommand \in Commands /\ NoCommand.at = "idle"
BY DEF NoCommand, Commands, CommandLabels, NoOp

LEMMA NoSessionTyped ==
  /\ NoSession \in Sessions /\ NoSession.at = "off"
  /\ NoSession.batch = <<>> /\ NoSession.items = {} /\ NoSession.page = <<>>
  /\ NoSession.sequence = 0 /\ NoSession.top = 0
BY DEF NoSession, Sessions, SessionLabels

(* What is sound stays so when more commands have been given.               *)
LEMMA LaterSound ==
  ASSUME NEW n \in Nat, NEW m \in Nat, n <= m
  PROVE  /\ \A op : SoundOp(n, op) => SoundOp(m, op)
         /\ \A c : SoundCommand(n, c) => SoundCommand(m, c)
<1>1. 1..n \subseteq 1..m
  OBVIOUS
<1>2. QED
  BY <1>1, Zenon DEF SoundOp, SoundCommand

(* A command is given.                                                      *)
LEMMA GiveSound ==
  ASSUME Inductive, NEW t \in Task, NEW kind, NEW c \in Commands, Ready(t), Give(t, kind, c),
         c.at \in {"written", "stored"}, c.n = edits + 1, SoundCommand(edits + 1, c),
         table' \in Tables(Sent), blobs' \in SUBSET Value
  PROVE  Inductive'
<1>1. /\ edits' = edits + 1 /\ edits < MaxEdits /\ edits \in Nat /\ MaxEdits \in Nat
      /\ command' = [command EXCEPT ![t] = c] /\ command[t].at = "idle"
      /\ UNCHANGED <<pending, cursor, seeded, open, session, log, failures>>
  BY StoreBoundAssumption DEF Ready, Give, Inductive, OwnQueue
<1>2. command \in [Task -> Commands] /\ table' \in [Entity -> LocalRow \cup {NoRow}]
  BY DEF Inductive, TypeOK, Tables
<1>3. TypeOK'
  BY <1>1, <1>2 DEF Inductive, TypeOK
<1>4. command'[t] = c /\ \A u \in Task : u # t => command'[u] = command[u]
  BY <1>1, <1>2
<1>5. Sent' = Sent /\ ToSet(session.batch)' = ToSet(session.batch)
  BY <1>1 DEF Sent
<1>6. Stamped' \subseteq Stamped
  BY <1>4 DEF Stamped
<1>7. Travelling' \subseteq Travelling
  BY <1>5, <1>6 DEF Travelling
<1>8. /\ \A op \in Travelling : SoundOp(edits, op)
      /\ \A u \in Task : SoundCommand(edits, command[u])
  BY DEF Inductive, SoundOps, SoundCommands
<1>9. SoundOps'
  BY <1>1, <1>7, <1>8, LaterSound DEF SoundOps
<1>10. SoundCommands'
  <2>1. \A u \in Task : SoundCommand(edits + 1, command'[u])
    <3>1. \A u \in Task : SoundCommand(edits + 1, command[u])
      BY <1>1, <1>8, LaterSound
    <3>2. QED
      BY <1>4, <3>1
  <2>2. QED
    BY <1>1, <2>1 DEF SoundCommands
<1>11. NumbersMeetOnce'
  <2>1. \A u \in Task : Numbered(command[u]) => command[u].n \in 1..edits
    BY <1>8 DEF SoundCommand
  <2>2. \A op \in Travelling : op.id # edits + 1
    <3>1. edits + 1 \in 1..MaxEdits /\ edits + 1 \notin 1..edits
      BY <1>1
    <3>2. QED
      BY <1>8, <3>1 DEF SoundOp
  <2>3. \A u, v \in Task :
          u # v /\ Numbered(command'[u]) /\ Numbered(command'[v]) => command'[u].n # command'[v].n
    <3>1. \A u \in Task : Numbered(command[u]) => command[u].n # edits + 1
      BY <1>1, <2>1
    <3>2. \A u, v \in Task :
            u # v /\ Numbered(command[u]) /\ Numbered(command[v]) => command[u].n # command[v].n
      BY DEF Inductive, NumbersMeetOnce
    <3>3. QED
      BY <1>4, <3>1, <3>2
  <2>4. \A u \in Task : Editing(command'[u]) => \A op \in Travelling' : op.id # command'[u].n
    <3>1. \A u \in Task : Editing(command[u]) => \A op \in Travelling : op.id # command[u].n
      BY DEF Inductive, NumbersMeetOnce
    <3>2. QED
      BY <1>4, <1>7, <2>2, <3>1
  <2>5. QED
    BY <2>3, <2>4 DEF NumbersMeetOnce
<1>12. IdsName'
  BY <1>7 DEF Inductive, IdsName
<1>13. SoundSession' /\ OnePendingPerEntity' /\ OwnQueue'
  <2>1. SoundSession'
    BY <1>1 DEF Inductive, SoundSession, Logged
  <2>2. OnePendingPerEntity'
    BY <1>1 DEF Inductive, OnePendingPerEntity
  <2>3. OwnQueue'
    BY <1>1 DEF Inductive, OwnQueue
  <2>4. QED
    BY <2>1, <2>2, <2>3
<1>14. table' \in Tables(Sent')
  BY <1>5
<1>15. QED
  BY <1>3, <1>9, <1>10, <1>11, <1>12, <1>13, <1>14 DEF Inductive

(* A step of a command that makes no new operation.                         *)
Settles(c, d) ==
  \/ d = c
  \/ ~Numbered(d)
  \/ c.at = "stored" /\ d = [c EXCEPT !.at = "written"]

LEMMA SettleSound ==
  ASSUME Inductive, UNCHANGED edits, Travelling' \subseteq Travelling,
         \A t \in Task : Settles(command[t], command'[t])
  PROVE  SoundOps' /\ SoundCommands' /\ NumbersMeetOnce' /\ IdsName'
<1>1. /\ \A op \in Travelling : SoundOp(edits, op)
      /\ \A t \in Task : SoundCommand(edits, command[t]) /\ command[t] \in Commands
  BY DEF Inductive, SoundOps, SoundCommands, TypeOK
<1>2. SoundOps'
  BY <1>1 DEF SoundOps
<1>3. ASSUME NEW t \in Task
      PROVE  /\ SoundCommand(edits, command'[t])
             /\ Numbered(command'[t]) => Numbered(command[t]) /\ command'[t].n = command[t].n
             /\ Editing(command'[t]) => Editing(command[t])
  <2> DEFINE c == command[t]
             d == command'[t]
  <2>1. SoundCommand(edits, c) /\ Settles(c, d) /\ c \in Commands
    BY <1>1
  <2>2. SUFFICES /\ SoundCommand(edits, d)
                 /\ Numbered(d) => Numbered(c) /\ d.n = c.n
                 /\ Editing(d) => Editing(c)
    OBVIOUS
  <2> HIDE DEF c, d
  <2>3. CASE d = c
    BY <2>1, <2>3
  <2>4. CASE ~Numbered(d)
    BY <2>4 DEF SoundCommand, Numbered, Editing
  <2>5. CASE c.at = "stored" /\ d = [c EXCEPT !.at = "written"]
    <3>1. /\ d.at = "written" /\ d.n = c.n /\ d.kind = c.kind /\ d.entity = c.entity
          /\ d.content = c.content /\ d.home = c.home /\ d.op = c.op
      BY <2>1, <2>5 DEF Commands
    <3>2. QED
      BY <2>1, <2>5, <3>1 DEF SoundCommand, SoundEdit, Numbered, Editing
  <2>6. QED
    BY <2>1, <2>3, <2>4, <2>5 DEF Settles
<1>4. SoundCommands'
  BY <1>3 DEF SoundCommands
<1>5. NumbersMeetOnce'
  <2>1. \A t, u \in Task :
          t # u /\ Numbered(command'[t]) /\ Numbered(command'[u]) => command'[t].n # command'[u].n
    BY <1>3 DEF Inductive, NumbersMeetOnce
  <2>2. \A t \in Task : Editing(command'[t]) => \A op \in Travelling' : op.id # command'[t].n
    <3>1. \A t \in Task : Editing(command'[t]) => Editing(command[t]) /\ command'[t].n = command[t].n
      BY <1>3 DEF Editing, Numbered
    <3>2. QED
      BY <3>1 DEF Inductive, NumbersMeetOnce
  <2>3. QED
    BY <2>1, <2>2 DEF NumbersMeetOnce
<1>6. IdsName'
  BY DEF Inductive, IdsName
<1>7. QED
  BY <1>2, <1>4, <1>5, <1>6

-----------------------------------------------------------------------------
(* Commands                                                                 *)

LEMMA UpsertParts ==
  ASSUME NEW at \in CommandLabels, NEW n \in Nat, NEW e \in Entity,
         NEW content \in Content, NEW home \in Repository,
         NEW c, c = Upsert(at, n, e, content, home)
  PROVE  /\ c \in Commands /\ c.at = at /\ c.n = n /\ c.kind = "upsert"
         /\ c.entity = e /\ c.content = content /\ c.home = home
<1>1. c = [at |-> at, n |-> n, kind |-> "upsert", entity |-> e, content |-> content,
           home |-> home, op |-> NoOp, keep |-> {}]
  BY DEF Upsert, NoCommand
<1>2. QED
  BY <1>1 DEF Commands

LEMMA DeleteParts ==
  ASSUME NEW n \in Nat, NEW e \in Entity, NEW home \in Repository,
         NEW c, c = Delete(n, e, home)
  PROVE  /\ c \in Commands /\ c.at = "written" /\ c.n = n /\ c.kind = "delete"
         /\ c.entity = e /\ c.content = NoContent /\ c.home = home
<1>1. c = [at |-> "written", n |-> n, kind |-> "delete", entity |-> e, content |-> NoContent,
           home |-> home, op |-> NoOp, keep |-> {}]
  BY DEF Delete, NoCommand
<1>2. QED
  BY <1>1 DEF Commands, CommandLabels

(* Rows as commands write them, and as they mark them deleted.              *)
LEMMA WrittenSound ==
  ASSUME NEW sent, NEW e \in Entity, NEW row \in LocalRow \cup {NoRow}, SoundRow(sent, e, row),
         NEW content \in Content,
         e \in Memo \cup Attachment => content.repo \in Repository,
         e \in Temporary => content.text # Shared
  PROVE  Written(row, content) \in LocalRow /\ SoundRow(sent, e, Written(row, content))
<1> DEFINE v == IF row = NoRow THEN NoVersion ELSE row.version
<1>1. Written(row, content) = [content |-> content, deleted |-> "no", version |-> v]
  BY DEF Written, Row
<1>2. v \in Stamp \cup {NoVersion}
  BY DEF LocalRow
<1>3. v # NoVersion => \E op \in sent : op.entity = e /\ op.stamp = v
  BY DEF SoundRow
<1> HIDE DEF v
<1>4. QED
  BY <1>1, <1>2, <1>3 DEF LocalRow, Flag, SoundRow

LEMMA MarkedSound ==
  ASSUME NEW sent, NEW e \in Entity, NEW row \in LocalRow, SoundRow(sent, e, row)
  PROVE  /\ [row EXCEPT !.deleted = "yes"] \in LocalRow
         /\ SoundRow(sent, e, [row EXCEPT !.deleted = "yes"])
<1> DEFINE new == [row EXCEPT !.deleted = "yes"]
<1>1. new \in LocalRow /\ new.content = row.content /\ new.version = row.version
  BY DEF LocalRow, Flag
<1>2. row # NoRow
  BY NoLocalRowAssumption
<1> HIDE DEF new
<1>3. new \in LocalRow /\ SoundRow(sent, e, new)
  BY <1>1, <1>2 DEF SoundRow
<1>4. QED
  BY <1>3 DEF new

(* A row that is there.                                                     *)
LEMMA PresentRow ==
  ASSUME Inductive, NEW S \in SUBSET Entity, NEW e \in Present(table, S)
  PROVE  /\ e \in S /\ e \in Entity /\ table[e] \in LocalRow /\ SoundRow(Sent, e, table[e])
         /\ e \in Memo \cup Attachment => table[e].content.repo \in Repository
<1>1. e \in S /\ e \in Entity /\ table[e] # NoRow
  BY DEF Present
<1>2. table[e] \in LocalRow \cup {NoRow} /\ SoundRow(Sent, e, table[e])
  BY <1>1 DEF Inductive, Tables
<1>3. QED
  BY <1>1, <1>2 DEF SoundRow

LEMMA NumberOfNext ==
  ASSUME Inductive, edits < MaxEdits
  PROVE  edits + 1 \in Nat /\ edits + 1 \in 0..MaxEdits /\ edits + 1 \in 1..edits + 1
BY StoreBoundAssumption DEF Inductive, OwnQueue

LEMMA SaveMemoInductive ==
  ASSUME Inductive, NEW t \in Task, SaveMemo(t)
  PROVE  Inductive'
<1>0. Ready(t)
  BY DEF SaveMemo
<1>1. PICK m \in Ours(Memo), r \in Present(table, Repository) :
        LET content == MemoContent(r, edits + 1)
        IN /\ Give(t, "saveMemo", Upsert("written", edits + 1, m, content, r))
           /\ table' = [table EXCEPT ![m] = Written(@, content)]
           /\ UNCHANGED blobs
  BY DEF SaveMemo
<1> DEFINE content == MemoContent(r, edits + 1)
           c == Upsert("written", edits + 1, m, content, r)
<1>2. m \in Memo /\ m \in Entity /\ r \in Repository /\ m \notin Repository /\ m \notin Temporary
  BY EntityAssumption, TemporaryAssumption DEF Ours, Present, Entity
<1>3. edits < MaxEdits /\ edits + 1 \in Nat /\ edits + 1 \in 0..MaxEdits /\ edits + 1 \in 1..edits + 1
  BY NumberOfNext, <1>0 DEF Ready
<1>4. content \in Content /\ content.repo = r
  BY <1>2, <1>3, WrittenContents
<1>5. Give(t, "saveMemo", c) /\ table' = [table EXCEPT ![m] = Written(table[m], content)] /\ blobs' = blobs
  BY <1>1
<1> HIDE DEF content
<1>6. /\ c \in Commands /\ c.at = "written" /\ c.n = edits + 1 /\ c.kind = "upsert"
      /\ c.entity = m /\ c.content = content /\ c.home = r
  <2>1. c = Upsert("written", edits + 1, m, content, r)
    OBVIOUS
  <2>2. "written" \in CommandLabels
    BY DEF CommandLabels
  <2> HIDE DEF c
  <2>3. QED
    BY <1>2, <1>3, <1>4, <2>1, <2>2, UpsertParts
<1> HIDE DEF c
<1>7. SoundCommand(edits + 1, c)
  BY <1>2, <1>3, <1>4, <1>6 DEF SoundCommand, SoundEdit
<1>8. table' \in Tables(Sent)
  <2>1. table \in Tables(Sent) /\ table[m] \in LocalRow \cup {NoRow} /\ SoundRow(Sent, m, table[m])
    BY <1>2 DEF Inductive, Tables
  <2>2. Written(table[m], content) \in LocalRow /\ SoundRow(Sent, m, Written(table[m], content))
    BY <1>2, <1>4, <2>1, WrittenSound
  <2>3. QED
    BY <1>2, <1>5, <2>1, <2>2, SetRow
<1>9. blobs' \in SUBSET Value
  BY <1>5 DEF Inductive, TypeOK
<1>10. QED
  BY <1>0, <1>5, <1>6, <1>7, <1>8, <1>9, GiveSound

(* A row of a memo or an attachment is marked deleted.                      *)
LEMMA MarkInductive ==
  ASSUME Inductive, NEW t \in Task, NEW kind, NEW S \in {Memo, Attachment},
         NEW e \in Present(table, S),
         Ready(t), Give(t, kind, Delete(edits + 1, e, table[e].content.repo)),
         MarkDeleted(e), UNCHANGED blobs
  PROVE  Inductive'
<1> DEFINE home == table[e].content.repo
           c == Delete(edits + 1, e, home)
<1>1. S \in SUBSET Entity
  BY DEF Entity
<1>2. /\ e \in Memo \cup Attachment /\ e \in Entity /\ home \in Repository
      /\ table[e] \in LocalRow /\ SoundRow(Sent, e, table[e])
  BY <1>1, PresentRow
<1>3. edits + 1 \in Nat /\ edits + 1 \in 1..edits + 1
  BY NumberOfNext DEF Ready
<1> HIDE DEF home
<1>4. /\ c \in Commands /\ c.at = "written" /\ c.n = edits + 1 /\ c.kind = "delete"
      /\ c.entity = e /\ c.content = NoContent /\ c.home = home
  <2>1. c = Delete(edits + 1, e, home)
    OBVIOUS
  <2> HIDE DEF c
  <2>2. QED
    BY <1>2, <1>3, <2>1, DeleteParts
<1>5. Give(t, kind, c)
  BY DEF home
<1> HIDE DEF c
<1>6. SoundCommand(edits + 1, c)
  BY <1>2, <1>3, <1>4 DEF SoundCommand, SoundEdit
<1>7. table' \in Tables(Sent)
  <2>1. table' = [table EXCEPT ![e] = [table[e] EXCEPT !.deleted = "yes"]]
    BY DEF MarkDeleted
  <2>2. table \in Tables(Sent)
    BY DEF Inductive
  <2>3. /\ [table[e] EXCEPT !.deleted = "yes"] \in LocalRow
        /\ SoundRow(Sent, e, [table[e] EXCEPT !.deleted = "yes"])
    BY <1>2, MarkedSound
  <2>4. QED
    BY <1>2, <2>1, <2>2, <2>3, SetRow
<1>8. blobs' \in SUBSET Value
  BY DEF Inductive, TypeOK
<1>9. QED
  BY <1>4, <1>5, <1>6, <1>7, <1>8, GiveSound

LEMMA DeleteInductive ==
  ASSUME Inductive, NEW t \in Task, DeleteMemo(t) \/ DeleteAttachment(t)
  PROVE  Inductive'
BY MarkInductive DEF DeleteMemo, DeleteAttachment

LEMMA SaveAttachmentInductive ==
  ASSUME Inductive, NEW t \in Task, SaveAttachment(t)
  PROVE  Inductive'
<1>0. Ready(t)
  BY DEF SaveAttachment
<1>1. PICK m \in Present(table, Memo), a \in Ours(Attachment) \ Present(table, Attachment) :
        LET r == table[m].content.repo
            content == AttachmentContent(r, m, edits + 1)
        IN /\ Give(t, "saveAttachment", Upsert("stored", edits + 1, a, content, r))
           /\ blobs' = blobs \cup {content.text}
           /\ UNCHANGED table
  BY DEF SaveAttachment
<1> DEFINE r == table[m].content.repo
           content == AttachmentContent(r, m, edits + 1)
           c == Upsert("stored", edits + 1, a, content, r)
<1>2. /\ a \in Attachment /\ a \in Entity /\ a \notin Repository /\ a \notin Temporary
      /\ m \in Memo /\ r \in Repository
  <2>1. Memo \in SUBSET Entity
    BY DEF Entity
  <2>2. m \in Memo /\ r \in Repository
    BY <2>1, PresentRow
  <2>3. QED
    BY <2>2, EntityAssumption, TemporaryAssumption DEF Ours, Entity
<1>3. edits < MaxEdits /\ edits + 1 \in Nat /\ edits + 1 \in 0..MaxEdits /\ edits + 1 \in 1..edits + 1
  BY NumberOfNext, <1>0 DEF Ready
<1>4. Give(t, "saveAttachment", c) /\ blobs' = blobs \cup {content.text} /\ table' = table
  BY <1>1
<1> HIDE DEF r
<1>5. content \in Content /\ content.repo = r /\ content.text = edits + 1
  BY <1>2, <1>3, WrittenContents
<1> HIDE DEF content
<1>6. /\ c \in Commands /\ c.at = "stored" /\ c.n = edits + 1 /\ c.kind = "upsert"
      /\ c.entity = a /\ c.content = content /\ c.home = r
  <2>1. c = Upsert("stored", edits + 1, a, content, r)
    OBVIOUS
  <2>2. "stored" \in CommandLabels
    BY DEF CommandLabels
  <2> HIDE DEF c
  <2>3. QED
    BY <1>2, <1>3, <1>5, <2>1, <2>2, UpsertParts
<1> HIDE DEF c
<1>7. SoundCommand(edits + 1, c)
  BY <1>2, <1>3, <1>5, <1>6 DEF SoundCommand, SoundEdit
<1>8. table' \in Tables(Sent)
  BY <1>4 DEF Inductive
<1>9. blobs' \in SUBSET Value
  BY <1>4, <1>5, ContentParts DEF Inductive, TypeOK
<1>10. QED
  BY <1>0, <1>4, <1>6, <1>7, <1>8, <1>9, GiveSound

LEMMA SaveRepositoryInductive ==
  ASSUME Inductive, NEW t \in Task, SaveRepository(t)
  PROVE  Inductive'
<1>0. Ready(t)
  BY DEF SaveRepository
<1>1. PICK r \in Ours(Repository), sync \in {Shared, Private} :
        LET content == RepositoryContent(Share(r, sync))
        IN /\ Give(t, IF table[r] = NoRow THEN "createRepository" ELSE "updateRepository",
                   Upsert("written", edits + 1, r, content, r))
           /\ table' = [table EXCEPT ![r] = Written(@, content)]
           /\ UNCHANGED blobs
  BY DEF SaveRepository
<1> DEFINE content == RepositoryContent(Share(r, sync))
           kind == IF table[r] = NoRow THEN "createRepository" ELSE "updateRepository"
           c == Upsert("written", edits + 1, r, content, r)
<1>2. r \in Repository /\ r \in Entity /\ r \notin Memo \cup Attachment
  BY EntityAssumption DEF Ours, Entity
<1>3. edits + 1 \in Nat /\ edits + 1 \in 1..edits + 1
  BY NumberOfNext, <1>0 DEF Ready
<1>4. Share(r, sync) \in {Shared, Private} /\ (r \in Temporary => Share(r, sync) = Private)
  BY DEF Share
<1>5. Give(t, kind, c) /\ table' = [table EXCEPT ![r] = Written(table[r], content)] /\ blobs' = blobs
  BY <1>1
<1>6. content \in Content /\ content.repo = None /\ (r \in Temporary => content.text # Shared)
  BY <1>4, WrittenContents, PayloadAssumption
<1> HIDE DEF content, kind
<1>7. /\ c \in Commands /\ c.at = "written" /\ c.n = edits + 1 /\ c.kind = "upsert"
      /\ c.entity = r /\ c.content = content /\ c.home = r
  <2>1. c = Upsert("written", edits + 1, r, content, r)
    OBVIOUS
  <2>2. "written" \in CommandLabels
    BY DEF CommandLabels
  <2> HIDE DEF c
  <2>3. QED
    BY <1>2, <1>3, <1>6, <2>1, <2>2, UpsertParts
<1> HIDE DEF c
<1>8. SoundCommand(edits + 1, c)
  BY <1>2, <1>3, <1>6, <1>7 DEF SoundCommand, SoundEdit
<1>9. table' \in Tables(Sent)
  <2>1. table \in Tables(Sent) /\ table[r] \in LocalRow \cup {NoRow} /\ SoundRow(Sent, r, table[r])
    BY <1>2 DEF Inductive, Tables
  <2>2. Written(table[r], content) \in LocalRow /\ SoundRow(Sent, r, Written(table[r], content))
    BY <1>2, <1>6, <2>1, WrittenSound
  <2>3. QED
    BY <1>2, <1>5, <2>1, <2>2, SetRow
<1>10. blobs' \in SUBSET Value
  BY <1>5 DEF Inductive, TypeOK
<1>11. QED
  BY <1>0, <1>5, <1>7, <1>8, <1>9, <1>10, GiveSound


(* A command's step that queues nothing.                                    *)
LEMMA CommandStep ==
  ASSUME Inductive, NEW t \in Task, NEW d \in Commands, Settles(command[t], d),
         command' = [command EXCEPT ![t] = d],
         UNCHANGED <<pending, cursor, seeded, open, session, log, edits>>,
         failures' \in Nat, table' \in Tables(Sent), blobs' \in SUBSET Value
  PROVE  Inductive'
<1>1. command \in [Task -> Commands] /\ table' \in [Entity -> LocalRow \cup {NoRow}]
  BY DEF Inductive, TypeOK, Tables
<1>2. command'[t] = d /\ \A u \in Task : u # t => command'[u] = command[u]
  BY <1>1
<1>3. TypeOK'
  BY <1>1 DEF Inductive, TypeOK
<1>4. Sent' = Sent
  BY DEF Sent
<1>5. Stamped' \subseteq Stamped
  <2>1. d.at = "stamped" => d = command[t]
    <3> DEFINE c == command[t]
    <3>1. c \in Commands /\ Settles(c, d)
      BY <1>1
    <3> HIDE DEF c
    <3>2. d.at = "stamped" => d = c
      BY <3>1 DEF Settles, Numbered, Commands
    <3>3. QED
      BY <3>2 DEF c
  <2>2. \A u \in Task : command'[u].at = "stamped" => command'[u] = command[u]
    BY <1>2, <2>1
  <2>3. QED
    BY <2>2 DEF Stamped
<1>6. Travelling' \subseteq Travelling
  BY <1>4, <1>5 DEF Travelling
<1>7. \A u \in Task : Settles(command[u], command'[u])
  BY <1>2 DEF Settles
<1>8. SoundOps' /\ SoundCommands' /\ NumbersMeetOnce' /\ IdsName'
  BY <1>6, <1>7, SettleSound
<1>9. SoundSession'
  BY DEF Inductive, SoundSession, Logged
<1>10. OnePendingPerEntity' /\ OwnQueue'
  BY DEF Inductive, OnePendingPerEntity, OwnQueue
<1>11. QED
  BY <1>3, <1>4, <1>8, <1>9, <1>10 DEF Inductive

LEMMA Unsettled ==
  ASSUME Inductive
  PROVE  /\ table \in Tables(Sent) /\ blobs \in SUBSET Value /\ failures \in Nat
         /\ \A t \in Task : command[t] \in Commands /\ SoundCommand(edits, command[t])
         /\ \A c : Settles(c, NoCommand)
BY NoCommandTyped DEF Inductive, TypeOK, SoundCommands, Settles, Numbered

LEMMA InsertAttachmentInductive ==
  ASSUME Inductive, NEW t \in Task, InsertAttachment(t)
  PROVE  Inductive'
<1> DEFINE c == command[t]
           e == c.entity
           d == [c EXCEPT !.at = "written"]
<1>1. /\ c \in Commands /\ SoundCommand(edits, c) /\ c.at = "stored"
      /\ UNCHANGED <<blobs, pending, cursor, seeded, open, session, log, edits, failures>>
  BY Unsettled DEF InsertAttachment
<1>2. CASE Fits(table, c.entity, c.content)
  <2>1. table' = [table EXCEPT ![e] = Written(table[e], c.content)] /\ command' = [command EXCEPT ![t] = d]
    BY <1>2 DEF InsertAttachment
  <2>2. d \in Commands
    BY <1>1, CommandParts DEF CommandLabels
  <2>3. Settles(c, d)
    BY <1>1 DEF Settles
  <2>4. e \in Attachment /\ e \in Entity /\ e \notin Temporary /\ c.kind = "upsert"
    BY <1>1, EntityAssumption, TemporaryAssumption DEF SoundCommand, Entity
  <2>5. c.content \in Content /\ c.content.repo \in Repository
    BY <1>1, <2>4 DEF SoundCommand, SoundEdit, Editing
  <2> DEFINE content == c.content
  <2> HIDE DEF d, e, content
  <2>6. table' \in Tables(Sent)
    <3>1. table \in Tables(Sent) /\ table[e] \in LocalRow \cup {NoRow} /\ SoundRow(Sent, e, table[e])
      BY <2>4 DEF Inductive, Tables
    <3>2. /\ Written(table[e], content) \in LocalRow
          /\ SoundRow(Sent, e, Written(table[e], content))
      BY <2>4, <2>5, <3>1, WrittenSound DEF content
    <3>3. QED
      BY <2>1, <2>4, <3>1, <3>2, SetRow DEF content
  <2>7. QED
    BY <1>1, <2>1, <2>2, <2>3, <2>6, Unsettled, CommandStep
<1>3. CASE ~Fits(table, c.entity, c.content)
  <2>1. command' = [command EXCEPT ![t] = NoCommand] /\ table' = table
    BY <1>3 DEF InsertAttachment
  <2>2. QED
    BY <1>1, <2>1, Unsettled, NoCommandTyped, CommandStep
<1>4. QED
  BY <1>2, <1>3

(* What Become makes of a command that is on its way out.                   *)
LEMMA BecomeSettles ==
  ASSUME NEW c \in Commands, NEW at \in {"idle", "sweepRead", "sweep"},
         NEW d, d = IF at = "idle" THEN NoCommand ELSE [c EXCEPT !.at = at]
  PROVE  d \in Commands /\ d.at = at /\ ~Numbered(d) /\ Settles(c, d)
<1>1. CASE at = "idle"
  BY <1>1, NoCommandTyped DEF Numbered, Settles
<1>2. CASE at # "idle"
  <2>1. d = [c EXCEPT !.at = at] /\ at \in CommandLabels
    BY <1>2 DEF CommandLabels
  <2>2. d \in Commands /\ d.at = at
    BY <2>1 DEF Commands
  <2>3. QED
    BY <1>2, <2>2 DEF Numbered, Settles
<1>3. QED
  BY <1>1, <1>2

LEMMA HashesAreValues ==
  ASSUME TypeOK
  PROVE  PendingHashes \in SUBSET Value
<1>1. ASSUME NEW j \in DOMAIN pending, pending[j].kind = "upsert"
      PROVE  pending[j].content.text \in Value
  <2>1. pending[j] \in Operation
    BY DEF TypeOK
  <2>2. pending[j].content \in Content
    BY <1>1, <2>1, OperationParts
  <2>3. QED
    BY <2>2, ContentParts
<1>2. QED
  BY <1>1 DEF PendingHashes

LEMMA SweepCommandInductive ==
  ASSUME Inductive, NEW t \in Task, SweepCommand(t)
  PROVE  Inductive'
<1> DEFINE c == command[t]
<1>1. c \in Commands /\ UNCHANGED <<table, pending, cursor, seeded, open, session, log, edits, failures>>
  BY Unsettled DEF SweepCommand
<1>2. CASE c.at = "sweepRead"
  <2> DEFINE k == [c EXCEPT !.keep = PendingHashes]
             d == [k EXCEPT !.at = "sweep"]
  <2>1. command' = [command EXCEPT ![t] = d] /\ blobs' = blobs
    BY <1>2 DEF SweepCommand, Become
  <2>2. PendingHashes \in SUBSET Value
    BY HashesAreValues DEF Inductive
  <2>3. k \in Commands
    BY <1>1, <2>2 DEF Commands
  <2> HIDE DEF k
  <2>4. d \in Commands /\ d.at = "sweep"
    BY <2>3, CommandParts DEF CommandLabels, Commands
  <2> HIDE DEF d
  <2>5. Settles(c, d)
    BY <2>4 DEF Settles, Numbered
  <2>6. QED
    BY <1>1, <2>1, <2>4, <2>5, Unsettled, CommandStep
<1>3. CASE c.at = "sweep"
  <2>1. command' = [command EXCEPT ![t] = NoCommand] /\ blobs' \subseteq blobs
    BY <1>3 DEF SweepCommand, Become, Swept
  <2>2. blobs' \in SUBSET Value
    BY <2>1, Unsettled
  <2>3. QED
    BY <1>1, <2>1, <2>2, Unsettled, NoCommandTyped, CommandStep
<1>4. QED
  BY <1>2, <1>3 DEF SweepCommand

LEMMA FailCommandInductive ==
  ASSUME Inductive, NEW t \in Task, FailCommand(t)
  PROVE  Inductive'
<1>1. /\ command' = [command EXCEPT ![t] = NoCommand] /\ failures' = failures + 1
      /\ UNCHANGED <<table, blobs, pending, cursor, seeded, open, session, log, edits>>
  BY DEF FailCommand
<1>2. failures' \in Nat
  BY <1>1, Unsettled
<1>3. QED
  BY <1>1, <1>2, Unsettled, NoCommandTyped, CommandStep

(* The operation of an edit of this device's.                               *)
EditOperation(c, w) ==
  [id |-> c.n, kind |-> c.kind, entity |-> c.entity, content |-> c.content,
   deleted |-> IF c.kind = "delete" THEN "yes" ELSE "no",
   stamp |-> [wall |-> w, counter |-> 0, device |-> Self]]

LEMMA EditOperationTyped ==
  ASSUME NEW c \in Commands, c.n \in 1..MaxEdits, SoundEdit(c), NEW w \in 1..MaxWall
  PROVE  EditOperation(c, w) \in Operation
<1>1. c.n \in OpId
  BY OthersAssumption
<1>2. [wall |-> w, counter |-> 0, device |-> Self] \in Stamp
  BY SelfAssumption, StoreBoundAssumption DEF Stamp, MaxCounter
<1> DEFINE s == [wall |-> w, counter |-> 0, device |-> Self]
           op == EditOperation(c, w)
<1> HIDE DEF s
<1>3. CASE c.kind = "delete"
  <2>1. op = [id |-> c.n, kind |-> "delete", entity |-> c.entity, content |-> NoContent,
              deleted |-> "yes", stamp |-> s]
    BY <1>3 DEF EditOperation, SoundEdit, s
  <2>2. c.entity \in Memo \cup Attachment /\ s \in Stamp
    BY <1>2, <1>3 DEF SoundEdit, s
  <2> HIDE DEF op
  <2>3. op \in [id: OpId, kind: {"delete"}, entity: Memo \cup Attachment,
                content: {NoContent}, deleted: {"yes"}, stamp: Stamp]
    BY <1>1, <2>1, <2>2
  <2>4. op \in Operation
    BY <2>3 DEF Operation
  <2>5. QED
    BY <2>4 DEF op
<1>4. CASE c.kind = "upsert"
  <2>1. op = [id |-> c.n, kind |-> "upsert", entity |-> c.entity, content |-> c.content,
              deleted |-> "no", stamp |-> s]
    BY <1>4 DEF EditOperation, s
  <2>2. c.entity \in Entity /\ c.content \in Content /\ s \in Stamp
    BY <1>2, <1>4 DEF SoundEdit, s
  <2> HIDE DEF op
  <2>3. CASE c.entity \in Repository
    <3>1. op \in [id: OpId, kind: {"upsert"}, entity: Repository, content: Content,
                  deleted: {"no"}, stamp: Stamp]
      BY <1>1, <2>1, <2>2, <2>3
    <3>2. op \in Operation
      BY <3>1 DEF Operation
    <3>3. QED
      BY <3>2 DEF op
  <2>4. CASE c.entity \in Memo \cup Attachment
    <3>1. op \in [id: OpId, kind: {"upsert"}, entity: Memo \cup Attachment, content: Content,
                  deleted: Flag, stamp: Stamp]
      BY <1>1, <2>1, <2>2, <2>4 DEF Flag
    <3>2. op \in Operation
      BY <3>1 DEF Operation
    <3>3. QED
      BY <3>2 DEF op
  <2>5. QED
    BY <2>2, <2>3, <2>4 DEF Entity
<1>5. QED
  BY <1>3, <1>4, CommandParts

LEMMA EditOperationSound ==
  ASSUME Inductive, NEW t \in Task, command[t].at = "written", SyncEnabled(command[t]),
         NEW w \in 1..MaxWall
  PROVE  SoundOp(edits, EditOperation(command[t], w))
<1> DEFINE c == command[t]
           op == EditOperation(c, w)
<1>1. c \in Commands /\ SoundCommand(edits, c) /\ c.at = "written"
  BY Unsettled
<1>2. SyncEnabled(c)
  OBVIOUS
<1> HIDE DEF c
<1>3. c.n \in 1..edits /\ SoundEdit(c) /\ c.kind \in {"upsert", "delete"}
  BY <1>1, CommandParts DEF SoundCommand, Numbered, Editing
<1>4. edits \in 0..MaxEdits /\ MaxEdits \in Nat
  BY StoreBoundAssumption DEF Inductive, OwnQueue
<1>5. c.n \in 1..MaxEdits
  BY <1>3, <1>4
<1>6. op \in Operation
  BY <1>1, <1>3, <1>5, EditOperationTyped
<1>7. op.id = c.n /\ op.kind = c.kind /\ op.entity = c.entity /\ op.content = c.content
  BY DEF EditOperation
<1> HIDE DEF op
<1>8. c.entity \notin Temporary
  <2>1. SUFFICES ASSUME c.entity \in Temporary PROVE FALSE
    OBVIOUS
  <2>2. c.entity \in Repository /\ c.entity \notin Memo \cup Attachment
    BY <2>1, TemporaryAssumption, EntityAssumption
  <2>3. c.content.text = Shared
    BY <1>2, <2>2 DEF SyncEnabled
  <2>4. QED
    BY <1>3, <2>1, <2>2, <2>3 DEF SoundEdit
<1>9. InRepository(op)
  BY <1>3, <1>7 DEF InRepository, SoundEdit
<1>10. c.kind = "upsert" => c.content.repo \notin Temporary
  <2>1. SUFFICES ASSUME c.kind = "upsert" PROVE c.content.repo \notin Temporary
    OBVIOUS
  <2>2. CASE c.entity \in Repository
    <3>1. None \notin Temporary
      BY PayloadAssumption, TemporaryAssumption DEF Entity
    <3>2. QED
      BY <1>3, <2>1, <2>2, <3>1 DEF SoundEdit
  <2>3. CASE c.entity \in Memo \cup Attachment
    <3>1. c.entity \notin Repository /\ c.content.repo = c.home /\ c.home \in Entity
      BY <1>3, <2>1, <2>3, EntityAssumption DEF SoundEdit, Entity
    <3>2. table[c.home] # NoRow /\ table[c.home].content.text = Shared
      BY <1>2, <3>1 DEF SyncEnabled
    <3>3. SoundRow(Sent, c.home, table[c.home])
      BY <3>1 DEF Inductive, Tables
    <3>4. QED
      BY <3>1, <3>2, <3>3 DEF SoundRow
  <2>4. QED
    BY <1>3, <2>1, <2>2, <2>3 DEF SoundEdit, Entity
<1>11. SoundOp(edits, op)
  BY <1>3, <1>6, <1>7, <1>8, <1>9, <1>10 DEF SoundOp
<1>12. QED
  BY <1>11 DEF op, c

StampedWith(c, op) == [[c EXCEPT !.op = op] EXCEPT !.at = "stamped"]

LEMMA StampedParts ==
  ASSUME NEW c \in Commands, NEW op \in Operation, NEW d, d = StampedWith(c, op)
  PROVE  d \in Commands /\ d.at = "stamped" /\ d.n = c.n /\ d.op = op
<1>1. d = [[c EXCEPT !.op = op] EXCEPT !.at = "stamped"]
  BY DEF StampedWith
<1>2. QED
  BY <1>1 DEF Commands, CommandLabels


LEMMA StampEditInductive ==
  ASSUME Inductive, NEW t \in Task, StampEdit(t)
  PROVE  Inductive'
<1> DEFINE c == command[t]
<1>1. /\ c \in Commands /\ SoundCommand(edits, c) /\ c.at = "written"
      /\ UNCHANGED <<table, blobs, pending, cursor, seeded, open, session, log, edits, failures>>
  BY Unsettled DEF StampEdit
<1>2. CASE ~SyncEnabled(c)
  <2> DEFINE at == AfterEdit(c)
             d == IF at = "idle" THEN NoCommand ELSE [c EXCEPT !.at = at]
  <2>1. command' = [command EXCEPT ![t] = d]
    BY <1>2 DEF StampEdit, Become
  <2>2. at \in {"idle", "sweepRead", "sweep"}
    BY DEF AfterEdit
  <2> HIDE DEF at
  <2>3. d \in Commands /\ Settles(c, d)
    BY <1>1, <2>2, BecomeSettles
  <2> HIDE DEF d
  <2>4. QED
    BY <1>1, <2>1, <2>3, Unsettled, CommandStep
<1>3. CASE SyncEnabled(c)
  <2>1. PICK w \in 1..MaxWall : Become(t, [c EXCEPT !.op = EditOperation(c, w)], "stamped")
    BY <1>3 DEF StampEdit, EditOperation
  <2> DEFINE op == EditOperation(c, w)
             d == StampedWith(c, op)
  <2>2. command' = [command EXCEPT ![t] = d]
    BY <2>1 DEF Become, StampedWith
  <2>3. SoundOp(edits, op)
    BY <1>1, <1>3, EditOperationSound
  <2>4. op \in Operation /\ op.id = c.n
    BY <2>3 DEF SoundOp, EditOperation
  <2> HIDE DEF op
  <2>5. d \in Commands /\ d.at = "stamped" /\ d.n = c.n /\ d.op = op
    <3>1. c \in Commands /\ d = StampedWith(c, op)
      BY <1>1
    <3> HIDE DEF c, d
    <3>2. QED
      BY <2>4, <3>1, StampedParts
  <2> HIDE DEF d
  <2>6. command \in [Task -> Commands]
    BY DEF Inductive, TypeOK
  <2>7. command'[t] = d /\ \A u \in Task : u # t => command'[u] = command[u]
    BY <2>2, <2>6
  <2>8. TypeOK'
    BY <1>1, <2>2, <2>5, <2>6 DEF Inductive, TypeOK
  <2>9. Sent' = Sent /\ ToSet(session.batch)' = ToSet(session.batch)
    BY <1>1 DEF Sent
  <2>10. Stamped' \subseteq Stamped \cup {op}
    BY <2>5, <2>7 DEF Stamped
  <2>11. Travelling' \subseteq Travelling \cup {op}
    BY <2>9, <2>10 DEF Travelling
  <2>12. /\ c.n \in 1..edits /\ Editing(c) /\ Numbered(c)
         /\ \A o \in Travelling : o.id # c.n
         /\ \A u \in Task : u # t /\ Numbered(command[u]) => command[u].n # c.n
    <3>1. Editing(c) /\ Numbered(c)
      BY <1>1 DEF Editing, Numbered
    <3>2. c.n \in 1..edits
      BY <1>1, <3>1 DEF SoundCommand
    <3>3. QED
      BY <3>1, <3>2 DEF Inductive, NumbersMeetOnce
  <2>13. SoundOps'
    BY <1>1, <2>3, <2>11 DEF Inductive, SoundOps
  <2>14. SoundCommands'
    <3>1. SoundCommand(edits, d)
      BY <2>4, <2>5, <2>12 DEF SoundCommand, Editing
    <3>2. \A u \in Task : SoundCommand(edits, command'[u])
      BY <2>7, <3>1, Unsettled
    <3>3. QED
      BY <1>1, <3>2 DEF SoundCommands
  <2>15. NumbersMeetOnce'
    <3>1. \A u, v \in Task :
            u # v /\ Numbered(command'[u]) /\ Numbered(command'[v]) => command'[u].n # command'[v].n
      <4>1. \A u, v \in Task :
              u # v /\ Numbered(command[u]) /\ Numbered(command[v]) => command[u].n # command[v].n
        BY DEF Inductive, NumbersMeetOnce
      <4>2. QED
        BY <2>5, <2>7, <2>12, <4>1
    <3>2. ASSUME NEW u \in Task, Editing(command'[u]), NEW o \in Travelling'
          PROVE  o.id # command'[u].n
      <4>1. u # t
        BY <2>5, <2>7, <3>2 DEF Editing
      <4>2. command'[u] = command[u] /\ Editing(command[u]) /\ Numbered(command[u])
        BY <2>7, <3>2, <4>1 DEF Editing, Numbered
      <4>3. \A p \in Travelling : p.id # command[u].n
        BY <4>2 DEF Inductive, NumbersMeetOnce
      <4>4. op.id # command[u].n
        BY <2>4, <2>12, <4>1, <4>2
      <4>5. QED
        BY <2>11, <4>2, <4>3, <4>4
    <3>3. QED
      BY <3>1, <3>2 DEF NumbersMeetOnce
  <2>16. IdsName'
    <3>1. \A o, p \in Travelling \cup {op} : o.id = p.id /\ o.id \in 1..MaxEdits => o = p
      <4>1. \A o, p \in Travelling : o.id = p.id /\ o.id \in 1..MaxEdits => o = p
        BY DEF Inductive, IdsName
      <4>2. QED
        BY <2>4, <2>12, <4>1
    <3>2. QED
      BY <2>11, <3>1 DEF IdsName
  <2>17. SoundSession' /\ OnePendingPerEntity' /\ OwnQueue'
    BY <1>1 DEF Inductive, SoundSession, Logged, OnePendingPerEntity, OwnQueue
  <2>18. table' \in Tables(Sent')
    BY <1>1, <2>9 DEF Inductive
  <2>19. QED
    BY <2>8, <2>13, <2>14, <2>15, <2>16, <2>17, <2>18 DEF Inductive
<1>4. QED
  BY <1>2, <1>3

(* An operation that is queued takes the place of its entity's, or the last.*)
LEMMA QueuedParts ==
  ASSUME NEW q \in Seq(Operation), NEW op \in Operation,
         \A i, j \in DOMAIN q : q[i].entity = q[j].entity => i = j,
         NEW r, r = Queued(q, op)
  PROVE  /\ r \in Seq(Operation)
         /\ ToSet(r) \subseteq ToSet(q) \cup {op} /\ op \in ToSet(r)
         /\ \A o \in ToSet(q) : o.entity # op.entity => o \in ToSet(r)
         /\ \A i, j \in DOMAIN r : r[i].entity = r[j].entity => i = j
<1> DEFINE n == Len(q)
<1>1. n \in Nat /\ DOMAIN q = 1..n /\ \A i \in 1..n : q[i] \in Operation
  OBVIOUS
<1>2. CASE \E i \in DOMAIN q : q[i].entity = op.entity
  <2>1. r = [i \in 1..n |-> IF q[i].entity = op.entity THEN op ELSE q[i]]
    BY <1>1, <1>2 DEF Queued
  <2>2. r \in Seq(Operation) /\ DOMAIN r = 1..n
    <3>1. r \in [1..n -> Operation]
      BY <1>1, <2>1
    <3>2. QED
      BY <1>1, <3>1
  <2> HIDE DEF n
  <2>3. \A i \in 1..n : r[i] = (IF q[i].entity = op.entity THEN op ELSE q[i])
                        /\ r[i].entity = q[i].entity
    BY <2>1
  <2>4. ToSet(r) \subseteq ToSet(q) \cup {op}
    BY <1>1, <2>2, <2>3 DEF ToSet
  <2>5. op \in ToSet(r)
    BY <1>1, <1>2, <2>2, <2>3 DEF ToSet
  <2>6. \A o \in ToSet(q) : o.entity # op.entity => o \in ToSet(r)
    BY <1>1, <2>2, <2>3 DEF ToSet
  <2>7. \A i, j \in DOMAIN r : r[i].entity = r[j].entity => i = j
    BY <1>1, <2>2, <2>3
  <2>8. QED
    BY <2>2, <2>4, <2>5, <2>6, <2>7
<1>3. CASE ~\E i \in DOMAIN q : q[i].entity = op.entity
  <2>1. r = Append(q, op)
    BY <1>3 DEF Queued
  <2>2. /\ r \in Seq(Operation) /\ DOMAIN r = 1..n + 1 /\ r[n + 1] = op
        /\ \A i \in 1..n : r[i] = q[i]
    BY <1>1, <2>1
  <2>3. ToSet(r) \subseteq ToSet(q) \cup {op}
    <3>1. \A i \in 1..n + 1 : i \in 1..n \/ i = n + 1
      BY <1>1
    <3> HIDE DEF n
    <3>2. QED
      BY <1>1, <2>2, <3>1 DEF ToSet
  <2>4. op \in ToSet(r) /\ ToSet(q) \subseteq ToSet(r)
    <3>1. n + 1 \in 1..n + 1 /\ \A i \in 1..n : i \in 1..n + 1
      BY <1>1
    <3> HIDE DEF n
    <3>2. QED
      BY <1>1, <2>2, <3>1 DEF ToSet
  <2>5. \A i, j \in DOMAIN r : r[i].entity = r[j].entity => i = j
    <3>1. \A i \in 1..n + 1 : i \in 1..n \/ i = n + 1
      BY <1>1
    <3> HIDE DEF n
    <3>2. QED
      BY <1>1, <1>3, <2>2, <3>1
  <2>6. QED
    BY <2>2, <2>3, <2>4, <2>5
<1>4. QED
  BY <1>2, <1>3

(* The row takes the version of the operation that was queued for it, in    *)
(* whose place no other is lost.                                            *)
LEMMA VersionedSound ==
  ASSUME NEW sent, NEW tab \in Tables(sent), NEW op \in Operation,
         NEW more, op \in more, \A o \in sent : o.entity # op.entity => o \in more
  PROVE  Versioned(tab, op) \in Tables(more)
<1> DEFINE e == op.entity
           new == [tab[e] EXCEPT !.version = op.stamp]
           v == Versioned(tab, op)
<1>1. e \in Entity /\ op.stamp \in Stamp
  BY OperationParts
<1>2. tab \in [Entity -> LocalRow \cup {NoRow}] /\ \A x \in Entity : SoundRow(sent, x, tab[x])
  BY DEF Tables
<1>3. ASSUME NEW x \in Entity, x # e PROVE SoundRow(more, x, tab[x])
  BY <1>2, <1>3 DEF SoundRow
<1>4. CASE tab[e] = NoRow
  <2>1. v = tab
    BY <1>4 DEF Versioned
  <2>2. SoundRow(more, e, tab[e])
    BY <1>4 DEF SoundRow
  <2> HIDE DEF e, v
  <2>3. v \in Tables(more)
    BY <1>2, <1>3, <2>1, <2>2 DEF Tables
  <2>4. QED
    BY <2>3 DEF v
<1>5. CASE tab[e] # NoRow
  <2>1. v = [tab EXCEPT ![e] = new]
    BY <1>5 DEF Versioned
  <2>2. tab[e] \in LocalRow
    BY <1>1, <1>2, <1>5
  <2>3. new \in LocalRow /\ new.content = tab[e].content /\ new.version = op.stamp
    BY <1>1, <2>2 DEF LocalRow
  <2> HIDE DEF new
  <2>4. SoundRow(more, e, new)
    BY <1>1, <1>2, <1>5, <2>3 DEF SoundRow
  <2> HIDE DEF e, v
  <2>5. v[e] = new /\ \A x \in Entity : x # e => v[x] = tab[x]
    BY <1>1, <1>2, <2>1
  <2>6. v \in [Entity -> LocalRow \cup {NoRow}]
    BY <1>1, <1>2, <2>1, <2>3
  <2>7. v \in Tables(more)
    BY <1>3, <2>4, <2>5, <2>6 DEF Tables
  <2>8. QED
    BY <2>7 DEF v
<1>6. QED
  BY <1>4, <1>5

LEMMA AppendOperationInductive ==
  ASSUME Inductive, NEW t \in Task, AppendOperation(t)
  PROVE  Inductive'
<1> DEFINE c == command[t]
           op == c.op
           at == AfterEdit(c)
           d == IF at = "idle" THEN NoCommand ELSE [c EXCEPT !.at = at]
<1>1. /\ c \in Commands /\ SoundCommand(edits, c) /\ c.at = "stamped"
      /\ pending' = Queued(pending, op) /\ table' = Versioned(table, op)
      /\ command' = [command EXCEPT ![t] = d]
      /\ UNCHANGED <<blobs, cursor, seeded, open, session, log, edits, failures>>
  BY Unsettled DEF AppendOperation, Become
<1>2. at \in {"idle", "sweepRead", "sweep"}
  BY DEF AfterEdit
<1>3. op \in Stamped /\ op \in Travelling
  BY <1>1 DEF Stamped, Travelling
<1>4. op \in Operation /\ op.id \in 1..edits
  BY <1>1, <1>3 DEF Inductive, SoundOps, SoundOp, SoundCommand, Numbered
<1> HIDE DEF op, at
<1>5. d \in Commands /\ d.at = at /\ Settles(c, d)
  BY <1>1, <1>2, BecomeSettles
<1> HIDE DEF d
<1>6. command \in [Task -> Commands] /\ pending \in Seq(Operation)
  BY DEF Inductive, TypeOK
<1>7. command'[t] = d /\ \A u \in Task : u # t => command'[u] = command[u]
  BY <1>1, <1>6
<1>8. /\ pending' \in Seq(Operation)
      /\ ToSet(pending') \subseteq ToSet(pending) \cup {op} /\ op \in ToSet(pending')
      /\ \A o \in ToSet(pending) : o.entity # op.entity => o \in ToSet(pending')
      /\ \A i, j \in DOMAIN pending' : pending'[i].entity = pending'[j].entity => i = j
  <2>1. \A i, j \in DOMAIN pending : pending[i].entity = pending[j].entity => i = j
    BY DEF Inductive, OnePendingPerEntity
  <2>2. QED
    BY <1>1, <1>4, <1>6, <2>1, QueuedParts
<1>9. Sent' \subseteq Sent \cup {op} /\ op \in Sent'
      /\ \A o \in Sent : o.entity # op.entity => o \in Sent'
  BY <1>1, <1>8 DEF Sent
<1>10. table' \in Tables(Sent')
  <2>1. table \in Tables(Sent)
    BY DEF Inductive
  <2>2. QED
    BY <1>1, <1>4, <1>9, <2>1, VersionedSound
<1>11. Stamped' \subseteq Stamped
  <2>1. d.at # "stamped"
    BY <1>2, <1>5
  <2>2. QED
    BY <1>7, <2>1 DEF Stamped
<1>12. Travelling' \subseteq Travelling
  <2>1. ToSet(session.batch)' = ToSet(session.batch)
    BY <1>1
  <2>2. QED
    BY <1>3, <1>9, <1>11, <2>1 DEF Travelling
<1>13. \A u \in Task : Settles(command[u], command'[u])
  BY <1>5, <1>7 DEF Settles
<1>14. SoundOps' /\ SoundCommands' /\ NumbersMeetOnce' /\ IdsName'
  BY <1>1, <1>12, <1>13, SettleSound
<1>15. TypeOK'
  <2>1. table' \in [Entity -> LocalRow \cup {NoRow}]
    BY <1>10 DEF Tables
  <2>2. QED
    BY <1>1, <1>5, <1>6, <1>8, <2>1 DEF Inductive, TypeOK
<1>16. OnePendingPerEntity' /\ OwnQueue'
  <2>1. OnePendingPerEntity'
    BY <1>8 DEF OnePendingPerEntity
  <2>2. OwnQueue'
    BY <1>1, <1>4, <1>8 DEF Inductive, OwnQueue
  <2>3. QED
    BY <2>1, <2>2
<1>17. SoundSession'
  BY <1>1 DEF Inductive, SoundSession, Logged
<1>18. QED
  BY <1>10, <1>14, <1>15, <1>16, <1>17 DEF Inductive


-----------------------------------------------------------------------------
(* The sync session, the server and the other devices                       *)

(* A step that leaves the commands alone and makes no new operation.        *)
LEMMA SessionStep ==
  ASSUME Inductive, UNCHANGED <<command, edits>>, TypeOK', table' \in Tables(Sent'),
         ToSet(pending') \subseteq ToSet(pending), Travelling' \subseteq Travelling,
         SoundSession', OnePendingPerEntity'
  PROVE  Inductive'
<1>1. \A t \in Task : Settles(command[t], command'[t])
  BY DEF Settles
<1>2. SoundOps' /\ SoundCommands' /\ NumbersMeetOnce' /\ IdsName'
  BY <1>1, SettleSound
<1>3. OwnQueue'
  BY DEF Inductive, OwnQueue
<1>4. QED
  BY <1>2, <1>3 DEF Inductive

(* One that leaves the queue and the log alone as well.                     *)
LEMMA LocalStep ==
  ASSUME Inductive, UNCHANGED <<command, edits, pending, log>>,
         table' \in Tables(Sent), blobs' \in SUBSET Value, cursor' \in 0..Len(log),
         seeded' \in BOOLEAN, open' \in BOOLEAN, failures' \in Nat, session' \in Sessions,
         ToSet(session'.batch) \subseteq ToSet(session.batch) \cup Sent, SoundSession'
  PROVE  Inductive'
<1>1. Sent' = Sent /\ Stamped' = Stamped
  BY DEF Sent, Stamped
<1>2. Travelling' \subseteq Travelling
  BY <1>1 DEF Travelling
<1>3. table' \in [Entity -> LocalRow \cup {NoRow}]
  BY DEF Tables
<1>4. TypeOK'
  BY <1>3 DEF Inductive, TypeOK
<1>5. OnePendingPerEntity'
  BY DEF Inductive, OnePendingPerEntity
<1>6. QED
  BY <1>1, <1>2, <1>4, <1>5, SessionStep

(* A session that holds nothing of the server's.                            *)
Fresh(s) ==
  /\ s \in Sessions /\ s.items = {} /\ s.page = <<>> /\ s.sequence = 0 /\ s.at # "pushAnswered"

LEMMA FreshSound ==
  ASSUME Fresh(session'), session'.top \in 0..Len(log'), Len(log') \in Nat
  PROVE  SoundSession'
<1>1. ToSet(session'.page) = {}
  BY DEF Fresh, ToSet
<1>2. QED
  BY <1>1 DEF Fresh, SoundSession

LEMMA SessionParts ==
  ASSUME NEW s \in Sessions
  PROVE  /\ s.at \in SessionLabels /\ s.batch \in Seq(Operation) /\ s.items \in SUBSET Operation
         /\ s.page \in Seq(Operation) /\ s.sequence \in Nat /\ s.top \in Nat
         /\ s.keep \in SUBSET Value /\ s.next \in {"off", "pullSent", "hydrate"}
BY DEF Sessions

(* The sessions that a step starts or goes on with.                         *)
SessionAt(at, next, top) == [NoSession EXCEPT !.at = at, !.next = next, !.top = top]

LEMMA SessionAtParts ==
  ASSUME NEW at \in SessionLabels, NEW next \in {"off", "pullSent", "hydrate"}, NEW top \in Nat,
         at # "pushAnswered", NEW s, s = SessionAt(at, next, top)
  PROVE  Fresh(s) /\ s.batch = <<>> /\ s.top = top
<1>1. s = [at |-> at, batch |-> <<>>, items |-> {}, page |-> <<>>, sequence |-> 0,
           top |-> top, keep |-> {}, next |-> next]
  BY DEF SessionAt, NoSession
<1>2. QED
  BY <1>1 DEF Fresh, Sessions

LEMMA TurnParts ==
  ASSUME NEW queue \in Seq(Operation), NEW top \in Nat, Turn(queue, top)
  PROVE  Fresh(session') /\ session'.batch = queue /\ session'.top = top
<1> DEFINE at == IF queue # <<>> THEN "pushSent"
                 ELSE IF cursor = 0 THEN "snapshotSent" ELSE "pullSent"
<1>1. session' = [at |-> at, batch |-> queue, items |-> {}, page |-> <<>>, sequence |-> 0,
                  top |-> top, keep |-> {}, next |-> "off"]
  BY DEF Turn, NoSession
<1>2. at \in SessionLabels /\ at # "pushAnswered"
  BY DEF SessionLabels
<1> HIDE DEF at
<1>3. QED
  BY <1>1, <1>2 DEF Fresh, Sessions, SessionLabels

LEMMA AcknowledgedIsLogged ==
  ASSUME Inductive
  PROVE  Acknowledged \in 0..Len(log)
<1>1. log \in Seq(Operation) /\ session.sequence \in 0..Len(log) /\ session.top \in 0..Len(log)
  BY DEF Inductive, TypeOK, SoundSession
<1> DEFINE S == {session.top, session.sequence}
<1>2. Len(log) \in Nat /\ S \in SUBSET Nat /\ S # {} /\ \A x \in S : x <= Len(log)
  BY <1>1
<1>3. Acknowledged = Max(S)
  BY DEF Acknowledged
<1> HIDE DEF S
<1>4. Acknowledged \in S
  BY <1>2, <1>3, MaxOfBounded
<1>5. QED
  BY <1>2, <1>4

(* What a step on the sync side starts from.                                *)
LEMMA Synchronising ==
  ASSUME Inductive
  PROVE  /\ table \in Tables(Sent) /\ blobs \in SUBSET Value /\ cursor \in 0..Len(log)
         /\ seeded \in BOOLEAN /\ open \in BOOLEAN /\ failures \in Nat /\ session \in Sessions
         /\ pending \in Seq(Operation) /\ log \in Seq(Operation) /\ Len(log) \in Nat
         /\ \A op \in Sent : SoundOp(edits, op)
<1>1. log \in Seq(Operation)
  BY DEF Inductive, TypeOK
<1>2. QED
  BY <1>1 DEF Inductive, TypeOK, SoundOps, Travelling

LEMMA BeginSyncInductive ==
  ASSUME Inductive, BeginSync
  PROVE  Inductive'
<1>1. /\ Turn(pending, cursor)
      /\ UNCHANGED <<table, blobs, pending, cursor, seeded, open, command, log, edits, failures>>
  BY DEF BeginSync
<1>2. pending \in Seq(Operation) /\ cursor \in 0..Len(log) /\ cursor \in Nat /\ Len(log) \in Nat
  BY Synchronising
<1>3. Fresh(session') /\ session'.batch = pending /\ session'.top = cursor
  BY <1>1, <1>2, TurnParts
<1>4. SoundSession'
  <2>1. Len(log') = Len(log)
    BY <1>1
  <2>2. QED
    BY <1>2, <1>3, <2>1, FreshSound
<1>5. QED
  BY <1>1, <1>3, <1>4, LocalStep, Synchronising DEF Fresh, Sent

LEMMA ConcatMembers ==
  ASSUME NEW S, NEW s \in Seq(S), NEW t \in Seq(S)
  PROVE  /\ s \o t \in Seq(S) /\ Len(s \o t) \in Nat /\ Len(s) <= Len(s \o t)
         /\ ToSet(s \o t) = ToSet(s) \cup ToSet(t)
<1> DEFINE r == s \o t
<1>1. /\ r \in Seq(S) /\ Len(r) = Len(s) + Len(t) /\ Len(s) \in Nat /\ Len(t) \in Nat
      /\ \A i \in 1..Len(r) : r[i] = IF i <= Len(s) THEN s[i] ELSE t[i - Len(s)]
  OBVIOUS
<1>2. DOMAIN r = 1..Len(r) /\ DOMAIN s = 1..Len(s) /\ DOMAIN t = 1..Len(t)
  BY <1>1
<1> HIDE DEF r
<1>3. ASSUME NEW i \in 1..Len(s) PROVE s[i] \in ToSet(r)
  <2>1. i \in 1..Len(r) /\ r[i] = s[i]
    BY <1>1
  <2>2. QED
    BY <1>2, <2>1 DEF ToSet
<1>4. ASSUME NEW i \in 1..Len(t) PROVE t[i] \in ToSet(r)
  <2>1. Len(s) + i \in 1..Len(r) /\ ~(Len(s) + i <= Len(s)) /\ (Len(s) + i) - Len(s) = i
    BY <1>1
  <2>2. r[Len(s) + i] = t[i]
    BY <1>1, <2>1
  <2>3. QED
    BY <1>2, <2>1, <2>2 DEF ToSet
<1>5. ASSUME NEW i \in 1..Len(r) PROVE r[i] \in ToSet(s) \cup ToSet(t)
  <2>1. CASE i <= Len(s)
    <3>1. i \in 1..Len(s) /\ r[i] = s[i]
      BY <1>1, <2>1
    <3>2. QED
      BY <1>2, <3>1 DEF ToSet
  <2>2. CASE ~(i <= Len(s))
    <3>1. i - Len(s) \in 1..Len(t) /\ r[i] = t[i - Len(s)]
      BY <1>1, <2>2
    <3>2. QED
      BY <1>2, <3>1 DEF ToSet
  <2>3. QED
    BY <2>1, <2>2
<1>6. ToSet(r) = ToSet(s) \cup ToSet(t)
  BY <1>2, <1>3, <1>4, <1>5 DEF ToSet
<1>7. r \in Seq(S) /\ Len(r) \in Nat /\ Len(s) <= Len(r)
  BY <1>1
<1>8. QED
  BY <1>6, <1>7 DEF r

(* The server has whatever was pushed once it answers.                      *)
LEMMA ServePushInductive ==
  ASSUME Inductive, ServePush
  PROVE  Inductive'
<1> DEFINE batch == session.batch
           new == {i \in DOMAIN batch : ~Logged(batch[i])}
           added == Kept(batch, new)
<1>1. /\ session.at = "pushSent" /\ log' = log \o added
      /\ session' = [session EXCEPT !.at = "pushAnswered", !.sequence = Len(log')]
      /\ UNCHANGED <<table, blobs, pending, cursor, seeded, open, command, edits, failures>>
  BY DEF ServePush
<1>2. session \in Sessions /\ log \in Seq(Operation) /\ batch \in Seq(Operation) /\ Len(log) \in Nat
  BY Synchronising, SessionParts
<1>3. added \in Seq(Operation) /\ ToSet(added) = {batch[i] : i \in new}
  <2>1. new \in SUBSET DOMAIN batch
    OBVIOUS
  <2> HIDE DEF batch, new
  <2>2. QED
    BY <1>2, <2>1, KeptMembers
<1>4. ToSet(added) \subseteq ToSet(batch)
  BY <1>3 DEF ToSet
<1> HIDE DEF added
<1>5. /\ log' \in Seq(Operation) /\ Len(log') \in Nat /\ Len(log) <= Len(log')
      /\ ToSet(log') = ToSet(log) \cup ToSet(added)
  BY <1>1, <1>2, <1>3, ConcatMembers
<1>6. /\ session' \in Sessions /\ session'.at = "pushAnswered" /\ session'.sequence = Len(log')
      /\ session'.batch = batch /\ session'.items = session.items /\ session'.page = session.page
      /\ session'.top = session.top
  <2> DEFINE n == Len(log')
  <2>1. session' = [session EXCEPT !.at = "pushAnswered", !.sequence = n] /\ n \in Nat
    BY <1>1, <1>5
  <2> HIDE DEF n
  <2>2. /\ session' \in Sessions /\ session'.at = "pushAnswered" /\ session'.sequence = n
        /\ session'.batch = batch /\ session'.items = session.items /\ session'.page = session.page
        /\ session'.top = session.top
    BY <1>2, <2>1 DEF Sessions, SessionLabels
  <2>3. QED
    BY <2>2 DEF n
<1>7. Sent \subseteq Sent' /\ Sent' \subseteq Sent \cup ToSet(batch)
  BY <1>1, <1>4, <1>5 DEF Sent
<1>8. Travelling' \subseteq Travelling
  <2>1. Stamped' = Stamped
    BY <1>1 DEF Stamped
  <2>2. QED
    BY <1>6, <1>7, <2>1 DEF Travelling
<1>9. table' \in Tables(Sent')
  BY <1>1, <1>7, Synchronising, MoreSent
<1>10. TypeOK'
  <2>1. cursor' \in 0..Len(log')
    BY <1>1, <1>2, <1>5, Synchronising
  <2>2. QED
    BY <1>1, <1>5, <1>6, <2>1 DEF Inductive, TypeOK
<1>11. \A op \in ToSet(batch) : \E o \in ToSet(log') : o.id = op.id
  <2>1. ASSUME NEW i \in DOMAIN batch PROVE \E o \in ToSet(log') : o.id = batch[i].id
    <3>1. CASE i \in new
      BY <1>3, <1>5, <3>1
    <3>2. CASE Logged(batch[i])
      BY <1>5, <3>2 DEF Logged, ToSet
    <3>3. QED
      BY <3>1, <3>2
  <2>2. QED
    BY <2>1 DEF ToSet
<1>12. \A op \in ToSet(batch) : Logged(op)'
  BY <1>11 DEF Logged, ToSet
<1> HIDE DEF batch
<1>13. SoundSession'
  <2>1. session'.sequence \in 0..Len(log') /\ session'.top \in 0..Len(log')
    BY <1>2, <1>5, <1>6 DEF Inductive, SoundSession
  <2>2. session'.items \subseteq ToSet(log') /\ ToSet(session'.page) \subseteq ToSet(log')
    BY <1>5, <1>6 DEF Inductive, SoundSession
  <2>3. \A op \in session'.items : op.kind = "upsert"
    BY <1>6 DEF Inductive, SoundSession
  <2>4. QED
    BY <1>6, <1>12, <2>1, <2>2, <2>3 DEF SoundSession
<1>14. OnePendingPerEntity'
  BY <1>1 DEF Inductive, OnePendingPerEntity
<1>15. QED
  BY <1>1, <1>8, <1>9, <1>10, <1>13, <1>14, SessionStep


(* What leaves the queue is in the log.                                     *)
LEMMA FinishPushInductive ==
  ASSUME Inductive, FinishPush
  PROVE  Inductive'
<1> DEFINE P == {i \in DOMAIN pending : ~Pushed(pending[i])}
<1>1. /\ session.at = "pushAnswered" /\ pending' = Kept(pending, P)
      /\ Turn(pending', Acknowledged)
      /\ UNCHANGED <<table, blobs, cursor, seeded, open, command, log, edits, failures>>
  BY DEF FinishPush
<1>2. pending \in Seq(Operation) /\ Len(log) \in Nat /\ Acknowledged \in 0..Len(log)
  BY Synchronising, AcknowledgedIsLogged
<1>3. /\ pending' \in Seq(Operation) /\ ToSet(pending') = {pending[i] : i \in P}
      /\ \A p, q \in DOMAIN pending' :
           \E i, j \in P : /\ pending'[p] = pending[i] /\ pending'[q] = pending[j]
                           /\ p # q => i # j
  <2>1. P \in SUBSET DOMAIN pending
    OBVIOUS
  <2> HIDE DEF P
  <2>2. QED
    BY <1>1, <1>2, <2>1, KeptMembers
<1>4. Fresh(session') /\ session'.batch = pending' /\ session'.top = Acknowledged
  <2>1. Acknowledged \in Nat
    BY <1>2
  <2>2. QED
    BY <1>1, <1>3, <2>1, TurnParts
<1>5. ToSet(pending') \subseteq ToSet(pending)
  BY <1>3 DEF ToSet
<1>6. ASSUME NEW op \in ToSet(pending), op \notin ToSet(pending') PROVE op \in ToSet(log)
  <2>1. Pushed(op)
    <3>1. PICK i \in DOMAIN pending : op = pending[i]
      BY DEF ToSet
    <3>2. i \notin P
      <4> HIDE DEF P
      <4>1. QED
        BY <1>3, <1>6, <3>1
    <3>3. QED
      BY <3>1, <3>2
  <2>2. PICK b \in ToSet(session.batch) : b.id = op.id
    BY <2>1 DEF Pushed, ToSet
  <2>3. Logged(b)
    BY <1>1 DEF Inductive, SoundSession
  <2>4. PICK o \in ToSet(log) : o.id = op.id
    BY <2>2, <2>3 DEF Logged, ToSet
  <2>5. op.id \in 1..MaxEdits
    BY StoreBoundAssumption DEF Inductive, OwnQueue
  <2>6. o \in Travelling /\ op \in Travelling
    BY DEF Travelling, Sent
  <2>7. o = op
    BY <2>4, <2>5, <2>6 DEF Inductive, IdsName
  <2>8. QED
    BY <2>7
<1>7. Sent' = Sent
  BY <1>1, <1>5, <1>6 DEF Sent
<1>8. Travelling' \subseteq Travelling
  <2>1. Stamped' = Stamped
    BY <1>1 DEF Stamped
  <2>2. ToSet(session'.batch) \subseteq Sent
    BY <1>4, <1>5 DEF Sent
  <2>3. QED
    BY <1>7, <2>1, <2>2 DEF Travelling
<1>9. table' \in Tables(Sent')
  BY <1>1, <1>7, Synchronising
<1>10. TypeOK'
  BY <1>1, <1>3, <1>4 DEF Inductive, TypeOK, Fresh
<1>11. SoundSession'
  <2>1. Len(log') = Len(log)
    BY <1>1
  <2>2. QED
    BY <1>2, <1>4, <2>1, FreshSound
<1>12. OnePendingPerEntity'
  <2>1. P \subseteq DOMAIN pending
    OBVIOUS
  <2>2. \A i, j \in DOMAIN pending : pending[i].entity = pending[j].entity => i = j
    BY DEF Inductive, OnePendingPerEntity
  <2> HIDE DEF P
  <2>3. QED
    BY <1>3, <2>1, <2>2 DEF OnePendingPerEntity
<1>13. QED
  BY <1>1, <1>5, <1>8, <1>9, <1>10, <1>11, <1>12, SessionStep

(* The server's answer comes from its log.                                  *)
LEMMA ServeSnapshotInductive ==
  ASSUME Inductive, ServeSnapshot
  PROVE  Inductive'
<1> DEFINE items == {op \in Winners : op.kind = "upsert"}
<1>1. /\ session' = [session EXCEPT !.at = "snapshotAnswered", !.sequence = Len(log), !.items = items]
      /\ UNCHANGED <<table, blobs, pending, cursor, seeded, open, command, log, edits, failures>>
  BY DEF ServeSnapshot
<1>2. session \in Sessions /\ log \in Seq(Operation) /\ Len(log) \in Nat
  BY Synchronising
<1>3. items \subseteq ToSet(log) /\ \A op \in items : op.kind = "upsert"
  BY DEF Winners
<1>4. ToSet(log) \subseteq Operation
  BY <1>2 DEF ToSet
<1> HIDE DEF items
<1>5. /\ session' \in Sessions /\ session'.at = "snapshotAnswered" /\ session'.sequence = Len(log)
      /\ session'.batch = session.batch /\ session'.items = items /\ session'.page = session.page
      /\ session'.top = session.top
  BY <1>1, <1>2, <1>3, <1>4 DEF Sessions, SessionLabels
<1>6. SoundSession'
  BY <1>1, <1>2, <1>3, <1>5 DEF Inductive, SoundSession
<1>7. QED
  BY <1>1, <1>5, <1>6, LocalStep, Synchronising

LEMMA ServePullInductive ==
  ASSUME Inductive, ServePull
  PROVE  Inductive'
<1> DEFINE after == {i \in DOMAIN log : i > cursor /\ log[i].stamp.device # Self}
           page == Kept(log, after)
           sequence == IF after = {} THEN Len(log) ELSE Max(after)
<1>1. /\ session' = [session EXCEPT !.at = "pullAnswered", !.page = page, !.sequence = sequence]
      /\ UNCHANGED <<table, blobs, pending, cursor, seeded, open, command, log, edits, failures>>
  BY DEF ServePull
<1>2. session \in Sessions /\ log \in Seq(Operation) /\ Len(log) \in Nat
  BY Synchronising
<1>3. after \in SUBSET DOMAIN log /\ DOMAIN log = 1..Len(log)
  BY <1>2
<1> HIDE DEF after
<1>4. page \in Seq(Operation) /\ ToSet(page) \subseteq ToSet(log)
  <2>1. page \in Seq(Operation) /\ ToSet(page) = {log[i] : i \in after}
    BY <1>2, <1>3, KeptMembers
  <2>2. QED
    BY <1>3, <2>1 DEF ToSet
<1>5. sequence \in 0..Len(log)
  <2>1. CASE after = {}
    BY <1>2, <2>1
  <2>2. CASE after # {}
    <3>1. after \in SUBSET Nat /\ \A x \in after : x <= Len(log)
      BY <1>2, <1>3
    <3>2. Max(after) \in after
      BY <1>2, <2>2, <3>1, MaxOfBounded
    <3>3. QED
      BY <1>2, <1>3, <2>2, <3>2
  <2>3. QED
    BY <2>1, <2>2
<1> HIDE DEF page, sequence
<1>6. /\ session' \in Sessions /\ session'.at = "pullAnswered" /\ session'.sequence = sequence
      /\ session'.batch = session.batch /\ session'.items = session.items /\ session'.page = page
      /\ session'.top = session.top
  <2>1. sequence \in Nat
    BY <1>5
  <2>2. QED
    BY <1>1, <1>2, <1>4, <2>1 DEF Sessions, SessionLabels
<1>7. SoundSession'
  BY <1>1, <1>4, <1>5, <1>6 DEF Inductive, SoundSession
<1>8. QED
  BY <1>1, <1>6, <1>7, LocalStep, Synchronising

(* A step after which the session holds nothing of the server's.            *)
LEMMA FreshStep ==
  ASSUME Inductive, UNCHANGED <<command, edits, pending, log>>,
         table' \in Tables(Sent), blobs' \in SUBSET Value, cursor' \in 0..Len(log),
         seeded' \in BOOLEAN, open' \in BOOLEAN, failures' \in Nat,
         Fresh(session'), session'.batch = <<>>, session'.top \in 0..Len(log)
  PROVE  Inductive'
<1>1. Len(log') = Len(log) /\ Len(log) \in Nat
  BY Synchronising
<1>2. ToSet(session'.batch) = {}
  BY DEF ToSet
<1>3. SoundSession'
  BY <1>1, FreshSound
<1>4. session' \in Sessions
  BY DEF Fresh
<1>5. QED
  BY <1>2, <1>3, <1>4, LocalStep

LEMMA Answered ==
  ASSUME Inductive
  PROVE  /\ \A op \in session.items : op \in Sent /\ SoundOp(edits, op) /\ op.kind = "upsert"
         /\ \A op \in ToSet(session.page) : op \in Sent /\ SoundOp(edits, op)
         /\ session.page \in Seq(Operation) /\ session.sequence \in 0..Len(log)
<1>1. \A op \in ToSet(log) : op \in Sent
  BY DEF Sent
<1>2. QED
  BY <1>1, Synchronising, SessionParts DEF Inductive, SoundSession

(* A session that ends or has not begun.                                    *)
LEMMA NoSessionIsFresh ==
  Fresh(NoSession) /\ NoSession.batch = <<>> /\ NoSession.top = 0
BY NoSessionTyped DEF Fresh

LEMMA ApplySnapshotInductive ==
  ASSUME Inductive, ApplySnapshot
  PROVE  Inductive'
<1>1. UNCHANGED <<blobs, pending, open, command, log, edits, failures>>
  BY DEF ApplySnapshot
<1>2. CASE SnapshotFits
  <2> DEFINE next == SessionAt("sweepRead", "pullSent", Acknowledged)
  <2>1. /\ table' = AfterSnapshot /\ seeded' = (seeded /\ ~Discards)
        /\ cursor' = session.sequence /\ session' = next
    BY <1>2 DEF ApplySnapshot, SessionAt
  <2>2. Acknowledged \in 0..Len(log) /\ Acknowledged \in Nat
    BY AcknowledgedIsLogged, Synchronising
  <2>3. next = SessionAt("sweepRead", "pullSent", Acknowledged)
    OBVIOUS
  <2> HIDE DEF next
  <2>4. Fresh(next) /\ next.batch = <<>> /\ next.top = Acknowledged
    BY <2>2, <2>3, SessionAtParts DEF SessionLabels
  <2>5. AfterSnapshot \in Tables(Sent)
    BY Answered, Synchronising, SnapshotSound
  <2>6. seeded' \in BOOLEAN
    <3>1. seeded \in BOOLEAN /\ Discards \in BOOLEAN
      BY Synchronising DEF Discards
    <3>2. QED
      BY <2>1, <3>1
  <2>7. QED
    BY <1>1, <2>1, <2>2, <2>4, <2>5, <2>6, Answered, Synchronising, FreshStep
<1>3. CASE ~SnapshotFits
  <2>1. session' = NoSession /\ UNCHANGED <<table, seeded, cursor>>
    BY <1>3 DEF ApplySnapshot
  <2>2. QED
    BY <1>1, <2>1, NoSessionIsFresh, Synchronising, FreshStep
<1>4. QED
  BY <1>2, <1>3

LEMMA ApplyPageInductive ==
  ASSUME Inductive, ApplyPage
  PROVE  Inductive'
<1>1. UNCHANGED <<blobs, pending, seeded, open, command, log, edits, failures>>
  BY DEF ApplyPage
<1>2. CASE session.page = <<>>
  <2> DEFINE next == SessionAt("hydrate", "off", 0)
  <2>1. cursor' = Acknowledged /\ session' = next /\ table' = table
    BY <1>2 DEF ApplyPage, SessionAt, NoSession
  <2>2. next = SessionAt("hydrate", "off", 0)
    OBVIOUS
  <2> HIDE DEF next
  <2>3. Fresh(next) /\ next.batch = <<>> /\ next.top = 0
    BY <2>2, SessionAtParts DEF SessionLabels
  <2>4. QED
    BY <1>1, <2>1, <2>3, AcknowledgedIsLogged, Synchronising, FreshStep
<1>3. CASE session.page # <<>> /\ AfterPage.fits
  <2> DEFINE next == SessionAt("sweepRead", "hydrate", 0)
  <2>1. table' = AfterPage.table /\ cursor' = session.sequence /\ session' = next
    BY <1>3 DEF ApplyPage, SessionAt, NoSession
  <2>2. next = SessionAt("sweepRead", "hydrate", 0)
    OBVIOUS
  <2> HIDE DEF next
  <2>3. Fresh(next) /\ next.batch = <<>> /\ next.top = 0
    BY <2>2, SessionAtParts DEF SessionLabels
  <2>4. AfterPage.table \in Tables(Sent)
    BY Answered, Synchronising, PageSound
  <2>5. QED
    BY <1>1, <2>1, <2>3, <2>4, Answered, Synchronising, FreshStep
<1>4. CASE session.page # <<>> /\ ~AfterPage.fits
  <2>1. session' = NoSession /\ UNCHANGED <<table, cursor>>
    BY <1>4 DEF ApplyPage
  <2>2. QED
    BY <1>1, <2>1, NoSessionIsFresh, Synchronising, FreshStep
<1>5. QED
  BY <1>2, <1>3, <1>4

(* A hash is a value, wherever it is read.                                  *)
LEMMA LiveHashesAreValues ==
  ASSUME Inductive
  PROVE  LiveHashes(table) \in SUBSET Value
<1>1. ASSUME NEW a \in Present(table, Attachment) PROVE table[a].content.text \in Value
  <2>1. Attachment \in SUBSET Entity
    BY DEF Entity
  <2>2. table[a] \in LocalRow
    BY <2>1, PresentRow
  <2>3. table[a].content \in Content
    BY <2>2 DEF LocalRow
  <2>4. QED
    BY <2>3, ContentParts
<1>2. QED
  BY <1>1 DEF LiveHashes


LEMMA SweepSessionInductive ==
  ASSUME Inductive, SweepSession
  PROVE  Inductive'
<1>1. /\ UNCHANGED <<table, pending, cursor, seeded, open, command, log, edits, failures>>
      /\ session \in Sessions /\ Len(log) \in Nat
  BY Synchronising DEF SweepSession
<1>2. CASE session.at = "sweepRead"
  <2>1. session' = [session EXCEPT !.at = "sweep", !.keep = PendingHashes] /\ blobs' = blobs
    BY <1>2 DEF SweepSession
  <2>2. PendingHashes \in SUBSET Value
    BY HashesAreValues DEF Inductive
  <2>3. /\ session' \in Sessions /\ session'.at = "sweep" /\ session'.sequence = session.sequence
        /\ session'.batch = session.batch /\ session'.items = session.items
        /\ session'.page = session.page /\ session'.top = session.top
    BY <1>1, <2>1, <2>2 DEF Sessions, SessionLabels
  <2>4. SoundSession'
    BY <1>1, <2>3 DEF Inductive, SoundSession
  <2>5. QED
    BY <1>1, <2>1, <2>3, <2>4, LocalStep, Synchronising
<1>3. CASE session.at = "sweep"
  <2> DEFINE next == SessionAt(session.next, "off", session.top)
  <2>1. blobs' = Swept(session.keep) /\ blobs' \subseteq blobs
    BY <1>3, Zenon DEF SweepSession, Swept
  <2>2. session' = next
    BY <1>3 DEF SweepSession, SessionAt, NoSession
  <2>3. session.next \in {"off", "pullSent", "hydrate"} /\ session.top \in Nat /\ session.top \in 0..Len(log)
    BY <1>1, SessionParts DEF Inductive, SoundSession
  <2>4. next = SessionAt(session.next, "off", session.top)
    OBVIOUS
  <2>5. session.next \in SessionLabels /\ session.next # "pushAnswered"
    BY <2>3 DEF SessionLabels
  <2> HIDE DEF next
  <2>6. Fresh(next) /\ next.batch = <<>> /\ next.top = session.top
    BY <2>3, <2>4, <2>5, SessionAtParts DEF SessionLabels
  <2>7. QED
    BY <1>1, <2>1, <2>2, <2>3, <2>6, FreshStep, Synchronising
<1>4. QED
  BY <1>2, <1>3 DEF SweepSession

LEMMA HydrateInductive ==
  ASSUME Inductive, Hydrate
  PROVE  Inductive'
<1>1. UNCHANGED <<table, pending, cursor, seeded, open, command, log, edits, failures>>
  BY DEF Hydrate
<1> DEFINE n == NoSession
<1>2. session' = [n EXCEPT !.at = "sweepRead"]
  BY Zenon DEF Hydrate
<1>3. n \in Sessions /\ Fresh(n) /\ n.batch = <<>> /\ n.top = 0
  BY NoSessionTyped, NoSessionIsFresh
<1> HIDE DEF n
<1>4. Fresh(session') /\ session'.batch = <<>> /\ session'.top = 0
  BY <1>2, <1>3 DEF Fresh, Sessions, SessionLabels
<1>5. blobs' \in SUBSET Value
  <2>1. \E found \in SUBSET LiveHashes(table) : blobs' = blobs \cup found
    BY DEF Hydrate
  <2>2. QED
    BY <2>1, LiveHashesAreValues, Synchronising
<1>6. QED
  BY <1>1, <1>4, <1>5, Synchronising, FreshStep

LEMMA FailSessionInductive ==
  ASSUME Inductive, FailSession
  PROVE  Inductive'
<1>1. /\ session' = NoSession /\ failures' = failures + 1
      /\ UNCHANGED <<table, blobs, pending, cursor, seeded, open, command, log, edits>>
  BY DEF FailSession
<1>2. failures' \in Nat
  BY <1>1, Synchronising
<1>3. QED
  BY <1>1, <1>2, NoSessionIsFresh, Synchronising, FreshStep

(* The store's number of an operation is nobody else's.                     *)
LEMMA OthersPushInductive ==
  ASSUME Inductive, OthersPush
  PROVE  Inductive'
<1> DEFINE P == {i \in DOMAIN log : log[i].stamp.device # Self}
           sent == Cardinality(P)
           op == Others[sent + 1]
<1>1. /\ sent < Len(Others) /\ log' = Append(log, op)
      /\ UNCHANGED <<table, blobs, pending, cursor, seeded, open, command, session, edits, failures>>
  BY DEF OthersPush
<1>2. log \in Seq(Operation) /\ Len(log) \in Nat
  BY Synchronising
<1>3. sent + 1 \in DOMAIN Others
  <2>1. P \in SUBSET (1..Len(log))
    BY <1>2
  <2> HIDE DEF P
  <2>2. sent \in Nat
    BY <1>2, <2>1, PlacesAreDistinct
  <2> HIDE DEF sent
  <2>3. Others \in Seq(Operation)
    BY OthersAssumption
  <2>4. QED
    BY <1>1, <2>2, <2>3
<1> HIDE DEF sent
<1>4. /\ op \in Operation /\ op.stamp.device # Self /\ op.id \notin 1..MaxEdits
      /\ op.entity \notin Temporary /\ InRepository(op)
  BY <1>3, OthersAssumption
<1> HIDE DEF op
<1>5. SoundOp(edits, op)
  BY <1>4 DEF SoundOp
<1>6. /\ log' \in Seq(Operation) /\ Len(log') = Len(log) + 1 /\ ToSet(log') = ToSet(log) \cup {op}
      /\ \A i \in DOMAIN log : i \in DOMAIN log' /\ log'[i] = log[i]
  <2> DEFINE n == Len(log)
  <2>1. /\ log' \in Seq(Operation) /\ Len(log') = n + 1
        /\ DOMAIN log' = 1..n + 1 /\ DOMAIN log = 1..n /\ log'[n + 1] = op
        /\ \A i \in 1..n : log'[i] = log[i]
    BY <1>1, <1>2, <1>4
  <2>2. \A i \in 1..n + 1 : i \in 1..n \/ i = n + 1
    BY <1>2
  <2>3. n + 1 \in 1..n + 1 /\ \A i \in 1..n : i \in 1..n + 1
    BY <1>2
  <2> HIDE DEF n
  <2>4. ToSet(log') = ToSet(log) \cup {op}
    BY <2>1, <2>2, <2>3 DEF ToSet
  <2>5. QED
    BY <2>1, <2>3, <2>4 DEF n
<1>7. Sent' = Sent \cup {op} /\ ToSet(session.batch)' = ToSet(session.batch) /\ Stamped' = Stamped
  BY <1>1, <1>6 DEF Sent, Stamped
<1>8. Travelling' = Travelling \cup {op}
  BY <1>7 DEF Travelling
<1>9. TypeOK'
  <2>1. cursor \in 0..Len(log) => cursor \in 0..Len(log) + 1
    BY <1>2
  <2>2. QED
    BY <1>1, <1>6, <2>1 DEF Inductive, TypeOK
<1>10. table' \in Tables(Sent')
  BY <1>1, <1>7, Synchronising, MoreSent
<1>11. SoundOps'
  BY <1>1, <1>5, <1>8 DEF Inductive, SoundOps
<1>12. SoundCommands' /\ OwnQueue' /\ OnePendingPerEntity'
  BY <1>1 DEF Inductive, SoundCommands, OwnQueue, OnePendingPerEntity
<1>13. NumbersMeetOnce'
  <2>1. ASSUME NEW t \in Task, Editing(command[t]) PROVE op.id # command[t].n
    <3>1. command[t].n \in 1..edits
      BY <2>1, Unsettled DEF SoundCommand, Numbered, Editing
    <3>2. 1..edits \subseteq 1..MaxEdits
      BY StoreBoundAssumption DEF Inductive, OwnQueue
    <3>3. QED
      BY <1>4, <3>1, <3>2
  <2>2. QED
    BY <1>1, <1>8, <2>1 DEF Inductive, NumbersMeetOnce
<1>14. IdsName'
  BY <1>4, <1>8 DEF Inductive, IdsName
<1>15. SoundSession'
  <2>1. session.sequence \in 0..Len(log') /\ session.top \in 0..Len(log')
    BY <1>2, <1>6 DEF Inductive, SoundSession
  <2>2. \A o : Logged(o) => Logged(o)'
    BY <1>6 DEF Logged
  <2>3. QED
    BY <1>1, <1>6, <2>1, <2>2 DEF Inductive, SoundSession
<1>16. QED
  BY <1>9, <1>10, <1>11, <1>12, <1>13, <1>14, <1>15 DEF Inductive

(* The process starts again, with what is in its file.                      *)
LEMMA RestartInductive ==
  ASSUME Inductive, Restart
  PROVE  Inductive'
<1>1. /\ command' = [t \in Task |-> NoCommand] /\ session' = NoSession
      /\ failures' = failures + 1 /\ UNCHANGED <<blobs, pending, cursor, log, edits>>
  BY DEF Restart
<1>2. table' \in Tables(Sent)
  <2>1. table \in Tables(Sent) /\ Seeds \in Tables(Sent)
    BY SeedsSound, Synchronising
  <2> DEFINE kept == [e \in Entity |-> IF e \in Purged THEN NoRow ELSE table[e]]
  <2>2. kept \in Tables(Sent)
    <3>1. \A e \in Entity : table[e] \in LocalRow \cup {NoRow} /\ SoundRow(Sent, e, table[e])
      BY <2>1 DEF Tables
    <3>2. \A e \in Entity : kept[e] \in LocalRow \cup {NoRow} /\ SoundRow(Sent, e, kept[e])
      BY <3>1 DEF SoundRow
    <3>3. kept \in [Entity -> LocalRow \cup {NoRow}]
      BY <3>1
    <3> HIDE DEF kept
    <3>4. QED
      BY <3>2, <3>3 DEF Tables
  <2>3. table' = table \/ table' = Seeds \/ table' = kept
    BY DEF Restart
  <2>4. QED
    BY <2>1, <2>2, <2>3
<1>3. seeded' \in BOOLEAN /\ open' \in BOOLEAN
  BY Synchronising DEF Restart
<1>4. Sent' = Sent
  BY <1>1 DEF Sent
<1>5. \A t \in Task : command'[t] = NoCommand
  BY <1>1
<1>6. Stamped' = {} /\ ToSet(session'.batch) = {}
  BY <1>1, <1>5, NoCommandTyped, NoSessionTyped DEF Stamped, ToSet
<1>7. Travelling' \subseteq Travelling
  BY <1>4, <1>6 DEF Travelling
<1>8. TypeOK'
  <2>1. command' \in [Task -> Commands]
    BY <1>1, NoCommandTyped
  <2>2. table' \in [Entity -> LocalRow \cup {NoRow}]
    BY <1>2 DEF Tables
  <2>3. failures' \in Nat
    BY <1>1, Synchronising
  <2>4. QED
    BY <1>1, <1>3, <2>1, <2>2, <2>3, NoSessionTyped DEF Inductive, TypeOK
<1>9. \A t \in Task : Settles(command[t], command'[t])
  BY <1>5, Unsettled
<1>10. SoundOps' /\ SoundCommands' /\ NumbersMeetOnce' /\ IdsName'
  BY <1>1, <1>7, <1>9, SettleSound
<1>11. SoundSession'
  <2>1. Len(log') \in Nat /\ 0 \in 0..Len(log')
    BY <1>1, Synchronising
  <2>2. QED
    BY <1>1, <2>1, NoSessionIsFresh, FreshSound
<1>12. OnePendingPerEntity' /\ OwnQueue'
  BY <1>1 DEF Inductive, OnePendingPerEntity, OwnQueue
<1>13. QED
  BY <1>2, <1>4, <1>8, <1>10, <1>11, <1>12 DEF Inductive

-----------------------------------------------------------------------------
LEMMA InitInductive == Init => Inductive
<1>1. SUFFICES ASSUME Init PROVE Inductive
  OBVIOUS
<1>2. /\ table = Seeds /\ seeded = TRUE /\ open = TRUE /\ blobs = {} /\ pending = <<>>
      /\ cursor = 0 /\ command = [t \in Task |-> NoCommand] /\ session = NoSession
      /\ log = <<>> /\ edits = 0 /\ failures = 0
  BY <1>1 DEF Init
<1>3. ToSet(pending) = {} /\ ToSet(log) = {} /\ ToSet(session.batch) = {} /\ Sent = {}
  BY <1>2, NoSessionTyped DEF Sent, ToSet
<1>4. \A t \in Task : command[t] = NoCommand
  BY <1>2
<1>5. Stamped = {} /\ Travelling = {}
  BY <1>3, <1>4, NoCommandTyped DEF Stamped, Travelling
<1>6. table \in Tables(Sent)
  BY <1>2, SeedsSound
<1>7. TypeOK
  <2>1. command \in [Task -> Commands]
    BY <1>2, NoCommandTyped
  <2>2. table \in [Entity -> LocalRow \cup {NoRow}]
    BY <1>6 DEF Tables
  <2>3. cursor \in 0..Len(log) /\ pending \in Seq(Operation) /\ log \in Seq(Operation)
    BY <1>2
  <2>4. QED
    BY <1>2, <2>1, <2>2, <2>3, NoSessionTyped DEF TypeOK
<1>8. SoundOps /\ IdsName
  BY <1>5 DEF SoundOps, IdsName
<1>9. SoundCommands /\ NumbersMeetOnce
  BY <1>4, NoCommandTyped DEF SoundCommands, SoundCommand, NumbersMeetOnce, Numbered, Editing
<1>10. OwnQueue
  BY <1>2, <1>3, StoreBoundAssumption DEF OwnQueue
<1>11. SoundSession
  <2>1. ToSet(session.page) = {}
    BY <1>2, NoSessionTyped DEF ToSet
  <2>2. QED
    BY <1>2, <2>1, NoSessionTyped DEF SoundSession
<1>12. OnePendingPerEntity
  BY <1>2 DEF OnePendingPerEntity
<1>13. QED
  BY <1>6, <1>7, <1>8, <1>9, <1>10, <1>11, <1>12 DEF Inductive

LEMMA CommandInductive ==
  ASSUME Inductive, NEW t \in Task, Command(t) \/ FailCommand(t)
  PROVE  Inductive'
BY SaveMemoInductive, DeleteInductive, SaveRepositoryInductive, SaveAttachmentInductive,
   InsertAttachmentInductive, StampEditInductive, AppendOperationInductive,
   SweepCommandInductive, FailCommandInductive DEF Command

LEMMA SyncInductive ==
  ASSUME Inductive, Sync
  PROVE  Inductive'
BY BeginSyncInductive, ServePushInductive, FinishPushInductive, ServeSnapshotInductive,
   ApplySnapshotInductive, ServePullInductive, ApplyPageInductive, SweepSessionInductive,
   HydrateInductive DEF Sync

LEMMA NextInductive == Inductive /\ [Next]_vars => Inductive'
<1>1. SUFFICES ASSUME Inductive, [Next]_vars PROVE Inductive'
  OBVIOUS
<1>2. CASE Next
  BY <1>1, <1>2, CommandInductive, SyncInductive, FailSessionInductive, RestartInductive,
     OthersPushInductive DEF Next
<1>3. CASE UNCHANGED vars
  BY <1>1, <1>3 DEF vars, Inductive, TypeOK, SoundOps, Travelling, Sent, Stamped, SoundCommands,
     NumbersMeetOnce, IdsName, SoundSession, OnePendingPerEntity, OwnQueue, Logged
<1>4. QED
  BY <1>1, <1>2, <1>3

(* What the code keeps true between any two statements of a command, of the *)
(* session and of a restart.                                                *)
THEOREM InductiveInvariant == Spec => []Inductive
<1>1. Init => Inductive
  BY InitInductive
<1>2. Inductive /\ [Next]_vars => Inductive'
  BY NextInductive
<1>3. QED
  BY <1>1, <1>2, PTL DEF Spec

(* Every variable of the store, of its commands and of its session keeps a  *)
(* value of its kind, and the cursor never passes what the server has       *)
(* numbered.                                                                *)
THEOREM TypeCorrect == Spec => []TypeOK
<1>1. Inductive => TypeOK
  BY DEF Inductive
<1>2. QED
  BY <1>1, InductiveInvariant, PTL

(* A row that shows this device's edit carries the version of an operation  *)
(* that is queued or in the server's log: no crash, failed statement or     *)
(* lost answer makes an edit visible whose operation is gone, and taking a  *)
(* pushed operation off the queue never does either (code:                  *)
(* append_local_operation, mark_operations_pushed).                         *)
THEOREM ShownEditsAreSafe == Spec => []ShownEditIsSafe
<1>1. Inductive => ShownEditIsSafe
  <2>1. SUFFICES ASSUME Inductive, NEW e \in Present(table, Entity), table[e].version # NoVersion
                 PROVE  \E op \in Sent : op.entity = e /\ op.stamp = table[e].version
    BY DEF ShownEditIsSafe
  <2>2. SoundRow(Sent, e, table[e]) /\ table[e] # NoRow
    BY <2>1, PresentRow DEF Present
  <2>3. QED
    BY <2>1, <2>2 DEF SoundRow
<1>2. QED
  BY <1>1, InductiveInvariant, PTL

(* Nothing in a temporary repository is queued or pushed, and neither is    *)
(* the repository, although a repository may be deleted, purged or replaced *)
(* between an edit and the look at its sync_enabled (code:                  *)
(* repository_sync_enabled, create_repository, update_repository).          *)
THEOREM TemporaryRepositoriesStayLocal == Spec => []TemporaryStaysLocal
<1>1. Inductive => TemporaryStaysLocal
  BY DEF Inductive, SoundOps, Travelling, SoundOp, TemporaryStaysLocal
<1>2. QED
  BY <1>1, InductiveInvariant, PTL

(* However edits, pushes and failures interleave, the queue holds one       *)
(* operation of an entity (code: append_local_operation).                   *)
THEOREM EntitiesArePendingOnce == Spec => []OnePendingPerEntity
<1>1. Inductive => OnePendingPerEntity
  BY DEF Inductive
<1>2. QED
  BY <1>1, InductiveInvariant, PTL
=============================================================================
