-------------------------- MODULE ProjectionProofs --------------------------
(***************************************************************************)
(* The version order, what one operation can do to a projected row, and    *)
(* what the other proofs need of the natural numbers: the greatest of a    *)
(* bounded set, and recursion over the first ones.                         *)
(***************************************************************************)
EXTENDS Projection, Integers, FiniteSetsExt, TLAPS, WellFoundedInduction

(* A stamp is its three numbers.                                            *)
LEMMA StampParts ==
  /\ \A a \in Stamp : a.wall \in Nat /\ a.counter \in Nat /\ a.device \in Nat
  /\ \A a, b \in Stamp :
       a.wall = b.wall /\ a.counter = b.counter /\ a.device = b.device => a = b
<1>1. \A a \in Stamp : a.wall \in Nat /\ a.counter \in 0..MaxCounter /\ a.device \in Nat
  BY DeviceAssumption DEF Stamp
<1>2. 0..MaxCounter \subseteq Nat
  BY DEF MaxCounter
<1>3. \A a, b \in Stamp :
        a.wall = b.wall /\ a.counter = b.counter /\ a.device = b.device => a = b
  BY DEF Stamp
<1>4. QED
  BY <1>1, <1>2, <1>3

(* Competing writes are decided the same way wherever they meet: the order  *)
(* is strict and total on stamps, so two different stamps always have one   *)
(* winner (code: wins, state_operation_wins, operation_wins_tx).            *)
THEOREM WinsIsStrictTotalOrder ==
  /\ \A a \in Stamp : ~Wins(a, a)
  /\ \A a, b, c \in Stamp : Wins(a, b) /\ Wins(b, c) => Wins(a, c)
  /\ \A a, b \in Stamp : a = b \/ Wins(a, b) \/ Wins(b, a)
<1>1. ASSUME NEW a \in Stamp PROVE ~Wins(a, a)
  BY StampParts DEF Wins, HlcLess, HlcEqual
<1>2. ASSUME NEW a \in Stamp, NEW b \in Stamp, NEW c \in Stamp, Wins(a, b), Wins(b, c)
      PROVE  Wins(a, c)
  BY <1>2, StampParts DEF Wins, HlcLess, HlcEqual
<1>3. ASSUME NEW a \in Stamp, NEW b \in Stamp, ~Wins(a, b), ~Wins(b, a)
      PROVE  a = b
  <2>1. a.wall = b.wall /\ a.counter = b.counter /\ a.device = b.device
    BY <1>3, StampParts DEF Wins, HlcLess, HlcEqual
  <2>2. QED
    BY <2>1, StampParts
<1>4. QED
  BY <1>1, <1>2, <1>3

(* A stamp that loses to a row's also loses to whatever replaced that row.  *)
LEMMA LosersKeepLosing ==
  ASSUME NEW s \in Stamp, NEW old \in Stamp, NEW new \in Stamp,
         Wins(new, old), ~Wins(s, old)
  PROVE  ~Wins(s, new)
BY WinsIsStrictTotalOrder

LEMMA OperationParts ==
  ASSUME NEW op \in Operation
  PROVE  /\ op.stamp \in Stamp /\ op.entity \in Entity /\ op.id \in OpId
         /\ op.kind \in {"upsert", "patch", "delete"}
         /\ op.kind = "upsert" => op.content \in Content
         /\ op.kind = "patch" => op.content \in Patch /\ op.deleted \in Flag \cup {"unset"}
         /\ op.kind # "patch" => op.deleted \in Flag
         /\ op.kind = "delete" => op.deleted = "yes"
BY DEF Operation, Entity, Flag

(* A patched payload is a payload: a value for every field.                 *)
LEMMA PatchedType ==
  ASSUME NEW content \in Content, NEW patch \in Patch
  PROVE  Patched(content, patch) \in Content
BY DEF Patched, Content, Patch

(* An operation leaves the row as it was, or replaces it by one that        *)
(* carries its stamp.                                                       *)
LEMMA ApplyStateCases ==
  ASSUME NEW row \in StateRow \cup {NoRow}, NEW op \in Operation, NEW seq \in Nat
  PROVE  \/ ApplyState(row, op, seq) = row
         \/ /\ StateWins(row, op)
            /\ \E c \in Content \cup {NoContent}, d \in Flag :
                 /\ ApplyState(row, op, seq) = StateRowOf(c, d, op, seq)
                 /\ op.kind # "patch" => d = op.deleted
                 /\ d = "yes" => op.deleted # "no"
<1> USE OperationParts DEF StateRow
<1>1. CASE ~StateWins(row, op)
  BY <1>1 DEF ApplyState
<1>2. CASE StateWins(row, op) /\ op.kind = "upsert"
  BY <1>2 DEF ApplyState
<1>3. CASE StateWins(row, op) /\ op.kind = "delete"
  BY <1>3 DEF ApplyState
<1>4. CASE StateWins(row, op) /\ op.kind = "patch"
  <2>1. CASE row = NoRow \/ row.content = NoContent
    BY <1>4, <2>1 DEF ApplyState
  <2>2. CASE ~(row = NoRow \/ row.content = NoContent)
    <3>1. row.content \in Content /\ row.deleted \in Flag
      BY <2>2
    <3>2. Patched(row.content, op.content) \in Content
      BY <1>4, <3>1, PatchedType
    <3>3. QED
      BY <1>4, <2>2, <3>1, <3>2 DEF ApplyState
  <2>3. QED
    BY <2>1, <2>2
<1>5. QED
  BY <1>1, <1>2, <1>3, <1>4

LEMMA StateRowOfType ==
  ASSUME NEW c \in Content \cup {NoContent}, NEW d \in Flag,
         NEW op \in Operation, NEW seq \in Nat
  PROVE  /\ StateRowOf(c, d, op, seq) \in StateRow
         /\ StateRowOf(c, d, op, seq) # NoRow
         /\ StateRowOf(c, d, op, seq).stamp = op.stamp
         /\ StateRowOf(c, d, op, seq).seq = seq
         /\ StateRowOf(c, d, op, seq).deleted = d
<1>1. StateRowOf(c, d, op, seq) \in StateRow
  BY OperationParts DEF StateRowOf, StateRow
<1>2. QED
  BY <1>1, NoRowAssumption DEF StateRowOf

(* What an operation can do to a row: keep it, or replace it by a newer one.*)
LEMMA ApplyStateAdvances ==
  ASSUME NEW row \in StateRow \cup {NoRow}, NEW op \in Operation, NEW seq \in Nat,
         NEW new, new = ApplyState(row, op, seq)
  PROVE  /\ new \in StateRow \cup {NoRow}
         /\ \/ new = row
            \/ /\ new # NoRow /\ new.stamp = op.stamp /\ new.seq = seq
               /\ row = NoRow \/ Wins(new.stamp, row.stamp)
               /\ op.kind # "patch" => new.deleted = op.deleted
               /\ new.deleted = "yes" => op.deleted # "no"
<1>1. CASE new = row
  BY <1>1
<1>2. CASE new # row
  <2>1. PICK c \in Content \cup {NoContent}, d \in Flag :
          /\ new = StateRowOf(c, d, op, seq)
          /\ op.kind # "patch" => d = op.deleted
          /\ d = "yes" => op.deleted # "no"
    BY <1>2, ApplyStateCases
  <2>2. /\ new \in StateRow /\ new # NoRow /\ new.stamp = op.stamp /\ new.seq = seq
        /\ new.deleted = d
    <3>1. new = StateRowOf(c, d, op, seq)
      BY <2>1
    <3>2. QED
      BY <3>1, StateRowOfType
  <2>3. row = NoRow \/ Wins(new.stamp, row.stamp)
    BY <1>2, <2>2, ApplyStateCases DEF StateWins
  <2>4. QED
    BY <2>1, <2>2, <2>3
<1>3. QED
  BY <1>1, <1>2

(* Unless it is a patch, an operation is at most as new as the row it       *)
(* leaves behind.                                                           *)
LEMMA ApplyStateKeepsWinner ==
  ASSUME NEW row \in StateRow \cup {NoRow}, NEW op \in Operation, NEW seq \in Nat,
         op.kind # "patch",
         NEW new, new = ApplyState(row, op, seq)
  PROVE  new # NoRow /\ ~Wins(op.stamp, new.stamp)
<1>1. CASE ~StateWins(row, op)
  BY <1>1 DEF ApplyState, StateWins
<1>2. CASE StateWins(row, op)
  <2>1. \E c \in Content \cup {NoContent}, d \in Flag : new = StateRowOf(c, d, op, seq)
    BY <1>2, OperationParts DEF ApplyState, StateRow
  <2>2. new # NoRow /\ new.stamp = op.stamp
    BY <2>1, StateRowOfType
  <2>3. QED
    BY <2>2, OperationParts, WinsIsStrictTotalOrder
<1>3. QED
  BY <1>1, <1>2
-----------------------------------------------------------------------------
(* A nonempty set of naturals has a least element.                          *)
LEMMA LeastOfNaturals ==
  ASSUME NEW T \in SUBSET Nat, T # {}
  PROVE  \E t \in T : \A y \in T : t <= y
<1>1. PICK t \in T : \A y \in T : ~(<<y, t>> \in OpToRel(<, Nat))
  BY NatLessThanWellFounded, WFMin
<1>2. OpToRel(<, Nat) = {ss \in Nat \X Nat : ss[1] < ss[2]}
  BY DEF OpToRel
<1>3. ASSUME NEW y \in T PROVE t <= y
  <2>1. t \in Nat /\ y \in Nat
    OBVIOUS
  <2>2. ~(<<y, t>> \in {ss \in Nat \X Nat : ss[1] < ss[2]})
    BY <1>1, <1>2
  <2>3. <<y, t>> \in Nat \X Nat /\ <<y, t>>[1] = y /\ <<y, t>>[2] = t
    BY <2>1
  <2>4. ~(y < t)
    BY <2>2, <2>3
  <2>5. QED
    BY <2>1, <2>4
<1>4. QED
  BY <1>3

(* A nonempty set of naturals with an upper bound has a greatest element,   *)
(* and Max names it.                                                        *)
LEMMA MaxOfBounded ==
  ASSUME NEW S \in SUBSET Nat, S # {}, NEW b \in Nat, \A x \in S : x <= b
  PROVE  Max(S) \in S /\ \A x \in S : x <= Max(S)
<1> DEFINE T == {b - x : x \in S}
<1>1. T \subseteq Nat /\ T # {}
  <2>1. \A x \in S : b - x \in Nat
    OBVIOUS
  <2>2. \E x \in S : b - x \in T
    OBVIOUS
  <2>3. QED
    BY <2>1, <2>2
<1>2. PICK t \in T : \A y \in T : t <= y
  BY <1>1, LeastOfNaturals
<1>4. PICK m \in S : t = b - m
  OBVIOUS
<1>5. \A x \in S : m >= x
  BY <1>2, <1>4
<1>6. QED
  BY <1>5 DEF Max
-----------------------------------------------------------------------------
(* Recursion over the first numbers *)

(* Induction, for a set.                                                    *)
LEMMA NumbersByInduction ==
  ASSUME NEW A, 0 \in A, \A n \in Nat : n \in A => n + 1 \in A
  PROVE  Nat \subseteq A
<1>1. SUFFICES ASSUME Nat \ A # {} PROVE FALSE
  OBVIOUS
<1>2. PICK t \in Nat \ A : \A y \in Nat \ A : t <= y
  BY <1>1, LeastOfNaturals
<1>3. t # 0 /\ t - 1 \in Nat
  BY <1>2
<1>4. t - 1 \in A
  BY <1>2, <1>3
<1>5. QED
  BY <1>2, <1>3, <1>4

(* What holds of the first value and passes from each to the next holds of  *)
(* all of them.                                                             *)
LEMMA StepsStay ==
  ASSUME NEW R, NEW n \in Nat, NEW f, f[0] \in R,
         \A i \in 1..n : f[i - 1] \in R => f[i] \in R
  PROVE  \A i \in 0..n : f[i] \in R
<1> DEFINE A == {i \in Nat : i <= n => f[i] \in R}
<1>1. 0 \in A
  OBVIOUS
<1>2. ASSUME NEW i \in Nat, i \in A PROVE i + 1 \in A
  <2>1. CASE i + 1 <= n
    <3>1. i + 1 \in 1..n /\ (i + 1) - 1 = i /\ i <= n
      BY <2>1
    <3>2. f[i] \in R
      BY <1>2, <3>1
    <3>3. f[i + 1] \in R
      BY <3>1, <3>2
    <3>4. QED
      BY <3>3
  <2>2. QED
    BY <2>1
<1> HIDE DEF A
<1>3. Nat \subseteq A
  BY <1>1, <1>2, NumbersByInduction
<1>4. QED
  BY <1>3 DEF A

(* A function defined by recursion over the first numbers exists.           *)
Steps(f, n, first, step) ==
  f = [i \in 0..n |-> IF i = 0 THEN first ELSE step[i][f[i - 1]]]

LEMMA StepsExist ==
  ASSUME NEW R, NEW first \in R, NEW n \in Nat, NEW step \in [1..n -> [R -> R]]
  PROVE  \E f \in [0..n -> R] : Steps(f, n, first, step)
<1> DEFINE Following(f, i) == IF i = 0 THEN first ELSE step[i][f[i - 1]]
           A == {k \in Nat : \E f \in [0..n -> R] :
                               \A i \in 0..n : i <= k => f[i] = Following(f, i)}
<1>1. ASSUME NEW f \in [0..n -> R], NEW i \in 0..n PROVE Following(f, i) \in R
  <2>1. CASE i = 0
    BY <2>1
  <2>2. CASE i # 0
    <3>1. i \in 1..n /\ i - 1 \in 0..n
      BY <2>2
    <3>2. QED
      BY <2>2, <3>1
  <2>3. QED
    BY <2>1, <2>2
<1>2. 0 \in A
  <2> DEFINE f == [i \in 0..n |-> first]
  <2>1. f \in [0..n -> R] /\ \A i \in 0..n : i <= 0 => f[i] = Following(f, i)
    OBVIOUS
  <2> HIDE DEF f, Following
  <2>2. QED
    BY <2>1
<1>3. ASSUME NEW k \in Nat, k \in A PROVE k + 1 \in A
  <2>1. PICK f \in [0..n -> R] : \A i \in 0..n : i <= k => f[i] = Following(f, i)
    BY <1>3
  <2> DEFINE g == [i \in 0..n |-> Following(f, i)]
  <2>2. g \in [0..n -> R] /\ \A i \in 0..n : g[i] = Following(f, i)
    <3> HIDE DEF Following
    <3>1. QED
      BY <1>1
  <2> HIDE DEF g
  <2>3. ASSUME NEW i \in 0..n, i <= k + 1 PROVE g[i] = Following(g, i)
    <3>1. CASE i = 0
      BY <2>2, <3>1
    <3>2. CASE i # 0
      <4>1. i - 1 \in 0..n /\ i - 1 <= k
        BY <2>3, <3>2
      <4>2. g[i - 1] = f[i - 1]
        <5> HIDE DEF Following
        <5>1. QED
          BY <2>1, <2>2, <4>1
      <4>3. QED
        BY <2>2, <3>2, <4>2
    <3>3. QED
      BY <3>1, <3>2
  <2> HIDE DEF Following
  <2>4. \A i \in 0..n : i <= k + 1 => g[i] = Following(g, i)
    BY <2>3
  <2>5. QED
    BY <2>2, <2>4
<1> HIDE DEF Following
<1>4. n \in A
  <2> HIDE DEF A
  <2>1. QED
    BY <1>2, <1>3, NumbersByInduction
<1>5. PICK f \in [0..n -> R] : \A i \in 0..n : f[i] = Following(f, i)
  BY <1>4
<1>6. f = [i \in 0..n |-> Following(f, i)]
  BY <1>5
<1>7. QED
  BY <1>6 DEF Following, Steps
=============================================================================
