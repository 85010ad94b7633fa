------------------------ MODULE AttachmentSyncProofs ------------------------
(***************************************************************************)
(* What the relay holds and takes, in which order it drops bytes, and what *)
(* a desktop keeps of them, for any devices, contents, limits and failures.*)
(* The limits are sums over sets and the chunks a fold, both recursive     *)
(* functions: the first section shows that they exist and what they are,   *)
(* by induction over the subsets of a finite set.                          *)
(***************************************************************************)
EXTENDS AttachmentSync, TLAPS, FiniteSetTheorems, WellFoundedInduction

(* A nonempty set of naturals has a least element.                          *)
LEMMA LeastOfNaturals ==
  ASSUME NEW T \in SUBSET Nat, T # {}
  PROVE  \E t \in T : \A y \in T : t <= y
<1>1. PICK t \in T : \A y \in T : ~(<<y, t>> \in OpToRel(<, Nat))
  BY NatLessThanWellFounded, WFMin
<1>2. OpToRel(<, Nat) = {ss \in Nat \X Nat : ss[1] < ss[2]}
  BY DEF OpToRel
<1>3. ASSUME NEW y \in T PROVE t <= y
  <2>1. t \in Nat /\ y \in Nat
    OBVIOUS
  <2>2. ~(<<y, t>> \in {ss \in Nat \X Nat : ss[1] < ss[2]})
    BY <1>1, <1>2
  <2>3. <<y, t>> \in Nat \X Nat /\ <<y, t>>[1] = y /\ <<y, t>>[2] = t
    BY <2>1
  <2>4. ~(y < t)
    BY <2>2, <2>3
  <2>5. QED
    BY <2>1, <2>4
<1>4. QED
  BY <1>3

(* Induction over the naturals, for the members of a set.                   *)
LEMMA InductionOverNat ==
  ASSUME NEW A, 0 \in A, \A n \in Nat : n \in A => n + 1 \in A
  PROVE  Nat \subseteq A
<1>1. SUFFICES ASSUME Nat \ A # {} PROVE FALSE
  OBVIOUS
<1>2. PICK t \in Nat \ A : \A y \in Nat \ A : t <= y
  BY <1>1, LeastOfNaturals
<1>3. t # 0 /\ t - 1 \in Nat
  BY <1>2
<1>4. t - 1 \in A
  BY <1>2, <1>3
<1>5. QED
  BY <1>2, <1>3, <1>4

(* Induction over the subsets of a finite set.                              *)
LEMMA InductionOverSubsets ==
  ASSUME NEW S, IsFiniteSet(S), NEW A,
         \A T \in SUBSET S : (\A x \in T : T \ {x} \in A) => T \in A
  PROVE  SUBSET S \subseteq A
<1> DEFINE bad == (SUBSET S) \ A
           sizes == {Cardinality(T) : T \in bad}
<1>1. SUFFICES ASSUME bad # {} PROVE FALSE
  OBVIOUS
<1>2. \A T \in SUBSET S : IsFiniteSet(T) /\ Cardinality(T) \in Nat
  BY FS_Subset, FS_CardinalityType
<1>3. sizes \in SUBSET Nat /\ sizes # {}
  BY <1>1, <1>2
<1>4. PICK n \in sizes : \A k \in sizes : n <= k
  BY <1>3, LeastOfNaturals
<1>5. PICK T \in bad : n = Cardinality(T)
  BY <1>4
<1>6. ASSUME NEW x \in T PROVE T \ {x} \in A
  <2>1. Cardinality(T \ {x}) = Cardinality(T) - 1 /\ Cardinality(T) \in Nat
        /\ Cardinality(T \ {x}) \in Nat
    BY <1>2, FS_RemoveElement
  <2>2. T \ {x} \in bad => n <= Cardinality(T \ {x})
    BY <1>4
  <2>3. T \ {x} \notin bad
    BY <1>5, <2>1, <2>2
  <2>4. QED
    BY <2>3
<1>7. QED
  BY <1>5, <1>6

-----------------------------------------------------------------------------
(* A fold over the subsets of a finite set exists: an operator like         *)
(* MapThenFoldSet, defined by recursion over them, is what it says.         *)
FoldsFrom(it, s, first, step, pick) ==
  IF s = {} THEN first ELSE step[pick[s]][it[s \ {pick[s]}]]

Folds(it, S, first, step, pick) ==
  \A s \in SUBSET S : it[s] = FoldsFrom(it, s, first, step, pick)
Picks(pick, S) == \A s \in SUBSET S : s # {} => pick[s] \in s

LEMMA FoldExists ==
  ASSUME NEW S, IsFiniteSet(S), NEW R, NEW first \in R, NEW step \in [S -> [R -> R]],
         NEW pick, Picks(pick, S)
  PROVE  \E it \in [SUBSET S -> R] : Folds(it, S, first, step, pick)
<1> DEFINE Good(it, n) == \A s \in SUBSET S : Cardinality(s) < n =>
                            it[s] = FoldsFrom(it, s, first, step, pick)
           A == {n \in Nat : \E it \in [SUBSET S -> R] : Good(it, n)}
<1>1. \A s \in SUBSET S : IsFiniteSet(s) /\ Cardinality(s) \in Nat /\ Cardinality(s) <= Cardinality(S)
  BY FS_Subset, FS_CardinalityType
<1>2. 0 \in A
  <2>1. [s \in SUBSET S |-> first] \in [SUBSET S -> R]
    OBVIOUS
  <2>2. Good([s \in SUBSET S |-> first], 0)
    BY <1>1
  <2>3. QED
    BY <2>1, <2>2
<1>3. ASSUME NEW n \in Nat, n \in A PROVE n + 1 \in A
  <2>1. PICK it \in [SUBSET S -> R] : Good(it, n)
    BY <1>3
  <2> DEFINE more == [s \in SUBSET S |-> FoldsFrom(it, s, first, step, pick)]
  <2>2. ASSUME NEW s \in SUBSET S PROVE more[s] \in R /\ more[s] = FoldsFrom(it, s, first, step, pick)
    <3>1. s # {} => pick[s] \in S /\ s \ {pick[s]} \in SUBSET S
      BY DEF Picks
    <3>2. s # {} => it[s \ {pick[s]}] \in R
      BY <3>1
    <3>3. s # {} => step[pick[s]][it[s \ {pick[s]}]] \in R
      BY <3>1, <3>2
    <3>4. QED
      BY <3>3 DEF FoldsFrom
  <2>3. more \in [SUBSET S -> R]
    <3> HIDE DEF FoldsFrom
    <3>1. QED
      BY <2>2
  <2>4. ASSUME NEW s \in SUBSET S, Cardinality(s) < n + 1
        PROVE  more[s] = FoldsFrom(more, s, first, step, pick)
    <3>1. CASE s = {}
      BY <3>1 DEF FoldsFrom
    <3>2. CASE s # {}
      <4>1. pick[s] \in s
        BY <3>2 DEF Picks
      <4>2. Cardinality(s \ {pick[s]}) < n
        <5>1. Cardinality(s \ {pick[s]}) = Cardinality(s) - 1
          BY <1>1, <4>1, FS_RemoveElement
        <5>2. Cardinality(s) \in Nat
          BY <1>1
        <5>3. QED
          BY <2>4, <5>1, <5>2
      <4>3. more[s \ {pick[s]}] = it[s \ {pick[s]}]
        BY <2>1, <2>2, <4>2
      <4>4. QED
        BY <2>2, <3>2, <4>3 DEF FoldsFrom
    <3>3. QED
      BY <3>1, <3>2
  <2> HIDE DEF more
  <2>5. Good(more, n + 1)
    BY <2>4
  <2>6. QED
    BY <2>3, <2>5
<1>4. Cardinality(S) + 1 \in A
  <2>1. Nat \subseteq A
    <3>1. \A n \in Nat : n \in A => n + 1 \in A
      BY <1>3
    <3> HIDE DEF A
    <3>2. QED
      BY <1>2, <3>1, InductionOverNat
  <2>2. Cardinality(S) + 1 \in Nat
    BY FS_CardinalityType
  <2> HIDE DEF A
  <2>3. QED
    BY <2>1, <2>2
<1>5. PICK it \in [SUBSET S -> R] : Good(it, Cardinality(S) + 1)
  BY <1>4
<1>6. \A s \in SUBSET S : it[s] = FoldsFrom(it, s, first, step, pick)
  <2>1. \A s \in SUBSET S : Cardinality(s) < Cardinality(S) + 1
    BY <1>1
  <2>2. QED
    BY <1>5, <2>1
<1>7. QED
  BY <1>6 DEF Folds

-----------------------------------------------------------------------------
(* Sums over a finite set of what w says of its members: MapThenSumSet.     *)
Chosen(s) == CHOOSE x \in s : TRUE

Summing(w, S, it) ==
  it = [s \in SUBSET S |-> IF s = {} THEN 0 ELSE w[Chosen(s)] + it[s \ {Chosen(s)}]]
SumOf(w, S) == (CHOOSE it : Summing(w, S, it))[S]

Weighs(w, S) == IsFiniteSet(S) /\ \A x \in S : w[x] \in Nat

LEMMA SumExists ==
  ASSUME NEW w, NEW S, Weighs(w, S)
  PROVE  \E it \in [SUBSET S -> Nat] : Summing(w, S, it)
<1> DEFINE step == [x \in S |-> [n \in Nat |-> w[x] + n]]
           pick == [s \in SUBSET S |-> Chosen(s)]
<1>1. \A s \in SUBSET S : s # {} => pick[s] \in s /\ pick[s] = Chosen(s)
  BY DEF Chosen
<1>2. step \in [S -> [Nat -> Nat]]
  BY DEF Weighs
<1>3. \A x \in S, n \in Nat : step[x][n] = w[x] + n
  OBVIOUS
<1> HIDE DEF step, pick
<1>4. PICK it \in [SUBSET S -> Nat] : Folds(it, S, 0, step, pick)
  <2>1. IsFiniteSet(S) /\ 0 \in Nat /\ Picks(pick, S)
    BY <1>1 DEF Weighs, Picks
  <2>2. QED
    BY <1>2, <2>1, FoldExists
<1>5. ASSUME NEW s \in SUBSET S, s # {}
      PROVE  FoldsFrom(it, s, 0, step, pick) = w[Chosen(s)] + it[s \ {Chosen(s)}]
  <2>1. Chosen(s) \in S /\ s \ {Chosen(s)} \in SUBSET S /\ pick[s] = Chosen(s)
    BY <1>1, <1>5
  <2>2. it[s \ {Chosen(s)}] \in Nat
    BY <2>1
  <2>3. QED
    BY <1>3, <1>5, <2>1, <2>2 DEF FoldsFrom
<1>6. \A s \in SUBSET S : it[s] = IF s = {} THEN 0 ELSE w[Chosen(s)] + it[s \ {Chosen(s)}]
  <2>1. \A s \in SUBSET S : it[s] = FoldsFrom(it, s, 0, step, pick)
    BY <1>4 DEF Folds
  <2>2. FoldsFrom(it, {}, 0, step, pick) = 0
    BY DEF FoldsFrom
  <2>3. QED
    BY <1>5, <2>1, <2>2
<1>7. QED
  BY <1>6 DEF Summing

(* Two functions that sum the members of a set agree on it.                 *)
LEMMA SumAgrees ==
  ASSUME NEW w, NEW S, NEW T \in SUBSET S, IsFiniteSet(S),
         NEW f, NEW g, Summing(w, S, f), Summing(w, T, g)
  PROVE  f[T] = g[T]
<1> DEFINE A == {s \in SUBSET T : f[s] = g[s]}
<1>1. IsFiniteSet(T)
  BY FS_Subset
<1>2. ASSUME NEW s \in SUBSET T, \A x \in s : s \ {x} \in A PROVE s \in A
  <2>1. s # {} => Chosen(s) \in s
    BY DEF Chosen
  <2>2. s # {} => f[s \ {Chosen(s)}] = g[s \ {Chosen(s)}]
    BY <1>2, <2>1
  <2>3. f[s] = IF s = {} THEN 0 ELSE w[Chosen(s)] + f[s \ {Chosen(s)}]
    BY DEF Summing
  <2>4. g[s] = IF s = {} THEN 0 ELSE w[Chosen(s)] + g[s \ {Chosen(s)}]
    BY DEF Summing
  <2>5. f[s] = g[s]
    BY <2>2, <2>3, <2>4
  <2>6. QED
    BY <2>5
<1>3. SUBSET T \subseteq A
  <2> HIDE DEF A
  <2>1. QED
    BY <1>1, <1>2, InductionOverSubsets
<1>4. QED
  BY <1>3

LEMMA SumUnfolds ==
  ASSUME NEW w, NEW S, Weighs(w, S)
  PROVE  /\ SumOf(w, S) \in Nat
         /\ S = {} => SumOf(w, S) = 0
         /\ S # {} => /\ Chosen(S) \in S
                      /\ SumOf(w, S) = w[Chosen(S)] + SumOf(w, S \ {Chosen(S)})
<1>1. PICK it \in [SUBSET S -> Nat] : Summing(w, S, it)
  BY SumExists
<1> DEFINE f == CHOOSE g : Summing(w, S, g)
<1>2. Summing(w, S, f)
  BY <1>1
<1>3. SumOf(w, S) = f[S]
  BY DEF SumOf
<1> HIDE DEF f
<1>4. f[S] = it[S]
  BY <1>1, <1>2, SumAgrees DEF Weighs
<1>5. S = {} => f[S] = 0
  BY <1>2 DEF Summing
<1>6. ASSUME S # {} PROVE Chosen(S) \in S /\ f[S] = w[Chosen(S)] + SumOf(w, S \ {Chosen(S)})
  <2> DEFINE T == S \ {Chosen(S)}
             h == CHOOSE g : Summing(w, T, g)
  <2>1. Chosen(S) \in S
    BY <1>6 DEF Chosen
  <2>2. T \in SUBSET S /\ Weighs(w, T)
    BY FS_Subset DEF Weighs
  <2>3. Summing(w, T, h)
    <3> HIDE DEF T
    <3>1. QED
      BY <2>2, SumExists
  <2>4. SumOf(w, T) = h[T]
    BY DEF SumOf
  <2>5. f[S] = w[Chosen(S)] + f[T]
    BY <1>2, <1>6 DEF Summing
  <2> HIDE DEF T, h
  <2>6. f[T] = h[T]
    BY <1>2, <2>2, <2>3, SumAgrees DEF Weighs
  <2>7. SumOf(w, T) = f[T]
    BY <2>4, <2>6
  <2>8. QED
    BY <2>1, <2>5, <2>7 DEF T
<1>7. QED
  BY <1>3, <1>4, <1>5, <1>6

(* A sum does not depend on the order: any member may be taken out first.   *)
LEMMA SumWithout ==
  ASSUME NEW w, NEW H, Weighs(w, H), NEW S \in SUBSET H, NEW x \in S
  PROVE  SumOf(w, S) = w[x] + SumOf(w, S \ {x})
<1> DEFINE A == {T \in SUBSET H : \A y \in T : SumOf(w, T) = w[y] + SumOf(w, T \ {y})}
<1>1. \A T \in SUBSET H : Weighs(w, T) /\ SumOf(w, T) \in Nat
  BY FS_Subset, SumUnfolds DEF Weighs
<1>2. ASSUME NEW T \in SUBSET H, \A y \in T : T \ {y} \in A PROVE T \in A
  <2> DEFINE c == Chosen(T)
  <2>1. SUFFICES ASSUME NEW y \in T, y # c PROVE SumOf(w, T) = w[y] + SumOf(w, T \ {y})
    BY <1>1, SumUnfolds
  <2>2. c \in T /\ SumOf(w, T) = w[c] + SumOf(w, T \ {c})
    BY <1>1, SumUnfolds
  <2> HIDE DEF c
  <2>3. SumOf(w, T \ {c}) = w[y] + SumOf((w), (T \ {c}) \ {y})
    BY <1>2, <2>1, <2>2
  <2>4. SumOf(w, T \ {y}) = w[c] + SumOf(w, (T \ {y}) \ {c})
    BY <1>2, <2>1, <2>2
  <2>5. (T \ {y}) \ {c} = (T \ {c}) \ {y}
    OBVIOUS
  <2>6. SumOf(w, (T \ {c}) \ {y}) \in Nat /\ w[c] \in Nat /\ w[y] \in Nat
    BY <1>1, <2>2 DEF Weighs
  <2>7. QED
    BY <2>2, <2>3, <2>4, <2>5, <2>6
<1>3. SUBSET H \subseteq A
  <2> HIDE DEF A
  <2>1. QED
    BY <1>2, InductionOverSubsets DEF Weighs
<1>4. QED
  BY <1>3

(* The sum of a set is that of a part and that of the rest.                 *)
LEMMA SumSplits ==
  ASSUME NEW w, NEW S, Weighs(w, S), NEW T \in SUBSET S
  PROVE  /\ SumOf(w, S) \in Nat /\ SumOf(w, T) \in Nat /\ SumOf(w, S \ T) \in Nat
         /\ SumOf(w, S) = SumOf(w, T) + SumOf(w, S \ T)
<1> DEFINE A == {s \in SUBSET S : SumOf(w, S) = SumOf(w, s) + SumOf(w, S \ s)}
<1>1. \A s \in SUBSET S : Weighs(w, s) /\ SumOf(w, s) \in Nat
  BY FS_Subset, SumUnfolds DEF Weighs
<1>2. ASSUME NEW s \in SUBSET S, \A y \in s : s \ {y} \in A PROVE s \in A
  <2>1. CASE s = {}
    <3>1. SumOf(w, s) = 0 /\ S \ s = S
      BY <1>1, <2>1, SumUnfolds
    <3>2. SumOf(w, S) \in Nat
      BY <1>1
    <3>3. QED
      BY <3>1, <3>2
  <2>2. CASE s # {}
    <3>1. PICK y \in s : TRUE
      BY <2>2
    <3> DEFINE rest == S \ s
               more == S \ (s \ {y})
    <3>2. SumOf(w, S) = SumOf(w, s \ {y}) + SumOf(w, more)
      BY <1>2
    <3>3. SumOf(w, s) = w[y] + SumOf(w, s \ {y})
      BY SumWithout
    <3>4. more \ {y} = rest /\ y \in more /\ more \in SUBSET S
      OBVIOUS
    <3>5. SumOf(w, more) = w[y] + SumOf(w, rest)
      <4> HIDE DEF more, rest
      <4>1. SumOf(w, more) = w[y] + SumOf(w, more \ {y})
        BY <3>4, SumWithout
      <4>2. QED
        BY <3>4, <4>1
    <3>6. SumOf(w, rest) \in Nat /\ SumOf(w, s \ {y}) \in Nat /\ w[y] \in Nat
      BY <1>1 DEF Weighs
    <3> HIDE DEF more
    <3>7. QED
      BY <3>2, <3>3, <3>5, <3>6
  <2>3. QED
    BY <2>1, <2>2
<1>3. SUBSET S \subseteq A
  <2> HIDE DEF A
  <2>1. QED
    BY <1>2, InductionOverSubsets DEF Weighs
<1>4. QED
  BY <1>1, <1>3

-----------------------------------------------------------------------------
(* Bytes *)

LEMMA BytesAreSum == ASSUME NEW S PROVE BytesOf(S) = SumOf(Size, S)
BY DEF BytesOf, MapThenSumSet, MapThenFoldSet, SumOf, Summing, Chosen

LEMMA HashesWeigh ==
  ASSUME NEW S \in SUBSET Hash
  PROVE  IsFiniteSet(S) /\ Cardinality(S) \in Nat /\ Weighs(Size, S)
BY HashAssumption, FS_Subset, FS_CardinalityType DEF Weighs

(* The bytes of a set are those of a part and those of the rest.            *)
LEMMA BytesSplit ==
  ASSUME NEW S \in SUBSET Hash, NEW T \in SUBSET S
  PROVE  /\ BytesOf(S) \in Nat /\ BytesOf(T) \in Nat /\ BytesOf(S \ T) \in Nat
         /\ BytesOf(S) = BytesOf(T) + BytesOf(S \ T)
         /\ BytesOf(T) <= BytesOf(S)
<1>1. /\ SumOf(Size, S) \in Nat /\ SumOf(Size, T) \in Nat /\ SumOf(Size, S \ T) \in Nat
      /\ SumOf(Size, S) = SumOf(Size, T) + SumOf(Size, S \ T)
  BY HashesWeigh, SumSplits
<1>2. QED
  BY <1>1, BytesAreSum

LEMMA BytesAreNat == \A S \in SUBSET Hash : BytesOf(S) \in Nat
<1> SUFFICES ASSUME NEW S \in SUBSET Hash PROVE BytesOf(S) \in Nat
  OBVIOUS
<1>1. S \in SUBSET S
  OBVIOUS
<1>2. QED
  BY <1>1, BytesSplit

LEMMA BytesOfFew ==
  /\ BytesOf({}) = 0
  /\ \A h \in Hash : BytesOf({h}) = Size[h]
<1>1. SumOf(Size, {}) = 0
  BY HashesWeigh, SumUnfolds
<1>2. ASSUME NEW h \in Hash PROVE SumOf(Size, {h}) = Size[h]
  <2>1. {h} # {} /\ Chosen({h}) = h /\ {h} \ {h} = {} /\ Size[h] \in Nat
    BY HashAssumption DEF Chosen
  <2>2. SumOf(Size, {h}) = Size[h] + SumOf(Size, {h} \ {h})
    BY <2>1, HashesWeigh, SumUnfolds
  <2>3. QED
    BY <1>1, <2>1, <2>2
<1>3. QED
  BY <1>1, <1>2, BytesAreSum

(* Two sets that have nothing in common.                                    *)
LEMMA BytesOfBoth ==
  ASSUME NEW S \in SUBSET Hash, NEW T \in SUBSET Hash, S \cap T = {}
  PROVE  BytesOf(S \cup T) = BytesOf(S) + BytesOf(T)
<1>1. (S \cup T) \ S = T /\ S \in SUBSET (S \cup T) /\ S \cup T \in SUBSET Hash
  OBVIOUS
<1>2. BytesOf(S \cup T) = BytesOf(S) + BytesOf((S \cup T) \ S)
  BY <1>1, BytesSplit
<1>3. QED
  BY <1>1, <1>2

-----------------------------------------------------------------------------
(* The relay *)

RelayTyped(r) ==
  /\ DOMAIN r \in SUBSET Hash
  /\ \A h \in DOMAIN r : r[h] \in Entries /\ r[h].expires = r[h].created + Ttl

Within(r) ==
  /\ BytesOf(DOMAIN r) <= TotalBytes
  /\ \A d \in Device : BytesOf(OwnedBy(r, d)) <= DeviceBytes

(* s is what is left of r.                                                  *)
LeftOf(s, r) == DOMAIN s \subseteq DOMAIN r /\ \A h \in DOMAIN s : s[h] = r[h]

LEMMA WithoutLeaves ==
  ASSUME NEW r, NEW S
  PROVE  LeftOf(Without(r, S), r) /\ DOMAIN Without(r, S) = DOMAIN r \ S
BY DEF LeftOf, Without, Restrict

LEMMA UnexpiredLeaves == ASSUME NEW r, NEW now PROVE LeftOf(Unexpired(r, now), r)
BY DEF LeftOf, Unexpired, Restrict

LEMMA LeftStaysWithin ==
  ASSUME NEW r, NEW s, RelayTyped(r), LeftOf(s, r)
  PROVE  /\ RelayTyped(s)
         /\ \A d : OwnedBy(s, d) \subseteq OwnedBy(r, d)
         /\ Within(r) => Within(s)
<1>1. RelayTyped(s)
  BY DEF RelayTyped, LeftOf
<1>2. ASSUME NEW d PROVE OwnedBy(s, d) \subseteq OwnedBy(r, d) /\ OwnedBy(r, d) \in SUBSET Hash
  BY DEF OwnedBy, LeftOf, RelayTyped
<1>3. ASSUME Within(r) PROVE Within(s)
  <2>1. /\ BytesOf(DOMAIN s) <= BytesOf(DOMAIN r)
        /\ BytesOf(DOMAIN s) \in Nat /\ BytesOf(DOMAIN r) \in Nat
    <3>1. DOMAIN s \in SUBSET (DOMAIN r) /\ DOMAIN r \in SUBSET Hash
      BY DEF LeftOf, RelayTyped
    <3>2. QED
      BY <3>1, BytesSplit
  <2>2. ASSUME NEW d \in Device
        PROVE  /\ BytesOf(OwnedBy(s, d)) <= BytesOf(OwnedBy(r, d))
               /\ BytesOf(OwnedBy(s, d)) \in Nat /\ BytesOf(OwnedBy(r, d)) \in Nat
    BY <1>2, BytesSplit
  <2>3. QED
    BY <1>3, <2>1, <2>2, LimitAssumption DEF Within
<1>4. QED
  BY <1>1, <1>2, <1>3

(* The least of a nonempty set of naturals is what Min names.               *)
LEMMA MinIsLeast ==
  ASSUME NEW T \in SUBSET Nat, T # {}
  PROVE  Min(T) \in T /\ \A y \in T : Min(T) <= y
BY LeastOfNaturals DEF Min

(* Evicting the oldest leaves no more than the room there is.               *)
LEMMA EvictionMakesRoom ==
  ASSUME NEW r, RelayTyped(r), NEW S \in SUBSET (DOMAIN r), NEW room \in Nat
  PROVE  /\ Evicted(r, S, room) \subseteq S
         /\ BytesOf(S \ Evicted(r, S, room)) <= room
<1> DEFINE fits  == {n \in 0..Cardinality(S) : BytesOf(S \ Oldest(r, S, n)) <= room}
           count == Min(fits \cup {Cardinality(S)})
<1>1. S \in SUBSET Hash /\ IsFiniteSet(S) /\ Cardinality(S) \in Nat
  BY HashesWeigh DEF RelayTyped
<1>2. Evicted(r, S, room) = Oldest(r, S, count)
  BY DEF Evicted
<1>3. Oldest(r, S, count) \subseteq S
  BY DEF Oldest
<1>4. count \in fits \/ count = Cardinality(S)
  <2>1. fits \cup {Cardinality(S)} \in SUBSET Nat
    BY <1>1
  <2> HIDE DEF fits
  <2>2. QED
    BY <2>1, MinIsLeast
<1>5. ASSUME count = Cardinality(S) PROVE Oldest(r, S, count) = S
  <2>1. ASSUME NEW h \in S PROVE Cardinality({g \in S : Older(r, g, h)}) < Cardinality(S)
    <3> DEFINE T == {g \in S : Older(r, g, h)}
    <3>1. r[h].created \in Nat /\ r[h].expires \in Nat /\ h \in Nat
      BY <1>1, HashAssumption DEF RelayTyped, Entries
    <3>2. h \notin T
      BY <3>1 DEF Older
    <3>3. T \in SUBSET S /\ T # S
      BY <3>2
    <3> HIDE DEF T
    <3>4. Cardinality(T) <= Cardinality(S) /\ Cardinality(T) # Cardinality(S) /\ Cardinality(T) \in Nat
      BY <1>1, <3>3, FS_Subset, FS_CardinalityType
    <3>5. Cardinality(T) < Cardinality(S)
      BY <1>1, <3>4
    <3>6. QED
      BY <3>5 DEF T
  <2>2. QED
    BY <1>5, <2>1 DEF Oldest
<1>6. BytesOf(S \ Oldest(r, S, count)) <= room
  <2>1. CASE count \in fits
    BY <2>1
  <2> HIDE DEF count, fits
  <2>2. CASE count = Cardinality(S)
    <3>1. S \ Oldest(r, S, count) = {}
      BY <1>5, <2>2
    <3>2. QED
      BY <3>1, BytesOfFew
  <2>3. QED
    BY <1>4, <2>1, <2>2
<1> HIDE DEF count
<1>7. QED
  BY <1>2, <1>3, <1>6

(* Bytes that fit a window are never refused for want of capacity.          *)
LEMMA MakeRoomFits ==
  ASSUME NEW r, RelayTyped(r), NEW d, NEW S \in SUBSET Hash, BytesOf(S) <= DeviceBytes
  PROVE  /\ LeftOf(MakeRoom(r, d, S), r) /\ DOMAIN MakeRoom(r, d, S) \cap S = {}
         /\ Fits(MakeRoom(r, d, S), d, S)
<1> DEFINE others == Without(r, S)
           mine == OwnedBy(others, d)
           room == DeviceBytes - BytesOf(S)
           own == Without(others, Evicted(others, mine, room))
           all == TotalBytes - BytesOf(S)
           left == Without(own, Evicted(own, DOMAIN own, all))
<1>1. MakeRoomForSender(r, d, S) = own /\ MakeRoom(r, d, S) = left
  BY DEF MakeRoomForSender, MakeRoom
<1>2. BytesOf(S) \in Nat /\ room \in Nat /\ all \in Nat
  BY BytesAreNat, LimitAssumption
<1>3. RelayTyped(others) /\ LeftOf(others, r) /\ DOMAIN others = DOMAIN r \ S
  BY WithoutLeaves, LeftStaysWithin
<1>4. mine \in SUBSET (DOMAIN others)
  BY DEF OwnedBy
<1> HIDE DEF others, room, all
<1>5. BytesOf(mine \ Evicted(others, mine, room)) <= room
  BY <1>2, <1>3, <1>4, EvictionMakesRoom
<1>6. RelayTyped(own) /\ LeftOf(own, others)
  BY <1>3, WithoutLeaves, LeftStaysWithin
<1>7. OwnedBy(own, d) = mine \ Evicted(others, mine, room)
  <2> DEFINE gone == Evicted(others, mine, room)
  <2>1. DOMAIN own = DOMAIN others \ gone
    BY WithoutLeaves
  <2>2. \A h \in DOMAIN own : own[h] = others[h]
    BY <1>6 DEF LeftOf
  <2> HIDE DEF own, gone
  <2>3. QED
    BY <2>1, <2>2 DEF OwnedBy, mine, gone
<1> HIDE DEF own, mine
<1>8. /\ Evicted(own, DOMAIN own, all) \subseteq DOMAIN own
      /\ BytesOf(DOMAIN own \ Evicted(own, DOMAIN own, all)) <= all
  BY <1>2, <1>6, EvictionMakesRoom
<1>9. RelayTyped(left) /\ LeftOf(left, own) /\ OwnedBy(left, d) \subseteq OwnedBy(own, d)
      /\ DOMAIN left = DOMAIN own \ Evicted(own, DOMAIN own, all)
  BY <1>6, WithoutLeaves, LeftStaysWithin
<1> HIDE DEF left
<1>10. BytesOf(DOMAIN left) + BytesOf(S) <= TotalBytes
  <2>1. BytesOf(DOMAIN left) \in Nat
    BY <1>9, BytesSplit DEF RelayTyped
  <2>2. BytesOf(DOMAIN left) <= all
    BY <1>8, <1>9
  <2>3. QED
    BY <1>2, <2>1, <2>2, LimitAssumption DEF all
<1>11. BytesOf(OwnedBy(left, d)) + BytesOf(S) <= DeviceBytes
  <2>1. OwnedBy(own, d) \in SUBSET Hash
    BY <1>6 DEF RelayTyped, OwnedBy
  <2>2. BytesOf(OwnedBy(left, d)) <= BytesOf(OwnedBy(own, d)) /\ BytesOf(OwnedBy(left, d)) \in Nat
        /\ BytesOf(OwnedBy(own, d)) \in Nat
    BY <1>9, <2>1, BytesSplit
  <2>3. BytesOf(OwnedBy(own, d)) <= room
    BY <1>5, <1>7
  <2>4. QED
    BY <1>2, <2>2, <2>3, LimitAssumption DEF room
<1>12. LeftOf(left, r) /\ DOMAIN left \cap S = {}
  BY <1>3, <1>6, <1>9 DEF LeftOf
<1>13. QED
  BY <1>1, <1>10, <1>11, <1>12 DEF Fits

(* Storing keeps the limits, and what fits a window is stored.              *)
LEMMA StoredStaysWithin ==
  ASSUME NEW r, RelayTyped(r), Within(r), NEW d \in Device, NEW S \in SUBSET Hash,
         NEW now \in Nat
  PROVE  RelayTyped(Stored(r, d, S, now)) /\ Within(Stored(r, d, S, now))
<1>1. CASE BytesOf(S) > DeviceBytes
  BY <1>1 DEF Stored
<1>2. CASE ~(BytesOf(S) > DeviceBytes)
  <2> DEFINE room == MakeRoom(r, d, S)
             new == With(room, S, Entry(d, now))
  <2>1. BytesOf(S) \in Nat /\ BytesOf(S) <= DeviceBytes
    BY <1>2, BytesAreNat, LimitAssumption
  <2>2. LeftOf(room, r) /\ DOMAIN room \cap S = {} /\ Fits(room, d, S)
    BY <2>1, MakeRoomFits
  <2>3. Stored(r, d, S, now) = new
    BY <1>2, <2>2 DEF Stored
  <2> HIDE DEF room
  <2>4. RelayTyped(room) /\ Within(room)
    BY <2>2, LeftStaysWithin
  <2>5. /\ Entry(d, now) \in Entries /\ Entry(d, now).device = d
        /\ Entry(d, now).expires = Entry(d, now).created + Ttl
    BY TtlAssumption DEF Entry, Entries
  <2>6. /\ DOMAIN new = S \cup DOMAIN room
        /\ \A h \in S : new[h] = Entry(d, now)
        /\ \A h \in DOMAIN room : new[h] = room[h]
    BY <2>2 DEF With
  <2> HIDE DEF new
  <2>7. RelayTyped(new)
    BY <2>4, <2>5, <2>6 DEF RelayTyped
  <2>8. BytesOf(DOMAIN new) <= TotalBytes
    <3>1. BytesOf(S \cup DOMAIN room) = BytesOf(S) + BytesOf(DOMAIN room)
      BY <2>2, <2>4, BytesOfBoth DEF RelayTyped
    <3>2. BytesOf(DOMAIN room) \in Nat
      BY <2>4, BytesSplit DEF RelayTyped
    <3>3. QED
      BY <2>1, <2>2, <2>6, <3>1, <3>2 DEF Fits
  <2>9. ASSUME NEW e \in Device PROVE BytesOf(OwnedBy(new, e)) <= DeviceBytes
    <3>1. OwnedBy(room, e) \in SUBSET Hash /\ S \cap OwnedBy(room, e) = {}
      BY <2>2, <2>4 DEF OwnedBy, RelayTyped
    <3>2. CASE e = d
      <4>1. OwnedBy(new, e) = S \cup OwnedBy(room, e)
        BY <2>5, <2>6, <3>2 DEF OwnedBy
      <4>2. BytesOf(S \cup OwnedBy(room, e)) = BytesOf(S) + BytesOf(OwnedBy(room, e))
        BY <3>1, BytesOfBoth
      <4>3. BytesOf(OwnedBy(room, e)) \in Nat
        BY <3>1, BytesSplit
      <4>4. QED
        BY <2>1, <2>2, <3>2, <4>1, <4>2, <4>3 DEF Fits
    <3>3. CASE e # d
      <4>1. OwnedBy(new, e) = OwnedBy(room, e)
        BY <2>5, <2>6, <3>3 DEF OwnedBy
      <4>2. QED
        BY <2>4, <4>1 DEF Within
    <3>4. QED
      BY <3>2, <3>3
  <2>10. QED
    BY <2>3, <2>7, <2>8, <2>9 DEF Within
<1>3. QED
  BY <1>1, <1>2

-----------------------------------------------------------------------------
(* Packing *)

(* Sums follow the weights.                                                 *)
LEMMA SumMonotone ==
  ASSUME NEW w, NEW v, NEW S, Weighs(w, S), Weighs(v, S), \A x \in S : w[x] <= v[x]
  PROVE  SumOf(w, S) <= SumOf(v, S)
<1> DEFINE A == {T \in SUBSET S : SumOf(w, T) <= SumOf(v, T)}
<1>1. ASSUME NEW T \in SUBSET S
      PROVE  /\ Weighs(w, T) /\ Weighs(v, T)
             /\ SumOf(w, T) \in Nat /\ SumOf(v, T) \in Nat
  BY FS_Subset, SumUnfolds DEF Weighs
<1>2. ASSUME NEW T \in SUBSET S, \A y \in T : T \ {y} \in A PROVE T \in A
  <2>1. CASE T = {}
    <3>1. SumOf(w, T) = 0 /\ SumOf(v, T) = 0
      BY <1>1, <2>1, SumUnfolds
    <3>2. QED
      BY <3>1
  <2>2. CASE T # {}
    <3> DEFINE c == Chosen(T)
    <3>1. /\ c \in T
          /\ SumOf(w, T) = w[c] + SumOf(w, T \ {c})
          /\ SumOf(v, T) = v[c] + SumOf(v, T \ {c})
      BY <1>1, <2>2, SumUnfolds
    <3> HIDE DEF c
    <3>2. SumOf(w, T \ {c}) <= SumOf(v, T \ {c})
      BY <1>2, <3>1
    <3>3. w[c] <= v[c] /\ w[c] \in Nat /\ v[c] \in Nat
      BY <3>1 DEF Weighs
    <3>4. SumOf(w, T \ {c}) \in Nat /\ SumOf(v, T \ {c}) \in Nat
      BY <1>1
    <3>5. SumOf(w, T) <= SumOf(v, T)
      BY <3>1, <3>2, <3>3, <3>4
    <3>6. QED
      BY <3>5
  <2>3. QED
    BY <2>1, <2>2
<1>3. SUBSET S \subseteq A
  <2> HIDE DEF A
  <2>1. QED
    BY <1>2, InductionOverSubsets DEF Weighs
<1>4. QED
  BY <1>3

LEMMA EncodedIsLonger ==
  ASSUME NEW h \in Hash
  PROVE  Encoded(h) \in Nat /\ Size[h] \in Nat /\ Size[h] <= Encoded(h)
<1>1. Size[h] \in Nat /\ Envelope \in Nat
  BY HashAssumption, ChunkAssumption
<1>2. \A n \in Nat : (n + 2) \div 3 \in Nat /\ n <= 4 * ((n + 2) \div 3)
  OBVIOUS
<1>3. (Size[h] + 2) \div 3 \in Nat /\ Size[h] <= 4 * ((Size[h] + 2) \div 3)
  BY <1>1, <1>2
<1>4. QED
  BY <1>1, <1>3 DEF Encoded

(* A chunk has no more bytes than its encoding.                             *)
LEMMA EncodingCovers ==
  ASSUME NEW S \in SUBSET Hash
  PROVE  EncodedSum(S) \in Nat /\ BytesOf(S) <= EncodedSum(S)
<1> DEFINE v == [h \in Hash |-> Encoded(h)]
           f == CHOOSE it : it = [s \in SUBSET S |->
                  IF s = {} THEN 0 ELSE Encoded(Chosen(s)) + it[s \ {Chosen(s)}]]
<1>1. Weighs(v, S) /\ Weighs(Size, S) /\ \A x \in S : Size[x] <= v[x]
  BY HashesWeigh, EncodedIsLonger DEF Weighs
<1>2. ASSUME NEW it PROVE it = [s \in SUBSET S |->
                  IF s = {} THEN 0 ELSE Encoded(Chosen(s)) + it[s \ {Chosen(s)}]]
                <=> Summing(v, S, it)
  <2>1. \A s \in SUBSET S : s # {} => v[Chosen(s)] = Encoded(Chosen(s))
    BY DEF Chosen
  <2> HIDE DEF v
  <2>2. QED
    BY <2>1 DEF Summing
<1>3. EncodedSum(S) = f[S]
  BY DEF EncodedSum, MapThenSumSet, MapThenFoldSet, Chosen
<1> HIDE DEF v
<1>4. \E it : Summing(v, S, it)
  BY <1>1, SumExists
<1>5. Summing(v, S, f)
  BY <1>2, <1>4
<1> HIDE DEF f
<1>6. S \in SUBSET S
  OBVIOUS
<1>7. \E g : Summing(v, S, g) /\ SumOf(v, S) = g[S]
  BY <1>4 DEF SumOf
<1>8. EncodedSum(S) = SumOf(v, S)
  BY <1>1, <1>3, <1>5, <1>6, <1>7, SumAgrees DEF Weighs
<1>9. SumOf(v, S) \in Nat /\ SumOf(Size, S) <= SumOf(v, S)
  BY <1>1, SumUnfolds, SumMonotone
<1>10. QED
  BY <1>8, <1>9, BytesAreSum

(* What a request may carry.                                                *)
Packed(chunk) == chunk \in SUBSET Hash /\ ValidRequest(chunk)
Packings == {chunks \in Seq(SUBSET Hash) : \A i \in 1..Len(chunks) : Packed(chunks[i])}

LEMMA SinglesArePacked == \A h \in Hash : Packed({h})
<1> SUFFICES ASSUME NEW h \in Hash PROVE Packed({h})
  OBVIOUS
<1>1. Cardinality({h}) = 1
  BY FS_Singleton
<1>2. BytesOf({h}) <= RequestBytes
  BY BytesOfFew, BudgetAssumption
<1>3. QED
  BY <1>1, <1>2, LimitAssumption DEF Packed, ValidRequest

LEMMA AddingPacks ==
  ASSUME NEW chunks \in Packings, NEW h \in Hash
  PROVE  AddPayload(chunks, h) \in Packings
<1>1. chunks \in Seq(SUBSET Hash) /\ \A i \in 1..Len(chunks) : Packed(chunks[i])
  BY DEF Packings
<1> DEFINE adds == /\ chunks # <<>>
                   /\ Cardinality(Last(chunks)) < RequestItems
                   /\ EncodedSum(Last(chunks)) + Encoded(h) <= JsonBudget
<1>2. CASE ~adds
  <2>1. AddPayload(chunks, h) = Append(chunks, {h})
    BY <1>2 DEF AddPayload
  <2>2. Packed({h}) /\ {h} \in SUBSET Hash
    BY SinglesArePacked
  <2>3. Append(chunks, {h}) \in Seq(SUBSET Hash)
    BY <1>1
  <2>4. \A i \in 1..Len(Append(chunks, {h})) : Packed(Append(chunks, {h})[i])
    BY <1>1, <2>2
  <2>5. QED
    BY <2>1, <2>3, <2>4 DEF Packings
<1>3. CASE adds
  <2> DEFINE last == Last(chunks)
             more == last \cup {h}
  <2>1. AddPayload(chunks, h) = Append(Front(chunks), more)
    BY <1>3 DEF AddPayload
  <2>2. /\ Front(chunks) \in Seq(SUBSET Hash)
        /\ \A i \in 1..Len(Front(chunks)) : Packed(Front(chunks)[i])
    BY <1>1, <1>3 DEF Front
  <2>3. Packed(last)
    BY <1>1, <1>3 DEF Last
  <2>4. /\ Cardinality(last) < RequestItems
        /\ EncodedSum(last) + Encoded(h) <= JsonBudget
    BY <1>3
  <2> HIDE DEF last
  <2>5. Cardinality(more) <= RequestItems
    <3>1. IsFiniteSet(last) /\ Cardinality(last) \in Nat
      BY <2>3, HashesWeigh DEF Packed
    <3>2. Cardinality(more) = IF h \in last THEN Cardinality(last) ELSE Cardinality(last) + 1
      BY <3>1, FS_AddElement
    <3>3. QED
      BY <2>4, <3>1, <3>2, LimitAssumption
  <2>6. BytesOf(more) <= RequestBytes
    <3>1. CASE h \in last
      <4>1. more = last
        BY <3>1
      <4>2. QED
        BY <2>3, <4>1 DEF Packed, ValidRequest
    <3>2. CASE h \notin last
      <4>1. BytesOf(more) = BytesOf(last) + Size[h]
        BY <2>3, <3>2, BytesOfBoth, BytesOfFew DEF Packed
      <4>2. BytesOf(last) \in Nat /\ EncodedSum(last) \in Nat /\ BytesOf(last) <= EncodedSum(last)
        BY <2>3, BytesAreNat, EncodingCovers DEF Packed
      <4>3. Encoded(h) \in Nat /\ Size[h] \in Nat /\ Size[h] <= Encoded(h)
        BY EncodedIsLonger
      <4>4. QED
        BY <2>4, <4>1, <4>2, <4>3, BudgetAssumption, ChunkAssumption, LimitAssumption
    <3>3. QED
      BY <3>1, <3>2
  <2>7. Packed(more)
    BY <2>3, <2>5, <2>6 DEF Packed, ValidRequest
  <2> HIDE DEF more
  <2>8. Append(Front(chunks), more) \in Seq(SUBSET Hash)
    BY <2>2, <2>7 DEF Packed
  <2>9. \A i \in 1..Len(Append(Front(chunks), more)) : Packed(Append(Front(chunks), more)[i])
    BY <2>2, <2>7
  <2>10. QED
    BY <2>1, <2>8, <2>9 DEF Packings
<1>4. QED
  BY <1>2, <1>3

(* Max names the greatest of a nonempty set of hashes.                      *)
LEMMA MaxOfHashes ==
  ASSUME NEW S \in SUBSET Hash, S # {}
  PROVE  Max(S) \in S
<1> DEFINE A == {T \in SUBSET S : T # {} => \E m \in T : \A y \in T : m >= y}
<1>1. S \subseteq Nat /\ IsFiniteSet(S)
  BY HashAssumption, HashesWeigh
<1>2. ASSUME NEW T \in SUBSET S, \A y \in T : T \ {y} \in A PROVE T \in A
  <2> SUFFICES ASSUME T # {} PROVE \E m \in T : \A y \in T : m >= y
    OBVIOUS
  <2>1. PICK x \in T : TRUE
    OBVIOUS
  <2>2. CASE T \ {x} = {}
    <3>1. \A y \in T : x >= y
      BY <1>1, <2>2
    <3>2. QED
      BY <2>1, <3>1
  <2>3. CASE T \ {x} # {}
    <3>1. PICK m \in T \ {x} : \A y \in T \ {x} : m >= y
      BY <1>2, <2>3
    <3>2. (\A y \in T : m >= y) \/ (\A y \in T : x >= y)
      BY <1>1, <3>1
    <3>3. QED
      BY <3>2
  <2>4. QED
    BY <2>2, <2>3
<1>3. SUBSET S \subseteq A
  <2> HIDE DEF A
  <2>1. QED
    BY <1>1, <1>2, InductionOverSubsets
<1>4. \E m \in S : \A y \in S : m >= y
  BY <1>3
<1>5. QED
  BY <1>4 DEF Max

(* attachment_blob_relay_chunks only makes chunks that a request may carry. *)
Packing(S, it) ==
  it = [s \in SUBSET S |-> IF s = {} THEN <<>> ELSE AddPayload(it[s \ {Max(s)}], Max(s))]

LEMMA PackingPacks ==
  ASSUME NEW S \in SUBSET Hash, NEW f, Packing(S, f)
  PROVE  f[S] \in Packings
<1> DEFINE A == {s \in SUBSET S : f[s] \in Packings}
<1>1. ASSUME NEW s \in SUBSET S, \A y \in s : s \ {y} \in A PROVE s \in A
  <2>1. f[s] = IF s = {} THEN <<>> ELSE AddPayload(f[s \ {Max(s)}], Max(s))
    BY DEF Packing
  <2>2. CASE s = {}
    <3>1. <<>> \in Packings
      BY DEF Packings
    <3>2. f[s] \in Packings
      BY <2>1, <2>2, <3>1
    <3>3. QED
      BY <3>2
  <2>3. CASE s # {}
    <3>1. Max(s) \in s
      BY <2>3, MaxOfHashes
    <3>2. f[s \ {Max(s)}] \in Packings
      BY <1>1, <3>1
    <3>3. f[s] \in Packings
      BY <2>1, <2>3, <3>1, <3>2, AddingPacks
    <3>4. QED
      BY <3>3
  <2>4. QED
    BY <2>2, <2>3
<1>2. IsFiniteSet(S)
  BY HashesWeigh
<1>3. SUBSET S \subseteq A
  <2> HIDE DEF A
  <2>1. QED
    BY <1>1, <1>2, InductionOverSubsets
<1>4. QED
  BY <1>3

LEMMA ChunksArePacked ==
  ASSUME NEW S \in SUBSET Hash
  PROVE  RelayChunks(S) \in Packings
<1> DEFINE step == [h \in S |-> [chunks \in Packings |-> AddPayload(chunks, h)]]
           pick == [s \in SUBSET S |-> Max(s)]
           f == CHOOSE it : Packing(S, it)
<1>1. IsFiniteSet(S) /\ <<>> \in Packings
  BY HashesWeigh DEF Packings
<1>2. \A s \in SUBSET S : s # {} => Max(s) \in s
  BY MaxOfHashes
<1>3. step \in [S -> [Packings -> Packings]]
  BY AddingPacks
<1>4. \A h \in S, chunks \in Packings : step[h][chunks] = AddPayload(chunks, h)
  OBVIOUS
<1>5. Picks(pick, S) /\ \A s \in SUBSET S : pick[s] = Max(s)
  BY <1>2 DEF Picks
<1> HIDE DEF step, pick
<1>6. PICK it \in [SUBSET S -> Packings] : Folds(it, S, <<>>, step, pick)
  BY <1>1, <1>3, <1>5, FoldExists
<1>7. Packing(S, it)
  <2>1. ASSUME NEW s \in SUBSET S
        PROVE  it[s] = IF s = {} THEN <<>> ELSE AddPayload(it[s \ {Max(s)}], Max(s))
    <3>1. it[s] = FoldsFrom(it, s, <<>>, step, pick)
      BY <1>6 DEF Folds
    <3>2. s # {} => Max(s) \in S /\ s \ {Max(s)} \in SUBSET S
      BY <1>2
    <3>3. s # {} => step[Max(s)][it[s \ {Max(s)}]] = AddPayload(it[s \ {Max(s)}], Max(s))
      BY <1>4, <3>2
    <3>4. QED
      BY <1>5, <3>1, <3>3 DEF FoldsFrom
  <2>2. QED
    BY <2>1 DEF Packing
<1>8. Packing(S, f)
  BY <1>7
<1>9. RelayChunks(S) = f[S]
  BY DEF RelayChunks, MapThenFoldSet, Packing
<1> HIDE DEF f
<1>10. QED
  BY <1>8, <1>9, PackingPacks

-----------------------------------------------------------------------------
(* The invariant *)

(* What a session has left to send is packed, and while it sends, confirms  *)
(* or fetches there is something left.                                      *)
Sendable(s) ==
  /\ s.at \in {"relay", "store", "confirm"} => \A i \in 1..Len(s.chunks) : Packed(s.chunks[i])
  /\ s.at \in {"relay", "store", "confirm", "inline", "got"} => s.chunks # <<>>

RelayOK == RelayTyped(relay) /\ Within(relay)
SessionOK == session \in [Device -> Sessions] /\ \A d \in Device : Sendable(session[d])
RestOK ==
  /\ clock \in 0..MaxTime /\ failures \in 0..MaxFailures
  /\ log \in SUBSET Op
  /\ known \in [Device -> SUBSET Op] /\ queue \in [Device -> SUBSET Op]
  /\ bytes \in [Device -> SUBSET Hash]

Inductive == RelayOK /\ SessionOK /\ RestOK

LEMMA SessionMoves ==
  ASSUME SessionOK, NEW d \in Device, NEW s \in Sessions, Sendable(s),
         session' = [session EXCEPT ![d] = s]
  PROVE  SessionOK'
<1>1. session' \in [Device -> Sessions]
  BY DEF SessionOK
<1>2. \A e \in Device : Sendable(session'[e])
  BY DEF SessionOK
<1>3. QED
  BY <1>1, <1>2 DEF SessionOK, Sendable

LEMMA RelayShrinks ==
  ASSUME RelayOK, NEW r, LeftOf(r, relay), relay' = r
  PROVE  RelayOK'
<1>1. RelayTyped(relay') /\ Within(relay')
  BY LeftStaysWithin DEF RelayOK
<1>2. QED
  BY <1>1 DEF RelayOK, RelayTyped, Within

LEMMA SessionTyped ==
  ASSUME SessionOK, NEW d \in Device
  PROVE  /\ session[d] \in Sessions /\ Sendable(session[d])
         /\ session[d].chunks \in Seq(SUBSET Hash) /\ session[d].batch \in SUBSET Op
         /\ session[d].got \in SUBSET Hash /\ session[d].attempt \in 0..Retries
BY DEF SessionOK, Sessions

LEMMA HashesTyped ==
  ASSUME NEW S \in SUBSET Op
  PROVE  /\ HashesOf(S) \in SUBSET Hash /\ HashesOf(LiveIn(S)) \in SUBSET Hash
         /\ LiveIn(S) \in SUBSET Op
BY DEF HashesOf, Upserts, LiveIn, Op

LEMMA NoSessionTyped == NoSession \in Sessions /\ NoSession.at = "off"
BY ChunkAssumption DEF NoSession, Sessions, Labels

LEMMA EndsSafely ==
  ASSUME SessionOK, NEW d \in Device, Ends(d)
  PROVE  SessionOK'
<1>1. NoSession \in Sessions /\ Sendable(NoSession)
  BY NoSessionTyped DEF Sendable
<1>2. session' = [session EXCEPT ![d] = NoSession]
  BY DEF Ends
<1> HIDE DEF NoSession
<1>3. QED
  BY <1>1, <1>2, SessionMoves

(* The session of d changes its place, and the rest of it fits the place.   *)
LEMMA MovesTo ==
  ASSUME SessionOK, NEW d \in Device, NEW at \in Labels, NEW n \in 0..Retries,
         \/ at \in {"push", "pull", "fetch", "next", "off"}
         \/ /\ at \in {"relay", "store", "confirm"}
            /\ session[d].at \in {"relay", "store", "confirm"}
  PROVE  LET s == [session[d] EXCEPT !.at = at, !.attempt = n]
         IN s \in Sessions /\ Sendable(s)
BY SessionTyped DEF Sessions, Sendable, Labels

LEMMA SendsAgainSafely ==
  ASSUME SessionOK, NEW d \in Device, NEW at \in Labels, SendsAgain(d, at),
         \/ at = "fetch"
         \/ /\ at \in {"relay", "confirm"}
            /\ session[d].at \in {"relay", "store", "confirm"}
  PROVE  SessionOK'
<1>1. CASE session[d].attempt < Retries
  <2> DEFINE n == session[d].attempt + 1
             s == [session[d] EXCEPT !.at = at, !.attempt = n]
  <2>1. n \in 0..Retries
    BY <1>1, SessionTyped, ChunkAssumption
  <2>2. session' = [session EXCEPT ![d] = s]
    BY <1>1 DEF SendsAgain
  <2>3. s \in Sessions /\ Sendable(s)
    <3> HIDE DEF n
    <3>1. QED
      BY <2>1, MovesTo
  <2> HIDE DEF s
  <2>4. QED
    BY <2>2, <2>3, SessionMoves
<1>2. CASE ~(session[d].attempt < Retries)
  BY <1>2, EndsSafely DEF SendsAgain
<1>3. QED
  BY <1>1, <1>2

LEMMA GoesSafely ==
  ASSUME SessionOK, NEW d \in Device, NEW at \in Labels, Goes(d, at),
         \/ at \in {"push", "pull", "fetch"}
         \/ /\ at \in {"relay", "confirm"}
            /\ session[d].at \in {"relay", "store", "confirm"}
  PROVE  SessionOK'
<1> DEFINE s == [session[d] EXCEPT !.at = at, !.attempt = 0]
<1>1. session' = [session EXCEPT ![d] = s]
  BY DEF Goes
<1>2. 0 \in 0..Retries
  BY ChunkAssumption
<1>3. s \in Sessions /\ Sendable(s)
  BY <1>2, MovesTo
<1> HIDE DEF s
<1>4. QED
  BY <1>1, <1>3, SessionMoves

-----------------------------------------------------------------------------
(* One lemma per action *)

LEMMA InitInductive == Init => Inductive
<1> SUFFICES ASSUME Init PROVE Inductive
  OBVIOUS
<1>1. RelayTyped(<<>>) /\ Within(<<>>)
  <2>1. DOMAIN <<>> = {} /\ \A d \in Device : OwnedBy(<<>>, d) = {}
    BY DEF OwnedBy
  <2>2. QED
    BY <2>1, BytesOfFew, LimitAssumption DEF RelayTyped, Within
<1>2. SessionOK
  BY ChunkAssumption DEF Init, SessionOK, NoSession, Sessions, Labels, Sendable
<1>3. RestOK
  BY BoundsAssumption DEF Init, RestOK
<1>4. QED
  BY <1>1, <1>2, <1>3 DEF Init, Inductive, RelayOK

LEMMA SaveInductive ==
  ASSUME Inductive, NEW d \in Device, SaveAttachment(d)
  PROVE  Inductive'
<1>0. PICK a \in Attachment, n \in Name : \E h \in Content[a] :
        LET op == [kind |-> "upsert", att |-> a, hash |-> h, name |-> n]
        IN /\ known' = [known EXCEPT ![d] = @ \cup {op}]
           /\ bytes' = [bytes EXCEPT ![d] = @ \cup {h}]
           /\ queue' = [queue EXCEPT ![d] = @ \cup {op}]
  BY DEF SaveAttachment
<1>1. PICK h \in Content[a] :
        LET op == [kind |-> "upsert", att |-> a, hash |-> h, name |-> n]
        IN /\ known' = [known EXCEPT ![d] = @ \cup {op}]
           /\ bytes' = [bytes EXCEPT ![d] = @ \cup {h}]
           /\ queue' = [queue EXCEPT ![d] = @ \cup {op}]
  BY <1>0
<1> DEFINE op == [kind |-> "upsert", att |-> a, hash |-> h, name |-> n]
<1>2. h \in Hash
  BY ContentAssumption
<1>3. op \in Op
  BY <1>2 DEF Op
<1>4. /\ known' = [known EXCEPT ![d] = known[d] \cup {op}]
      /\ bytes' = [bytes EXCEPT ![d] = bytes[d] \cup {h}]
      /\ queue' = [queue EXCEPT ![d] = queue[d] \cup {op}]
  BY <1>1
<1>5. UNCHANGED <<clock, relay, log, session, failures>>
  BY DEF SaveAttachment
<1> HIDE DEF op
<1>6. RestOK'
  BY <1>2, <1>3, <1>4, <1>5 DEF Inductive, RestOK
<1>7. QED
  BY <1>5, <1>6 DEF Inductive, RelayOK, SessionOK, RelayTyped, Within

LEMMA DeleteInductive ==
  ASSUME Inductive, NEW d \in Device, DeleteAttachment(d)
  PROVE  Inductive'
<1>1. PICK u \in {v \in Live(d) : v.att \in Deletable} :
        LET op    == [u EXCEPT !.kind = "delete"]
            rows  == known[d] \cup {op}
            later == {p \in queue[d] : p.att # u.att} \cup {op}
        IN /\ known' = [known EXCEPT ![d] = rows]
           /\ queue' = [queue EXCEPT ![d] = later]
           /\ bytes' = [bytes EXCEPT ![d] = Sweep(@, rows, later)]
  BY DEF DeleteAttachment
<1> DEFINE op == [u EXCEPT !.kind = "delete"]
           rows == known[d] \cup {op}
           later == {p \in queue[d] : p.att # u.att} \cup {op}
           held == Sweep(bytes[d], rows, later)
<1>2. u \in Op
  BY HashesTyped DEF Inductive, RestOK, Live
<1>3. op \in Op
  BY <1>2 DEF Op
<1>4. known[d] \in SUBSET Op /\ queue[d] \in SUBSET Op /\ bytes[d] \in SUBSET Hash
  BY DEF Inductive, RestOK
<1>5. /\ known' = [known EXCEPT ![d] = rows]
      /\ queue' = [queue EXCEPT ![d] = later]
      /\ bytes' = [bytes EXCEPT ![d] = held]
  BY <1>1
<1>6. UNCHANGED <<clock, relay, log, session, failures>>
  BY DEF DeleteAttachment
<1> HIDE DEF op
<1>7. rows \in SUBSET Op /\ later \in SUBSET Op /\ held \in SUBSET Hash
  BY <1>3, <1>4 DEF Sweep
<1> HIDE DEF rows, later, held
<1>8. RestOK'
  BY <1>5, <1>6, <1>7 DEF Inductive, RestOK
<1>9. QED
  BY <1>6, <1>8 DEF Inductive, RelayOK, SessionOK, RelayTyped, Within

LEMMA NextBatchInductive ==
  ASSUME Inductive, NEW d \in Device, NextBatch(d)
  PROVE  Inductive'
<1> DEFINE chunks == RelayChunks(HashesOf(queue[d]))
           at == IF queue[d] = {} THEN "pull" ELSE IF chunks = <<>> THEN "push" ELSE "relay"
           s == [NoSession EXCEPT !.at = at, !.batch = queue[d], !.chunks = chunks]
<1>1. session' = [session EXCEPT ![d] = s]
  BY DEF NextBatch
<1>2. queue[d] \in SUBSET Op
  BY DEF Inductive, RestOK
<1>3. chunks \in Packings
  BY <1>2, HashesTyped, ChunksArePacked
<1>4. at \in {"pull", "push", "relay"} /\ (at = "relay" => chunks # <<>>)
  OBVIOUS
<1> HIDE DEF chunks, at
<1>5. s \in Sessions
  <2>1. at \in Labels /\ chunks \in Seq(SUBSET Hash)
    BY <1>3, <1>4 DEF Labels, Packings
  <2>2. QED
    BY <1>2, <2>1, NoSessionTyped DEF Sessions
<1>6. Sendable(s)
  <2>1. s.at = at /\ s.chunks = chunks
    BY NoSessionTyped DEF Sessions
  <2> HIDE DEF s
  <2>2. QED
    BY <1>3, <1>4, <2>1 DEF Sendable, Packings
<1> HIDE DEF s
<1>7. SessionOK'
  BY <1>1, <1>5, <1>6, SessionMoves DEF Inductive
<1>8. QED
  BY <1>7 DEF Inductive, NextBatch, RelayOK, RestOK, RelayTyped, Within

LEMMA RelayCleanInductive ==
  ASSUME Inductive, NEW d \in Device, RelayClean(d)
  PROVE  Inductive'
<1>1. UNCHANGED <<clock, log, known, bytes, queue, failures>> /\ session[d].at = "relay"
  BY DEF RelayClean
<1>2. RelayOK'
  <2>1. relay' = Unexpired(relay, clock) \/ relay' = relay
    BY DEF RelayClean
  <2>2. LeftOf(relay, relay)
    BY DEF LeftOf
  <2>3. QED
    BY <2>1, <2>2, UnexpiredLeaves, RelayShrinks DEF Inductive
<1>3. SessionOK'
  <2>1. CASE Ends(d)
    BY <2>1, EndsSafely DEF Inductive
  <2>2. CASE session' = [session EXCEPT ![d].at = "store"]
    <3> DEFINE s == [session[d] EXCEPT !.at = "store"]
    <3>1. session' = [session EXCEPT ![d] = s]
      BY <2>2
    <3>2. s \in Sessions /\ Sendable(s)
      BY <1>1, SessionTyped DEF Inductive, Sessions, Labels, Sendable
    <3> HIDE DEF s
    <3>3. QED
      BY <3>1, <3>2, SessionMoves DEF Inductive
  <2>3. QED
    BY <2>1, <2>2 DEF RelayClean
<1>4. QED
  BY <1>1, <1>2, <1>3 DEF Inductive, RestOK

(* The chunk that a session sends may be stored.                            *)
LEMMA StoreInductive ==
  ASSUME Inductive, NEW d \in Device, NEW S \in SUBSET Hash,
         relay' = Stored(relay, d, S, clock)
  PROVE  RelayOK'
<1>1. clock \in Nat
  BY BoundsAssumption DEF Inductive, RestOK
<1>2. RelayTyped(relay') /\ Within(relay')
  BY <1>1, StoredStaysWithin DEF Inductive, RelayOK
<1>3. QED
  BY <1>2 DEF RelayOK, RelayTyped, Within

LEMMA FailureCounted ==
  ASSUME RestOK, failures < MaxFailures, failures' = failures + 1
  PROVE  failures' \in 0..MaxFailures
BY BoundsAssumption DEF RestOK

LEMMA RelayStoreInductive ==
  ASSUME Inductive, NEW d \in Device, RelayStore(d)
  PROVE  Inductive'
<1>1. UNCHANGED <<clock, log, known, bytes, queue>> /\ session[d].at = "store"
  BY DEF RelayStore
<1>2. Head(session[d].chunks) \in SUBSET Hash
  BY <1>1, SessionTyped DEF Inductive, Sendable
<1>3. RelayOK'
  BY <1>2, StoreInductive DEF RelayStore
<1>4. SessionOK' /\ failures' \in 0..MaxFailures
  <2>1. CASE Ends(d)
    <3>1. failures' \in 0..MaxFailures
      BY <2>1, FailureCounted DEF RelayStore, Inductive, RestOK
    <3>2. QED
      BY <2>1, <3>1, EndsSafely DEF Inductive
  <2>2. CASE Goes(d, "confirm") /\ UNCHANGED failures
    BY <1>1, <2>2, GoesSafely DEF Inductive, Labels, RestOK
  <2>3. CASE failures < MaxFailures /\ failures' = failures + 1 /\ SendsAgain(d, "relay")
    BY <1>1, <2>3, SendsAgainSafely, FailureCounted DEF Inductive, Labels
  <2>4. QED
    BY <2>1, <2>2, <2>3 DEF RelayStore
<1>5. QED
  BY <1>1, <1>3, <1>4 DEF Inductive, RestOK

LEMMA ConfirmInductive ==
  ASSUME Inductive, NEW d \in Device, Confirm(d)
  PROVE  Inductive'
<1> DEFINE chunks == session[d].chunks
           at == IF Len(chunks) = 1 THEN "push" ELSE "relay"
           s == [session[d] EXCEPT !.at = at, !.chunks = Tail(chunks), !.attempt = 0]
<1>1. UNCHANGED <<clock, log, known, bytes, queue, failures>> /\ session[d].at = "confirm"
  BY DEF Confirm
<1>2. RelayOK'
  BY UnexpiredLeaves, RelayShrinks DEF Confirm, Inductive
<1>3. Ends(d) \/ session' = [session EXCEPT ![d] = s]
  BY DEF Confirm
<1>4. /\ chunks \in Seq(SUBSET Hash) /\ chunks # <<>>
      /\ \A i \in 1..Len(chunks) : Packed(chunks[i])
  BY <1>1, SessionTyped DEF Inductive, Sendable
<1>5. /\ Tail(chunks) \in Seq(SUBSET Hash)
      /\ \A i \in 1..Len(Tail(chunks)) : Packed(Tail(chunks)[i])
      /\ at = "relay" => Tail(chunks) # <<>>
  <2>1. at = "relay" => Len(chunks) # 1
    OBVIOUS
  <2> HIDE DEF chunks, at
  <2>2. Tail(chunks) \in Seq(SUBSET Hash) /\ Len(Tail(chunks)) = Len(chunks) - 1
    BY <1>4
  <2>3. \A i \in 1..Len(Tail(chunks)) : Tail(chunks)[i] = chunks[i + 1] /\ i + 1 \in 1..Len(chunks)
    BY <1>4
  <2>4. Len(chunks) \in Nat /\ Len(chunks) # 0
    BY <1>4
  <2>5. at = "relay" => Len(Tail(chunks)) # 0
    BY <2>1, <2>2, <2>4
  <2>6. at = "relay" => Tail(chunks) # <<>>
    BY <2>5
  <2>7. \A i \in 1..Len(Tail(chunks)) : Packed(Tail(chunks)[i])
    BY <1>4, <2>3
  <2>8. QED
    BY <2>2, <2>6, <2>7
<1>6. at \in {"push", "relay"}
  OBVIOUS
<1> HIDE DEF chunks, at
<1>7. s \in Sessions
  <2>1. at \in Labels /\ 0 \in 0..Retries /\ session[d] \in Sessions
    BY <1>6, SessionTyped, ChunkAssumption DEF Inductive, Labels
  <2>2. QED
    BY <1>5, <2>1 DEF Sessions
<1>8. Sendable(s)
  BY <1>5, <1>6, SessionTyped DEF Inductive, Sessions, Sendable
<1> HIDE DEF s
<1>9. SessionOK'
  BY <1>3, <1>7, <1>8, SessionMoves, EndsSafely DEF Inductive
<1>10. QED
  BY <1>1, <1>2, <1>9 DEF Inductive, RestOK

LEMMA PushInductive ==
  ASSUME Inductive, NEW d \in Device, Push(d)
  PROVE  Inductive'
<1>1. UNCHANGED <<clock, relay, known, bytes>>
  BY DEF Push
<1>2. session[d].batch \in SUBSET Op
  BY SessionTyped DEF Inductive
<1>3. log' \in SUBSET Op /\ queue' \in [Device -> SUBSET Op]
  <2>1. log' = log \/ log' = log \cup session[d].batch
    BY DEF Push
  <2>2. queue' = queue \/ queue' = [queue EXCEPT ![d] = queue[d] \ session[d].batch]
    BY DEF Push
  <2>3. QED
    BY <1>2, <2>1, <2>2 DEF Inductive, RestOK
<1>4. failures' \in 0..MaxFailures
  BY FailureCounted DEF Push, Inductive, RestOK
<1>5. SessionOK'
  <2>1. CASE Ends(d)
    BY <2>1, EndsSafely DEF Inductive
  <2>2. CASE session' = [session EXCEPT ![d] = [NoSession EXCEPT !.at = "next"]]
    <3> DEFINE s == [NoSession EXCEPT !.at = "next"]
    <3>1. s \in Sessions /\ Sendable(s)
      BY NoSessionTyped DEF Sessions, Labels, Sendable
    <3>2. session' = [session EXCEPT ![d] = s]
      BY <2>2
    <3> HIDE DEF s
    <3>3. QED
      BY <3>1, <3>2, SessionMoves DEF Inductive
  <2>3. QED
    BY <2>1, <2>2 DEF Push
<1>6. QED
  BY <1>1, <1>3, <1>4, <1>5 DEF Inductive, RestOK, RelayOK, RelayTyped, Within

LEMMA NoRelayRouteInductive ==
  ASSUME Inductive, NEW d \in Device, NoRelayRoute(d)
  PROVE  Inductive'
<1> DEFINE chunks == <<HashesOf(session[d].batch)>>
           s == [session[d] EXCEPT !.at = "inline", !.chunks = chunks]
<1>1. session' = [session EXCEPT ![d] = s]
  BY DEF NoRelayRoute
<1>2. chunks \in Seq(SUBSET Hash) /\ chunks # <<>>
  <2>1. HashesOf(session[d].batch) \in SUBSET Hash
    BY SessionTyped, HashesTyped DEF Inductive
  <2>2. QED
    BY <2>1
<1> HIDE DEF chunks
<1>3. s \in Sessions /\ Sendable(s)
  BY <1>2, SessionTyped DEF Inductive, Sessions, Labels, Sendable
<1> HIDE DEF s
<1>4. SessionOK'
  BY <1>1, <1>3, SessionMoves DEF Inductive
<1>5. QED
  BY <1>4 DEF NoRelayRoute, Inductive, RestOK, RelayOK, RelayTyped, Within

LEMMA InlineRelayInductive ==
  ASSUME Inductive, NEW d \in Device, InlineRelay(d)
  PROVE  Inductive'
<1> DEFINE todo == Head(session[d].chunks)
           s(h) == [session[d] EXCEPT !.chunks = <<todo \ {h}>>]
<1>1. UNCHANGED <<clock, log, known, bytes, queue, failures>> /\ session[d].at = "inline"
  BY DEF InlineRelay
<1>2. todo \in SUBSET Hash
  BY <1>1, SessionTyped DEF Inductive, Sendable
<1>3. \/ relay' = relay /\ Ends(d)
      \/ relay' = relay /\ Goes(d, "push")
      \/ \E h \in todo :
           /\ relay' = relay \/ relay' = Stored(relay, d, {h}, clock)
           /\ Ends(d) \/ session' = [session EXCEPT ![d] = s(h)]
  BY DEF InlineRelay
<1>4. LeftOf(relay, relay)
  BY DEF LeftOf
<1>5. RelayOK'
  <2>1. CASE relay' = relay
    BY <1>4, <2>1, RelayShrinks DEF Inductive
  <2>2. CASE \E h \in todo : relay' = Stored(relay, d, {h}, clock)
    BY <1>2, <2>2, StoreInductive
  <2> HIDE DEF todo
  <2>3. QED
    BY <1>3, <2>1, <2>2
<1>6. SessionOK'
  <2>1. CASE Ends(d)
    BY <2>1, EndsSafely DEF Inductive
  <2>2. CASE Goes(d, "push")
    BY <2>2, GoesSafely DEF Inductive, Labels
  <2>3. ASSUME NEW h \in todo, session' = [session EXCEPT ![d] = s(h)] PROVE SessionOK'
    <3> DEFINE new == s(h)
    <3>1. <<todo \ {h}>> \in Seq(SUBSET Hash) /\ <<todo \ {h}>> # <<>>
      BY <1>2
    <3>2. session[d] \in Sessions
      BY SessionTyped DEF Inductive
    <3> HIDE DEF todo
    <3>3. new \in Sessions /\ Sendable(new)
      BY <1>1, <3>1, <3>2 DEF Sessions, Sendable
    <3>4. session' = [session EXCEPT ![d] = new]
      BY <2>3
    <3> HIDE DEF new
    <3>5. QED
      BY <3>3, <3>4, SessionMoves DEF Inductive
  <2> HIDE DEF todo, s
  <2>4. QED
    BY <1>3, <2>1, <2>2, <2>3
<1>7. QED
  BY <1>1, <1>5, <1>6 DEF Inductive, RestOK

LEMMA FetchChunksTyped ==
  ASSUME NEW S \in SUBSET Hash
  PROVE  FetchChunks(S) \in Seq(SUBSET Hash)
<1> DEFINE n == (Cardinality(S) + FetchItems - 1) \div FetchItems
           part(i) == {h \in S : Before(S, h) \div FetchItems = i - 1}
<1>1. FetchItems \in Nat \ {0} /\ Cardinality(S) \in Nat
  BY ChunkAssumption, HashesWeigh
<1>2. n \in Nat
  BY <1>1
<1>3. FetchChunks(S) = [i \in 1..n |-> part(i)]
  BY DEF FetchChunks
<1>4. \A i \in 1..n : part(i) \in SUBSET Hash
  OBVIOUS
<1> HIDE DEF n, part
<1>5. QED
  BY <1>2, <1>3, <1>4

LEMMA PullInductive ==
  ASSUME Inductive, NEW d \in Device, Pull(d)
  PROVE  Inductive'
<1> DEFINE rows == known[d] \cup log
           missing == HashesOf(LiveIn(rows)) \ bytes[d]
           chunks == IF d \in Hidden THEN <<>> ELSE FetchChunks(missing)
           s == [session[d] EXCEPT !.at = "fetch", !.chunks = chunks]
<1>1. UNCHANGED <<clock, relay, log, bytes, queue, failures>>
  BY DEF Pull
<1>2. known' = [known EXCEPT ![d] = rows]
  BY DEF Pull
<1>3. rows \in SUBSET Op /\ missing \in SUBSET Hash
  <2>1. rows \in SUBSET Op
    BY DEF Inductive, RestOK
  <2> HIDE DEF rows
  <2>2. QED
    BY <2>1, HashesTyped
<1>4. session' = [session EXCEPT ![d] = s]
  <2>1. known'[d] = rows
    BY <1>2 DEF Inductive, RestOK
  <2>2. LiveIn(known'[d]) = LiveIn(rows)
    BY <2>1
  <2> DEFINE old == HashesOf(LiveIn(known'[d])) \ bytes[d]
  <2>3. old = missing
    BY <2>2
  <2>4. session' = [session EXCEPT ![d].at = "fetch",
                      ![d].chunks = IF d \in Hidden THEN <<>> ELSE FetchChunks(old)]
    BY DEF Pull
  <2> HIDE DEF missing, old
  <2>5. QED
    BY <2>3, <2>4
<1> HIDE DEF rows, missing
<1>5. chunks \in Seq(SUBSET Hash)
  BY <1>3, FetchChunksTyped
<1> HIDE DEF chunks
<1>6. s \in Sessions /\ Sendable(s)
  BY <1>5, SessionTyped DEF Inductive, Sessions, Labels, Sendable
<1> HIDE DEF s
<1>7. SessionOK'
  BY <1>4, <1>6, SessionMoves DEF Inductive
<1>8. RestOK'
  BY <1>1, <1>2, <1>3 DEF Inductive, RestOK
<1>9. QED
  BY <1>1, <1>7, <1>8 DEF Inductive, RelayOK, RelayTyped, Within

LEMMA FetchInductive ==
  ASSUME Inductive, NEW d \in Device, Fetch(d)
  PROVE  Inductive'
<1> DEFINE got == Loaded(relay, Head(session[d].chunks), clock)
           s == [session[d] EXCEPT !.at = "got", !.attempt = 0, !.got = got]
<1>1. /\ UNCHANGED <<clock, log, known, bytes, queue, failures>>
      /\ session[d].chunks # <<>>
      /\ session' = [session EXCEPT ![d] = s]
  BY DEF Fetch
<1>2. RelayOK'
  BY UnexpiredLeaves, RelayShrinks DEF Fetch, Inductive
<1>3. got \in SUBSET Hash
  BY <1>1, SessionTyped DEF Loaded, Inductive
<1> HIDE DEF got
<1>4. s \in Sessions /\ Sendable(s)
  <2>1. "got" \in Labels /\ 0 \in 0..Retries /\ session[d] \in Sessions
    BY SessionTyped, ChunkAssumption DEF Inductive, Labels
  <2>2. QED
    BY <1>1, <1>3, <2>1 DEF Sessions, Sendable
<1> HIDE DEF s
<1>5. SessionOK'
  BY <1>1, <1>4, SessionMoves DEF Inductive
<1>6. QED
  BY <1>1, <1>2, <1>5 DEF Inductive, RestOK

LEMMA StoreFetchedInductive ==
  ASSUME Inductive, NEW d \in Device, StoreFetched(d)
  PROVE  Inductive'
<1> DEFINE chunks == IF StopsFetching(session[d]) THEN <<>> ELSE Tail(session[d].chunks)
           s == [session[d] EXCEPT !.at = "fetch", !.got = {}, !.chunks = chunks]
<1>1. /\ UNCHANGED <<clock, relay, log, known, queue, failures>>
      /\ session[d].at = "got"
      /\ session' = [session EXCEPT ![d] = s]
      /\ bytes' = [bytes EXCEPT ![d] = bytes[d] \cup session[d].got]
  BY DEF StoreFetched
<1>2. chunks \in Seq(SUBSET Hash)
  BY <1>1, SessionTyped DEF Inductive, Sendable
<1> HIDE DEF chunks
<1>3. s \in Sessions /\ Sendable(s)
  BY <1>2, SessionTyped DEF Inductive, Sessions, Labels, Sendable
<1> HIDE DEF s
<1>4. SessionOK'
  BY <1>1, <1>3, SessionMoves DEF Inductive
<1>5. RestOK'
  BY <1>1, SessionTyped DEF Inductive, RestOK
<1>6. QED
  BY <1>1, <1>4, <1>5 DEF Inductive, RelayOK, RelayTyped, Within

LEMMA MaintainInductive ==
  ASSUME Inductive, NEW d \in Device, Maintain(d)
  PROVE  Inductive'
<1>1. /\ UNCHANGED <<clock, relay, log, known, queue, failures>>
      /\ bytes' = [bytes EXCEPT ![d] = Sweep(bytes[d], known[d], queue[d])]
      /\ Ends(d)
  BY DEF Maintain
<1>2. SessionOK'
  BY <1>1, EndsSafely DEF Inductive
<1>3. RestOK'
  BY <1>1 DEF Inductive, RestOK, Sweep
<1>4. QED
  BY <1>1, <1>2, <1>3 DEF Inductive, RelayOK, RelayTyped, Within

LEMMA RequestFailsInductive ==
  ASSUME Inductive, NEW d \in Device, RequestFails(d)
  PROVE  Inductive'
<1>1. /\ UNCHANGED <<clock, relay, log, known, bytes, queue>>
      /\ failures' \in 0..MaxFailures
  BY FailureCounted DEF RequestFails, Inductive
<1>2. SessionOK'
  BY SendsAgainSafely, EndsSafely DEF RequestFails, Inductive, Labels
<1>3. QED
  BY <1>1, <1>2 DEF Inductive, RestOK, RelayOK, RelayTyped, Within

LEMMA FaultsInductive ==
  ASSUME Inductive, Restart \/ Tick
  PROVE  Inductive'
<1>1. CASE Restart
  <2>1. LeftOf(<<>>, relay)
    BY DEF LeftOf
  <2>2. RelayOK'
    BY <1>1, <2>1, RelayShrinks DEF Restart, Inductive
  <2>3. QED
    BY <1>1, <2>2, FailureCounted DEF Restart, Inductive, RestOK, SessionOK, Sendable
<1>2. CASE Tick
  <2>1. clock' \in 0..MaxTime
    BY <1>2, BoundsAssumption DEF Tick, Inductive, RestOK
  <2>2. QED
    BY <1>2, <2>1 DEF Tick, Inductive, RestOK, SessionOK, RelayOK, RelayTyped, Within
<1>3. QED
  BY <1>1, <1>2

LEMMA NextInductive ==
  ASSUME Inductive, [Next]_vars
  PROVE  Inductive'
<1>1. CASE UNCHANGED vars
  BY <1>1 DEF vars, Inductive, RestOK, SessionOK, RelayOK, RelayTyped, Within
<1>2. ASSUME NEW d \in Device, SaveAttachment(d) \/ DeleteAttachment(d)
      PROVE  Inductive'
  BY <1>2, SaveInductive, DeleteInductive
<1>3. ASSUME NEW d \in Device, SyncStep(d)
      PROVE  Inductive'
  BY <1>3, NextBatchInductive, RelayCleanInductive, RelayStoreInductive, ConfirmInductive,
     PushInductive, NoRelayRouteInductive, InlineRelayInductive, PullInductive,
     FetchInductive, StoreFetchedInductive, MaintainInductive DEF SyncStep
<1>4. QED
  BY <1>1, <1>2, <1>3, RequestFailsInductive, FaultsInductive DEF Next
-----------------------------------------------------------------------------
(* Theorems *)

(* The relay and the desktops keep the invariant, whatever is lost.         *)
THEOREM AlwaysInductive == Spec => []Inductive
<1>1. Inductive /\ [Next]_vars => Inductive'
  BY NextInductive
<1>2. QED
  BY <1>1, InitInductive, PTL DEF Spec

(* Every variable keeps its type: sessions, chunks, rows and relayed bytes, *)
(* for any devices, contents, limits and failures.                          *)
THEOREM TypeCorrect == Spec => []TypeOK
<1>1. Inductive => TypeOK
  BY DEF Inductive, RestOK, SessionOK, RelayOK, RelayTyped, TypeOK
<1>2. QED
  BY <1>1, AlwaysInductive, PTL

(* store_relay_blobs keeps every window and the whole relay within their    *)
(* limits, however devices share, replace and evict each other's bytes.     *)
THEOREM RelayKeepsLimits == Spec => []RelayWithinLimits
<1>1. Inductive => RelayWithinLimits
  BY DEF Inductive, RelayOK, Within, RelayWithinLimits
<1>2. QED
  BY <1>1, AlwaysInductive, PTL

(* No chunk that attachment_blob_relay_chunks makes, and no inline payload, *)
(* is refused: not by the limits of a request, and not for want of capacity.*)
THEOREM ChunksAreTaken == Spec => []RelayTakesEveryChunk
<1>1. ASSUME Inductive, NEW d \in Device, NEW S, Packed(S)
      PROVE  ValidRequest(S) /\ ~Refused(relay, d, S)
  <2>1. S \in SUBSET Hash /\ BytesOf(S) \in Nat /\ BytesOf(S) <= RequestBytes
    BY <1>1, BytesAreNat DEF Packed, ValidRequest
  <2>2. BytesOf(S) <= DeviceBytes /\ ~(BytesOf(S) > DeviceBytes)
    BY <2>1, LimitAssumption
  <2>3. Fits(MakeRoom(relay, d, S), d, S)
    BY <1>1, <2>1, <2>2, MakeRoomFits DEF Inductive, RelayOK
  <2>4. QED
    BY <1>1, <2>2, <2>3 DEF Refused, Packed
<1>2. Inductive => RelayTakesEveryChunk
  <2> SUFFICES ASSUME Inductive, NEW d \in Device
               PROVE  /\ session[d].at \in {"relay", "store"} =>
                           /\ ValidRequest(Head(session[d].chunks))
                           /\ ~Refused(relay, d, Head(session[d].chunks))
                      /\ session[d].at = "inline" =>
                           \A h \in Head(session[d].chunks) :
                             ValidRequest({h}) /\ ~Refused(relay, d, {h})
    BY DEF RelayTakesEveryChunk
  <2>1. session[d].at \in {"relay", "store"} => Packed(Head(session[d].chunks))
    BY SessionTyped DEF Inductive, Sendable
  <2>2. session[d].at = "inline" => Head(session[d].chunks) \in SUBSET Hash
    BY SessionTyped DEF Inductive, Sendable
  <2>3. QED
    BY <1>1, <2>1, <2>2, SinglesArePacked
<1>3. QED
  BY <1>2, AlwaysInductive, PTL

-----------------------------------------------------------------------------
(* The order of eviction *)

LEMMA OlderIsTotal ==
  ASSUME NEW r, RelayTyped(r), NEW S \in SUBSET (DOMAIN r)
  PROVE  \A g, h, k \in S :
           /\ ~Older(r, g, g)
           /\ g # h => Older(r, g, h) \/ Older(r, h, g)
           /\ Older(r, g, h) => ~Older(r, h, g)
           /\ Older(r, g, h) /\ Older(r, h, k) => Older(r, g, k)
<1>1. \A h \in S : h \in Nat /\ r[h].created \in Nat /\ r[h].expires \in Nat
  BY HashAssumption DEF RelayTyped, Entries
<1>2. QED
  BY <1>1 DEF Older

Rank(r, S, h) == Cardinality({g \in S : Older(r, g, h)})

LEMMA RanksFollow ==
  ASSUME NEW r, RelayTyped(r), NEW S \in SUBSET (DOMAIN r), NEW g \in S, NEW h \in S
  PROVE  /\ Rank(r, S, g) \in Nat
         /\ Older(r, g, h) => Rank(r, S, g) < Rank(r, S, h)
<1> DEFINE G == {x \in S : Older(r, x, g)}
           H == {x \in S : Older(r, x, h)}
<1>1. IsFiniteSet(S)
  BY HashesWeigh DEF RelayTyped
<1>2. IsFiniteSet(G) /\ IsFiniteSet(H) /\ Cardinality(G) \in Nat /\ Cardinality(H) \in Nat
  BY <1>1, FS_Subset, FS_CardinalityType
<1>3. ASSUME Older(r, g, h) PROVE G \in SUBSET H /\ G # H
  BY <1>3, OlderIsTotal
<1> HIDE DEF G, H
<1>4. ASSUME Older(r, g, h) PROVE Cardinality(G) < Cardinality(H)
  <2>1. Cardinality(G) <= Cardinality(H) /\ Cardinality(G) # Cardinality(H)
    BY <1>2, <1>3, <1>4, FS_Subset
  <2>2. QED
    BY <1>2, <2>1
<1>5. QED
  BY <1>2, <1>4 DEF Rank, G, H

(* What goes is older than what stays.                                      *)
LEMMA OldestGoFirst ==
  ASSUME NEW r, RelayTyped(r), NEW S \in SUBSET (DOMAIN r), NEW n \in Nat,
         NEW g \in Oldest(r, S, n), NEW k \in S \ Oldest(r, S, n)
  PROVE  Older(r, g, k)
<1>1. g \in S /\ Rank(r, S, g) < n /\ ~(Rank(r, S, k) < n)
  BY DEF Oldest, Rank
<1>2. g # k
  BY <1>1
<1>3. ~Older(r, k, g)
  BY <1>1, RanksFollow
<1>4. QED
  BY <1>1, <1>2, <1>3, OlderIsTotal

(* The last to go is the newest of them, and without it the room was short. *)
LEMMA LastToGo ==
  ASSUME NEW r, RelayTyped(r), NEW S \in SUBSET (DOMAIN r), NEW room \in Nat,
         Evicted(r, S, room) # {}
  PROVE  \E h \in Evicted(r, S, room) :
           /\ \A g \in Evicted(r, S, room) : g = h \/ Older(r, g, h)
           /\ BytesOf(S \ Evicted(r, S, room)) + Size[h] > room
<1> DEFINE gone == Evicted(r, S, room)
           fits  == {n \in 0..Cardinality(S) : BytesOf(S \ Oldest(r, S, n)) <= room}
           count == Min(fits \cup {Cardinality(S)})
           m == count - 1
           before == Oldest(r, S, m)
<1>1. S \in SUBSET Hash /\ Cardinality(S) \in Nat
  BY HashesWeigh DEF RelayTyped
<1>2. gone = Oldest(r, S, count)
  BY DEF Evicted
<1>3. count \in Nat /\ count <= Cardinality(S) /\ \A n \in fits : count <= n
  <2>1. fits \cup {Cardinality(S)} \in SUBSET Nat
    BY <1>1
  <2>2. Cardinality(S) \in fits \cup {Cardinality(S)}
    OBVIOUS
  <2> HIDE DEF fits
  <2>3. QED
    BY <2>1, <2>2, MinIsLeast
<1>4. gone \subseteq S /\ BytesOf(S \ gone) <= room
  BY EvictionMakesRoom
<1>5. \A g \in S : Rank(r, S, g) \in Nat /\ (g \in gone <=> Rank(r, S, g) < count)
                   /\ (g \in before <=> Rank(r, S, g) < m)
  BY <1>2, RanksFollow DEF Oldest, Rank
<1> HIDE DEF gone, count
<1>6. m \in Nat
  BY <1>3, <1>4, <1>5 DEF gone
<1>7. ~(BytesOf(S \ before) <= room)
  <2>1. m \in 0..Cardinality(S) /\ m \notin fits
    <3> HIDE DEF fits
    <3>1. QED
      BY <1>1, <1>3, <1>6
  <2>2. QED
    BY <2>1
<1>8. before \subseteq gone
  BY <1>3, <1>5, <1>6 DEF Oldest
<1>9. PICK h \in gone : h \notin before
  <2> HIDE DEF before
  <2>1. QED
    BY <1>4, <1>7, <1>8
<1>10. ASSUME NEW g \in gone PROVE g = h \/ Older(r, g, h)
  <2>1. ~(Rank(r, S, h) < m) /\ Rank(r, S, g) < count /\ Rank(r, S, g) \in Nat
    BY <1>4, <1>5, <1>9
  <2>2. ~(Rank(r, S, h) < Rank(r, S, g))
    <3>1. Rank(r, S, h) \in Nat
      BY <1>4, <1>5, <1>9
    <3>2. QED
      BY <1>3, <2>1, <3>1
  <2>3. ~Older(r, h, g)
    BY <1>4, <1>9, <2>2, RanksFollow
  <2>4. QED
    BY <1>4, <1>9, <2>3, OlderIsTotal
<1>11. ASSUME NEW g \in gone, g # h PROVE g \in before
  <2>1. Rank(r, S, g) < Rank(r, S, h)
    BY <1>4, <1>9, <1>10, <1>11, RanksFollow
  <2>2. Rank(r, S, h) \in Nat /\ Rank(r, S, h) < count /\ Rank(r, S, g) \in Nat
    BY <1>4, <1>5, <1>9
  <2>3. QED
    BY <1>3, <1>4, <1>5, <2>1, <2>2
<1>12. S \ before = (S \ gone) \cup {h}
  <2> HIDE DEF before, m
  <2>1. QED
    BY <1>4, <1>8, <1>9, <1>11
<1>13. BytesOf(S \ before) = BytesOf(S \ gone) + Size[h]
  <2>1. BytesOf((S \ gone) \cup {h}) = BytesOf(S \ gone) + BytesOf({h})
    BY <1>1, <1>4, <1>9, BytesOfBoth
  <2>2. BytesOf({h}) = Size[h]
    BY <1>1, <1>4, <1>9, BytesOfFew
  <2> HIDE DEF before
  <2>3. QED
    BY <1>12, <2>1, <2>2
<1>14. BytesOf(S \ gone) + Size[h] > room
  <2>1. BytesOf(S \ gone) \in Nat /\ Size[h] \in Nat
    BY <1>1, <1>4, <1>9, BytesAreNat, HashAssumption
  <2> HIDE DEF before
  <2>2. QED
    BY <1>7, <1>13, <2>1
<1>15. QED
  BY <1>10, <1>14 DEF gone

LEMMA EvictedAreOlder ==
  ASSUME NEW r, RelayTyped(r), NEW S \in SUBSET (DOMAIN r), NEW room \in Nat,
         NEW g \in Evicted(r, S, room), NEW k \in S \ Evicted(r, S, room)
  PROVE  Older(r, g, k)
<1> DEFINE fits  == {n \in 0..Cardinality(S) : BytesOf(S \ Oldest(r, S, n)) <= room}
           count == Min(fits \cup {Cardinality(S)})
<1>1. Evicted(r, S, room) = Oldest(r, S, count)
  BY DEF Evicted
<1>2. Cardinality(S) \in Nat
  BY HashesWeigh DEF RelayTyped
<1>3. count \in Nat
  <2>1. fits \cup {Cardinality(S)} \in SUBSET Nat
    BY <1>2
  <2> HIDE DEF fits
  <2>2. QED
    BY <2>1, MinIsLeast
<1> HIDE DEF count
<1>4. QED
  BY <1>1, <1>3, OldestGoFirst

(* Of two entries, the older expires no later.                              *)
LEMMA OlderExpiresFirst ==
  ASSUME NEW r, RelayTyped(r), NEW g \in DOMAIN r, NEW h \in DOMAIN r,
         g = h \/ Older(r, g, h), NEW now \in Nat, r[g].expires > now
  PROVE  r[h].expires > now
<1>1. /\ r[g].created \in Nat /\ r[g].expires = r[g].created + Ttl
      /\ r[h].created \in Nat /\ r[h].expires = r[h].created + Ttl
  BY DEF RelayTyped, Entries
<1>2. QED
  BY <1>1, TtlAssumption DEF Older

(* What a request of device d makes the relay drop.                         *)
LEMMA StoringDropsOldest ==
  ASSUME Inductive, NEW d \in Device, NEW S \in SUBSET Resent(d), S \in SUBSET Hash,
         BytesOf(S) <= DeviceBytes, relay' = Stored(relay, d, S, clock), Dropped # {}
  PROVE  DroppedForRoom
<1> DEFINE others == Without(relay, S)
           mine == OwnedBy(others, d)
           room == DeviceBytes - BytesOf(S)
           gone1 == Evicted(others, mine, room)
           own == Without(others, gone1)
           all == TotalBytes - BytesOf(S)
           gone2 == Evicted(own, DOMAIN own, all)
           left == Without(own, gone2)
           Lasts(h) == relay[h].expires > clock
<1>1. RelayTyped(relay) /\ clock \in Nat
  BY BoundsAssumption DEF Inductive, RelayOK, RestOK
<1>2. BytesOf(S) \in Nat /\ room \in Nat /\ all \in Nat /\ ~(BytesOf(S) > DeviceBytes)
  BY BytesAreNat, LimitAssumption
<1>3. MakeRoom(relay, d, S) = left
  BY DEF MakeRoomForSender, MakeRoom
<1>4. relay' = With(left, S, Entry(d, clock))
  <2>1. Fits(MakeRoom(relay, d, S), d, S)
    BY <1>1, MakeRoomFits
  <2> HIDE DEF left
  <2>2. QED
    BY <1>2, <1>3, <2>1 DEF Stored
<1>5. /\ RelayTyped(others) /\ DOMAIN others = DOMAIN relay \ S
      /\ \A h \in DOMAIN others : others[h] = relay[h]
  BY <1>1, WithoutLeaves, LeftStaysWithin DEF LeftOf
<1>6. mine \in SUBSET (DOMAIN others) /\ mine = {h \in DOMAIN others : others[h].device = d}
  BY DEF OwnedBy
<1> HIDE DEF others, room, all, mine
<1>7. gone1 \subseteq mine
  BY <1>2, <1>5, <1>6, EvictionMakesRoom
<1>8. /\ RelayTyped(own) /\ DOMAIN own = DOMAIN others \ gone1
      /\ \A h \in DOMAIN own : own[h] = relay[h]
  <2>1. LeftOf(own, others) /\ DOMAIN own = DOMAIN others \ gone1
    BY WithoutLeaves
  <2> HIDE DEF own, gone1
  <2>2. RelayTyped(own)
    BY <1>5, <2>1, LeftStaysWithin
  <2>3. QED
    BY <1>5, <2>1, <2>2 DEF LeftOf
<1>9. \A g \in gone1, k \in mine \ gone1 : Older(relay, g, k)
  <2>1. \A g \in gone1, k \in mine \ gone1 : Older(others, g, k)
    BY <1>2, <1>5, <1>6, EvictedAreOlder
  <2>2. QED
    BY <1>5, <1>6, <1>7, <2>1 DEF Older
<1>10. gone1 # {} => \E h \in gone1 :
         /\ \A g \in gone1 : g = h \/ Older(relay, g, h)
         /\ BytesOf(mine \ gone1) + Size[h] > room
  <2> SUFFICES ASSUME gone1 # {}
               PROVE \E h \in gone1 : /\ \A g \in gone1 : g = h \/ Older(relay, g, h)
                                      /\ BytesOf(mine \ gone1) + Size[h] > room
    OBVIOUS
  <2>1. PICK h \in gone1 : /\ \A g \in gone1 : g = h \/ Older(others, g, h)
                           /\ BytesOf(mine \ gone1) + Size[h] > room
    BY <1>2, <1>5, <1>6, LastToGo
  <2>2. \A g \in gone1 : others[g] = relay[g]
    BY <1>5, <1>6, <1>7
  <2>3. QED
    BY <2>1, <2>2 DEF Older
<1> HIDE DEF gone1, own
<1>11. gone2 \subseteq DOMAIN own
  BY <1>2, <1>8, EvictionMakesRoom
<1>12. /\ DOMAIN left = DOMAIN own \ gone2
       /\ \A h \in DOMAIN left : left[h] = relay[h]
  BY <1>8, WithoutLeaves DEF LeftOf
<1>13. \A g \in gone2, k \in DOMAIN own \ gone2 : Older(relay, g, k)
  <2>1. \A g \in gone2, k \in DOMAIN own \ gone2 : Older(own, g, k)
    BY <1>2, <1>8, EvictedAreOlder
  <2>2. \A k \in DOMAIN own : own[k] = relay[k]
    BY <1>8
  <2> HIDE DEF gone2
  <2>3. QED
    BY <1>11, <2>1, <2>2 DEF Older
<1>14. gone2 # {} => \E h \in gone2 :
         /\ \A g \in gone2 : g = h \/ Older(relay, g, h)
         /\ BytesOf(DOMAIN own \ gone2) + Size[h] > all
  <2> SUFFICES ASSUME gone2 # {}
               PROVE \E h \in gone2 : /\ \A g \in gone2 : g = h \/ Older(relay, g, h)
                                      /\ BytesOf(DOMAIN own \ gone2) + Size[h] > all
    OBVIOUS
  <2>1. PICK h \in gone2 : /\ \A g \in gone2 : g = h \/ Older(own, g, h)
                           /\ BytesOf(DOMAIN own \ gone2) + Size[h] > all
    BY <1>2, <1>8, LastToGo
  <2>2. \A g \in gone2 : own[g] = relay[g]
    BY <1>8, <1>11
  <2>3. QED
    BY <2>1, <2>2 DEF Older
<1> HIDE DEF gone2, left
<1>15. /\ DOMAIN relay' = S \cup DOMAIN left
       /\ \A h \in DOMAIN relay' : relay'[h].device = IF h \in S THEN d ELSE relay[h].device
  <2>1. Entry(d, clock).device = d
    BY DEF Entry
  <2>2. QED
    BY <1>4, <1>12, <2>1 DEF With
<1>16. Dropped = {h \in gone1 \cup gone2 : Lasts(h)}
  BY <1>5, <1>6, <1>7, <1>8, <1>11, <1>12, <1>15 DEF Dropped
<1>17. Kept(d) \subseteq DOMAIN left
  BY <1>15 DEF Kept
<1> DEFINE first(g) == relay[g].device = d /\ Newer(Kept(d) \cap OwnedBy(relay, d), g)
<1>18. \A g \in gone1 : first(g)
  <2>1. Kept(d) \cap OwnedBy(relay, d) \subseteq mine \ gone1
    BY <1>5, <1>6, <1>8, <1>12, <1>17 DEF OwnedBy
  <2>2. \A g \in gone1 : relay[g].device = d
    BY <1>5, <1>6, <1>7
  <2>3. QED
    BY <1>9, <2>1, <2>2 DEF Newer
<1>19. \A g \in gone2 : Newer(Kept(d), g)
  BY <1>12, <1>13, <1>17 DEF Newer
<1>20. gone1 \subseteq DOMAIN relay /\ gone2 \subseteq DOMAIN relay /\ mine \subseteq DOMAIN relay
  BY <1>5, <1>6, <1>7, <1>8, <1>11
<1>21. DOMAIN own \in SUBSET Hash /\ mine \in SUBSET Hash /\ S \cap DOMAIN own = {}
       /\ S \cap mine = {}
  BY <1>5, <1>6, <1>8 DEF RelayTyped
<1>22. CASE \E g \in gone2 : Lasts(g)
  <2>1. PICK g \in gone2 : Lasts(g)
    BY <1>22
  <2>2. PICK h \in gone2 : /\ \A k \in gone2 : k = h \/ Older(relay, k, h)
                           /\ BytesOf(DOMAIN own \ gone2) + Size[h] > all
    BY <1>14, <2>1
  <2>3. Lasts(h)
    BY <1>1, <1>20, <2>1, <2>2, OlderExpiresFirst
  <2>4. h \in Dropped
    BY <1>16, <2>3
  <2>5. BytesOf(DOMAIN relay') = BytesOf(S) + BytesOf(DOMAIN own \ gone2)
    <3>1. DOMAIN own \ gone2 \in SUBSET Hash /\ S \cap (DOMAIN own \ gone2) = {}
      BY <1>21
    <3>2. QED
      BY <1>12, <1>15, <3>1, BytesOfBoth
  <2>6. BytesOf(DOMAIN relay') + Size[h] > TotalBytes
    <3>1. BytesOf(DOMAIN own \ gone2) \in Nat /\ Size[h] \in Nat
      BY <1>11, <1>21, BytesAreNat, HashAssumption
    <3>2. BytesOf(DOMAIN own \ gone2) + Size[h] > TotalBytes - BytesOf(S)
      BY <2>2 DEF all
    <3>3. QED
      BY <1>2, <2>5, <3>1, <3>2, LimitAssumption
  <2>7. \A k \in Dropped : first(k) \/ Newer(Kept(d), k)
    BY <1>16, <1>18, <1>19
  <2>8. QED
    BY <2>4, <2>6, <2>7 DEF DroppedForRoom
<1>23. CASE ~\E g \in gone2 : Lasts(g)
  <2>1. PICK g \in gone1 : Lasts(g)
    BY <1>16, <1>23
  <2>2. PICK h \in gone1 : /\ \A k \in gone1 : k = h \/ Older(relay, k, h)
                           /\ BytesOf(mine \ gone1) + Size[h] > room
    BY <1>10, <2>1
  <2>3. Lasts(h)
    BY <1>1, <1>20, <2>1, <2>2, OlderExpiresFirst
  <2>4. h \in Dropped
    BY <1>16, <2>3
  <2>5. \A k \in Dropped : first(k)
    BY <1>16, <1>18, <1>23
  <2>6. ASSUME NEW k \in mine \ gone1 PROVE k \notin gone2
    <3>1. Lasts(k)
      BY <1>1, <1>9, <1>20, <2>2, <2>3, OlderExpiresFirst
    <3>2. QED
      BY <1>23, <3>1
  <2>7. OwnedBy(relay', d) = S \cup (mine \ gone1)
    BY <1>5, <1>6, <1>8, <1>12, <1>15, <2>6 DEF OwnedBy
  <2>8. BytesOf(OwnedBy(relay', d)) = BytesOf(S) + BytesOf(mine \ gone1)
    <3>1. mine \ gone1 \in SUBSET Hash /\ S \cap (mine \ gone1) = {}
      BY <1>21
    <3>2. QED
      BY <2>7, <3>1, BytesOfBoth
  <2>9. BytesOf(OwnedBy(relay', d)) + Size[h] > DeviceBytes
    <3>1. BytesOf(mine \ gone1) \in Nat /\ Size[h] \in Nat
      BY <1>7, <1>21, BytesAreNat, HashAssumption
    <3>2. BytesOf(mine \ gone1) + Size[h] > DeviceBytes - BytesOf(S)
      BY <2>2 DEF room
    <3>3. QED
      BY <1>2, <2>8, <3>1, <3>2, LimitAssumption
  <2>10. QED
    BY <2>4, <2>5, <2>9 DEF DroppedForRoom
<1>24. QED
  BY <1>22, <1>23

-----------------------------------------------------------------------------
(* A step that stores bytes is that of a request whose bytes fit a window.  *)
LEMMA StepDropsOldest ==
  ASSUME Inductive, [Next]_vars, Dropped # {}
  PROVE  relay' = <<>> \/ DroppedForRoom
<1>1. CASE relay' = relay \/ relay' = Unexpired(relay, clock)
  BY <1>1 DEF Dropped, Unexpired, Restrict
<1>2. ASSUME NEW d \in Device, RelayStore(d) PROVE DroppedForRoom
  <2> DEFINE S == Head(session[d].chunks)
  <2>1. /\ session[d].chunks # <<>> /\ session[d].chunks \in Seq(SUBSET Hash)
        /\ relay' = Stored(relay, d, S, clock)
        /\ \A i \in 1..Len(session[d].chunks) : Packed(session[d].chunks[i])
    BY <1>2, SessionTyped DEF RelayStore, Inductive, Sendable
  <2>2. Packed(S) /\ S \in SUBSET Resent(d)
    BY <2>1 DEF Resent
  <2> HIDE DEF S
  <2>3. S \in SUBSET Hash /\ BytesOf(S) <= DeviceBytes
    BY <2>2, BytesAreNat, LimitAssumption DEF Packed, ValidRequest
  <2>4. QED
    BY <2>1, <2>2, <2>3, StoringDropsOldest
<1>3. ASSUME NEW d \in Device, InlineRelay(d) PROVE relay' = relay \/ DroppedForRoom
  <2> DEFINE todo == Head(session[d].chunks)
  <2>1. session[d].at = "inline" /\ session[d].chunks # <<>> /\ todo \in SUBSET Hash
    BY <1>3, SessionTyped DEF InlineRelay, Inductive, Sendable
  <2>2. relay' = relay \/ \E h \in todo : relay' = Stored(relay, d, {h}, clock)
    BY <1>3 DEF InlineRelay
  <2>3. ASSUME NEW h \in todo, relay' = Stored(relay, d, {h}, clock) PROVE DroppedForRoom
    <3>1. {h} \in SUBSET Resent(d)
      BY <2>1 DEF Resent
    <3>2. {h} \in SUBSET Hash
      BY <2>1
    <3>3. BytesOf({h}) <= DeviceBytes
      <4>1. Packed({h}) /\ BytesOf({h}) \in Nat
        BY <3>2, SinglesArePacked, BytesAreNat
      <4>2. QED
        BY <4>1, LimitAssumption DEF Packed, ValidRequest
    <3>4. QED
      BY <2>3, <3>1, <3>2, <3>3, StoringDropsOldest
  <2>4. QED
    BY <2>2, <2>3
<1>4. CASE Restart
  BY <1>4 DEF Restart
<1>5. CASE ~(relay' = relay \/ relay' = Unexpired(relay, clock))
  <2>1. Restart \/ \E d \in Device : RelayStore(d) \/ InlineRelay(d)
    BY <1>5 DEF Next, vars, SyncStep, SaveAttachment, DeleteAttachment, NextBatch, RelayClean,
       Confirm, Push, NoRelayRoute, Pull, Fetch, StoreFetched, Maintain, RequestFails, Tick
  <2>2. QED
    BY <1>2, <1>3, <1>4, <1>5, <2>1
<1>6. QED
  BY <1>1, <1>5

(* store_relay_blobs drops bytes before they expire only to make room, the  *)
(* oldest first, and no more of them than it must.                          *)
THEOREM OldestAreDropped == Spec => KeptUntilExpiry
<1>1. Inductive /\ [Next]_vars => [Dropped # {} => relay' = <<>> \/ DroppedForRoom]_vars
  BY StepDropsOldest
<1>2. QED
  BY <1>1, AlwaysInductive, PTL DEF Spec, KeptUntilExpiry

-----------------------------------------------------------------------------
(* Bytes that are shown *)

(* Every device has its rows and its bytes.                                 *)
PerDevice ==
  /\ known = [d \in Device |-> known[d]]
  /\ bytes = [d \in Device |-> bytes[d]]

(* What one step may do to what d holds: bytes go only if no live row names *)
(* them after the step.                                                     *)
Keeps(d) == bytes[d] \cap HashesOf(LiveIn(known'[d])) \subseteq bytes'[d]

LEMMA SweptAreUnnamed ==
  ASSUME NEW held, NEW rows, NEW waiting
  PROVE  held \cap HashesOf(LiveIn(rows)) \subseteq Sweep(held, rows, waiting)
BY DEF Sweep

(* One device's rows and bytes change; what goes is not named by its rows.  *)
LEMMA OneDeviceStep ==
  ASSUME PerDevice, NEW e \in Device, NEW rows, NEW held,
         known' = [known EXCEPT ![e] = rows], bytes' = [bytes EXCEPT ![e] = held],
         bytes[e] \cap HashesOf(LiveIn(rows)) \subseteq held
  PROVE  PerDevice' /\ \A d \in Device : Keeps(d)
<1>1. PerDevice'
  BY DEF PerDevice
<1>2. ASSUME NEW d \in Device PROVE Keeps(d)
  <2>1. CASE d = e
    <3>1. known'[d] = rows /\ bytes'[d] = held
      BY <2>1 DEF PerDevice
    <3>2. QED
      BY <2>1, <3>1 DEF Keeps
  <2>2. CASE d # e
    <3>1. bytes'[d] = bytes[d]
      BY <2>2 DEF PerDevice
    <3>2. QED
      BY <3>1 DEF Keeps
  <2>3. QED
    BY <2>1, <2>2
<1>3. QED
  BY <1>1, <1>2

LEMMA DeleteStep ==
  ASSUME PerDevice, NEW e \in Device, DeleteAttachment(e)
  PROVE  PerDevice' /\ \A d \in Device : Keeps(d)
<1>1. PICK u \in {v \in Live(e) : v.att \in Deletable} :
        LET op    == [u EXCEPT !.kind = "delete"]
            rows  == known[e] \cup {op}
            later == {p \in queue[e] : p.att # u.att} \cup {op}
        IN /\ known' = [known EXCEPT ![e] = rows]
           /\ bytes' = [bytes EXCEPT ![e] = Sweep(@, rows, later)]
  BY DEF DeleteAttachment
<1> DEFINE op == [u EXCEPT !.kind = "delete"]
           rows == known[e] \cup {op}
           later == {p \in queue[e] : p.att # u.att} \cup {op}
           held == Sweep(bytes[e], rows, later)
<1>2. known' = [known EXCEPT ![e] = rows] /\ bytes' = [bytes EXCEPT ![e] = held]
  BY <1>1
<1>3. bytes[e] \cap HashesOf(LiveIn(rows)) \subseteq held
  BY SweptAreUnnamed
<1> HIDE DEF rows, held
<1>4. QED
  BY <1>2, <1>3, OneDeviceStep

LEMMA MaintainStep ==
  ASSUME PerDevice, NEW e \in Device, Maintain(e)
  PROVE  PerDevice' /\ \A d \in Device : Keeps(d)
<1> DEFINE held == Sweep(bytes[e], known[e], queue[e])
<1>1. known' = [known EXCEPT ![e] = known[e]] /\ bytes' = [bytes EXCEPT ![e] = held]
  BY DEF Maintain, PerDevice
<1>2. bytes[e] \cap HashesOf(LiveIn(known[e])) \subseteq held
  BY SweptAreUnnamed
<1> HIDE DEF held
<1>3. QED
  BY <1>1, <1>2, OneDeviceStep

LEMMA SaveStep ==
  ASSUME PerDevice, NEW e \in Device, SaveAttachment(e)
  PROVE  PerDevice' /\ \A d \in Device : Keeps(d)
<1>1. PICK rows, more :
        known' = [known EXCEPT ![e] = rows] /\ bytes' = [bytes EXCEPT ![e] = bytes[e] \cup more]
  BY DEF SaveAttachment
<1>2. QED
  BY <1>1, OneDeviceStep

LEMMA StoreFetchedStep ==
  ASSUME PerDevice, NEW e \in Device, StoreFetched(e)
  PROVE  PerDevice' /\ \A d \in Device : Keeps(d)
<1>1. /\ known' = [known EXCEPT ![e] = known[e]]
      /\ bytes' = [bytes EXCEPT ![e] = bytes[e] \cup session[e].got]
  BY DEF StoreFetched, PerDevice
<1>2. QED
  BY <1>1, OneDeviceStep

(* A pull brings rows, and a deletion among them leaves the bytes to the    *)
(* sweep at the end of the session.                                         *)
LEMMA PullStep ==
  ASSUME PerDevice, NEW e \in Device, Pull(e)
  PROVE  PerDevice' /\ \A d \in Device : Keeps(d)
<1>1. /\ known' = [known EXCEPT ![e] = known[e] \cup log]
      /\ bytes' = [bytes EXCEPT ![e] = bytes[e]]
  BY DEF Pull, PerDevice
<1>2. QED
  BY <1>1, OneDeviceStep

LEMMA NextKeeps ==
  ASSUME PerDevice, [Next]_vars
  PROVE  PerDevice' /\ \A d \in Device : Keeps(d)
<1>1. CASE UNCHANGED <<known, bytes>>
  BY <1>1 DEF PerDevice, Keeps
<1>2. \/ UNCHANGED <<known, bytes>>
      \/ \E e \in Device : \/ SaveAttachment(e) \/ DeleteAttachment(e)
                           \/ Pull(e) \/ StoreFetched(e) \/ Maintain(e)
  BY DEF Next, SyncStep, vars, RequestFails, Restart, Tick, NextBatch, RelayClean,
     RelayStore, Confirm, Push, NoRelayRoute, InlineRelay, Fetch
<1>3. QED
  BY <1>1, <1>2, SaveStep, DeleteStep, PullStep, StoreFetchedStep, MaintainStep

(* A device that has the bytes of an attachment it shows keeps them while   *)
(* it shows it: cleanup_attachment_blobs, run by commands and sessions, and *)
(* attachments that share their content notwithstanding.                    *)
THEOREM ShownBytesAreHeld == Spec => HeldWhileShown
<1>1. Init => PerDevice
  BY DEF Init, PerDevice
<1>2. PerDevice /\ [Next]_vars => PerDevice'
  BY NextKeeps
<1>3. PerDevice /\ [Next]_vars
      => [\A d \in Device : \A op \in Live(d) :
            op.hash \in bytes[d] \ bytes'[d] => op \notin Live(d)']_vars
  <2> SUFFICES ASSUME PerDevice, [Next]_vars, NEW d \in Device, NEW op \in Live(d),
                      op.hash \in bytes[d] \ bytes'[d], op \in Live(d)'
               PROVE  FALSE
    OBVIOUS
  <2>1. op \in LiveIn(known'[d])
    BY DEF Live
  <2>2. op.hash \in HashesOf(LiveIn(known'[d]))
    BY <2>1 DEF HashesOf, LiveIn, Upserts
  <2>3. QED
    BY <2>2, NextKeeps DEF Keeps
<1>4. QED
  BY <1>1, <1>2, <1>3, PTL DEF Spec, HeldWhileShown
=============================================================================
