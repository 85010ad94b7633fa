---------------------------- MODULE RenderCache ----------------------------
(***************************************************************************)
(* RenderCache (memo-render): rendered previews by cache key, least        *)
(* recently used first, within a number of entries and of bytes.  A        *)
(* preview is reduced to the lengths of its merged SVG (0: none) and of    *)
(* its pages.                                                              *)
(***************************************************************************)
EXTENDS Integers, Sequences, SequencesExt, FiniteSetsExt, Functions

CONSTANTS
  MaxEntries,    \* RENDER_CACHE_ENTRIES
  MaxBytes       \* RENDER_CACHE_BYTES

ASSUME CacheAssumption == MaxEntries \in Nat \ {0} /\ MaxBytes \in Nat \ {0}

Output == [svg: Nat, pages: Nat]
ByteLen(out) == out.svg + out.pages
HasInlineSvg(out) == out.svg > 0

EmptyCache == [entries |-> <<>>, order |-> <<>>, bytes |-> 0]

Cached(cache) == DOMAIN cache.entries

(* How many bytes the previews of keys have: each byte is counted.         *)
Bytes(entries, keys) == UNION {{k} \X (1..ByteLen(entries[k])) : k \in keys}
Held(cache, keys) == Cardinality(Bytes(cache.entries, keys))

(* VecDeque::retain: all but k, in their order.                            *)
Without(order, k) ==
  LET kept == {i \in DOMAIN order : order[i] # k}
      Place(i) == Cardinality({h \in kept : h <= i})
  IN [p \in 1..Cardinality(kept) |-> order[CHOOSE i \in kept : Place(i) = p]]

(* move_to_back *)
Touched(cache, k) == [cache EXCEPT !.order = Append(Without(@, k), k)]

(* get answers nothing for an entry that only an asset rendering made.     *)
GetAny(cache, k) == k \in Cached(cache)
Get(cache, k) == k \in Cached(cache) /\ HasInlineSvg(cache.entries[k])
GetMetadata(cache, k) == k \in Cached(cache)

Discarded(cache, k) ==
  IF k \notin Cached(cache) THEN cache
  ELSE [entries |-> Restrict(cache.entries, Cached(cache) \ {k}),
        order   |-> Without(cache.order, k),
        bytes   |-> cache.bytes - ByteLen(cache.entries[k])]

(* The eviction loop: entries leave from the front of the order until the  *)
(* rest is within the limits.                                              *)
WithoutFirst(cache, n) ==
  LET gone == ToSet(SubSeq(cache.order, 1, n)) \cap Cached(cache)
  IN [entries |-> Restrict(cache.entries, Cached(cache) \ gone),
      order   |-> SubSeq(cache.order, n + 1, Len(cache.order)),
      bytes   |-> cache.bytes - Held(cache, gone)]
WithinLimits(cache) ==
  Cardinality(Cached(cache)) <= MaxEntries /\ cache.bytes <= MaxBytes

Evicted(cache) ==
  LET enough == {n \in 0..Len(cache.order) : WithinLimits(WithoutFirst(cache, n))}
  IN WithoutFirst(cache, Min(enough \cup {Len(cache.order)}))

With(entries, k, out) ==
  [x \in DOMAIN entries \cup {k} |-> IF x = k THEN out ELSE entries[x]]

(* insert: a preview longer than the whole cache is not kept.              *)
TooLarge(out) == ByteLen(out) > MaxBytes

InsertedTwice(cache, k, out) ==
  IF TooLarge(out) THEN cache
  ELSE Evicted([entries |-> With(cache.entries, k, out),
                order   |-> Append(Without(cache.order, k), k),
                bytes   |-> cache.bytes + ByteLen(out)])
Inserted(cache, k, out) ==
  IF TooLarge(out) THEN cache
  ELSE LET rest == Discarded(cache, k)
       IN Evicted([entries |-> With(rest.entries, k, out),
                   order   |-> Append(rest.order, k),
                   bytes   |-> rest.bytes + ByteLen(out)])

(* The order names every entry once, and the count of bytes is what the    *)
(* entries hold: eviction stops exactly when it should.                    *)
Consistent(cache) ==
  /\ ToSet(cache.order) = Cached(cache) /\ IsInjective(cache.order)
  /\ cache.bytes = Held(cache, Cached(cache))
=============================================================================
