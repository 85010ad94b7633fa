----------------------------- MODULE BlobRelay ------------------------------
(***************************************************************************)
(* The server's in-memory relay of attachment bytes (routes.rs): what it   *)
(* takes, keeps, drops and serves.  It maps a content hash to the device   *)
(* that relayed the bytes, the time it did and the time they expire.       *)
(***************************************************************************)
EXTENDS Integers, FiniteSetsExt, Functions

CONSTANTS
  Hash,          \* content hashes, numbered in the order their strings sort
  Size,          \* the length in bytes of the content of each hash
  Ttl,           \* how long the relay keeps bytes
  RequestItems, RequestBytes,   \* what one request may carry
  DeviceBytes, TotalBytes       \* what the relay holds for a device, and in all

ASSUME HashAssumption == Hash \subseteq Nat /\ IsFiniteSet(Hash) /\ Size \in [Hash -> Nat]
ASSUME TtlAssumption == Ttl \in Nat \ {0}
ASSUME LimitAssumption ==
  /\ RequestItems \in Nat \ {0}
  /\ RequestBytes \in Nat /\ DeviceBytes \in Nat /\ TotalBytes \in Nat
  /\ RequestBytes <= DeviceBytes /\ DeviceBytes <= TotalBytes

BytesOf(S) == MapThenSumSet(LAMBDA h : Size[h], S)

OwnedBy(relay, d) == {h \in DOMAIN relay : relay[h].device = d}
Without(relay, S) == Restrict(relay, DOMAIN relay \ S)

(* What a request at this time may see, and what cleanup_expired_relay_blobs *)
(* leaves in memory.                                                       *)
Unexpired(relay, now) == Restrict(relay, {h \in DOMAIN relay : relay[h].expires > now})

(* The load_ functions: which of the hashes a request is answered with.    *)
Loaded(relay, hashes, now) == hashes \cap DOMAIN Unexpired(relay, now)

(* oldest_relay_key: by time of creation, then of expiry, then by hash.    *)
Older(relay, g, h) ==
  \/ relay[g].created < relay[h].created
  \/ relay[g].created = relay[h].created /\ relay[g].expires < relay[h].expires
  \/ /\ relay[g].created = relay[h].created /\ relay[g].expires = relay[h].expires
     /\ g < h

Newest(relay, S, n) == {h \in S : Cardinality({g \in S : Older(relay, h, g)}) < n}
Oldest(relay, S, n) == {h \in S : Cardinality({g \in S : Older(relay, g, h)}) < n}

(* The loops of store_relay_blobs: of the bytes in S, the oldest go until   *)
(* what remains fits the room, or nothing remains.                         *)
Evicted(relay, S, room) ==
  LET fits  == {n \in 0..Cardinality(S) : BytesOf(S \ Oldest(relay, S, n)) <= room}
      count == Min(fits \cup {Cardinality(S)})
  IN Oldest(relay, S, count)

(* store_relay_blobs: bytes relayed again belong to the last sender, then  *)
(* the sender's window makes room, then the whole relay does.              *)
MakeRoomForSender(relay, d, hashes) ==
  LET others == Without(relay, hashes)
  IN Without(others, Evicted(others, OwnedBy(others, d), DeviceBytes - BytesOf(hashes)))
MakeRoom(relay, d, hashes) ==
  LET own == MakeRoomForSender(relay, d, hashes)
  IN Without(own, Evicted(own, DOMAIN own, TotalBytes - BytesOf(hashes)))

Fits(relay, d, hashes) ==
  /\ BytesOf(OwnedBy(relay, d)) + BytesOf(hashes) <= DeviceBytes
  /\ BytesOf(DOMAIN relay) + BytesOf(hashes) <= TotalBytes

(* "capacity is temporarily full": refused, though room has been made.     *)
Refused(relay, d, hashes) ==
  BytesOf(hashes) > DeviceBytes \/ ~Fits(MakeRoom(relay, d, hashes), d, hashes)

Entry(d, now) == [device |-> d, created |-> now, expires |-> now + Ttl]

With(relay, hashes, entry) ==
  [h \in hashes \cup DOMAIN relay |-> IF h \in hashes THEN entry ELSE relay[h]]

StoredWithoutRoom(relay, d, hashes, now) == With(relay, hashes, Entry(d, now))
Stored(relay, d, hashes, now) ==
  IF BytesOf(hashes) > DeviceBytes THEN relay
  ELSE LET room == MakeRoom(relay, d, hashes)
       IN IF ~Fits(room, d, hashes) THEN room
          ELSE With(room, hashes, Entry(d, now))

(* validate_blob_payloads: the limits of one request.                      *)
ValidRequest(hashes) ==
  /\ Cardinality(hashes) <= RequestItems
  /\ BytesOf(hashes) <= RequestBytes
=============================================================================
