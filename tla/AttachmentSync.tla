--------------------------- MODULE AttachmentSync ---------------------------
(***************************************************************************)
(* Attachments between devices: rows travel through the server's log, the  *)
(* bytes through its relay.  A desktop's sync session sends the bytes of   *)
(* its pending attachments in chunks, has the relay confirm each chunk,    *)
(* pushes the operations without bytes, pulls, and then asks for the bytes *)
(* its rows lack.  Users save and delete meanwhile, requests fail or lose  *)
(* their answer, time passes and the server restarts with an empty relay.  *)
(* The log and the rows are those of LocalStore and SyncServer, reduced to *)
(* the set of operations each side has taken: an attachment is created     *)
(* once and then at most deleted.                                          *)
(***************************************************************************)
EXTENDS BlobRelay, SequencesExt

CONSTANTS
  Device,        \* desktops
  Hidden,        \* desktops that find no relay (404): they push bytes inline
  Attachment,    \* attachments, in the order they are saved
  Name,          \* file names: "long" has more bytes than the server takes
  Deletable,     \* bound: those that users delete
  Content,       \* bound: the contents that users save as each attachment
  JsonBudget,    \* ATTACHMENT_BLOB_RELAY_JSON_BUDGET_BYTES
  Envelope,      \* the bytes a payload's JSON adds to its base64 text
  FetchItems,    \* ATTACHMENT_BLOB_FETCH_LIMIT
  Retries,       \* SYNC_HTTP_RETRIES
  MaxTime,       \* bound on the clock
  MaxFailures    \* bound on failed requests, lost answers and restarts

ASSUME DesktopAssumption == Hidden \subseteq Device /\ Name \subseteq {"short", "long"}
ASSUME DeletableAssumption == Deletable \subseteq Attachment
ASSUME ContentAssumption == Content \in [Attachment -> SUBSET Hash]
ASSUME AttachmentAssumption == Attachment \subseteq Nat
ASSUME ChunkAssumption ==
  FetchItems \in Nat \ {0} /\ JsonBudget \in Nat /\ Envelope \in Nat /\ Retries \in Nat
ASSUME BoundsAssumption == MaxTime \in Nat /\ MaxFailures \in Nat

(* The desktop fills a chunk up to the limits of a request, and no         *)
(* attachment is longer than a request.                                    *)
ASSUME BudgetAssumption == JsonBudget <= RequestBytes /\ \A h \in Hash : Size[h] <= RequestBytes

VARIABLES
  clock,      \* the server's time
  relay,      \* AppState.blob_relay
  log,        \* the operations in the server's log
  known,      \* the operations each desktop's rows show
  bytes,      \* attachment_blobs of each desktop
  queue,      \* its pending operations
  session,    \* its run of sync_now, if any
  failures    \* how many failures there were

vars == <<clock, relay, log, known, bytes, queue, session, failures>>

Op == [kind: {"upsert", "delete"}, att: Attachment, hash: Hash,
       name: Name]

Upserts(S) == {op \in S : op.kind = "upsert"}
HashesOf(S) == {op.hash : op \in Upserts(S)}
DeletedIn(S) == {op.att : op \in S \ Upserts(S)}
LiveIn(S) == {op \in Upserts(S) : op.att \notin DeletedIn(S)}

Live(d) == LiveIn(known[d])
Missing(d) == HashesOf(Live(d)) \ bytes[d]

NoSession == [at |-> "off", batch |-> {}, chunks |-> <<>>, got |-> {}, attempt |-> 0]

Init ==
  /\ clock = 0 /\ relay = <<>> /\ log = {}
  /\ known = [d \in Device |-> {}]
  /\ bytes = [d \in Device |-> {}]
  /\ queue = [d \in Device |-> {}]
  /\ session = [d \in Device |-> NoSession]
  /\ failures = 0

-----------------------------------------------------------------------------
(* Requests *)

(* attachment_blob_relay_chunks: payloads in the order of their hashes; a  *)
(* chunk is closed when it is full or the next payload would pass the      *)
(* budget, counted in base64.                                              *)
Encoded(h) == 4 * ((Size[h] + 2) \div 3) + Envelope
EncodedSum(chunk) == MapThenSumSet(Encoded, chunk)

AddUnbounded(chunks, h) ==
  IF chunks # <<>> /\ Cardinality(Last(chunks)) < RequestItems
    THEN Append(Front(chunks), Last(chunks) \cup {h})
    ELSE Append(chunks, {h})
AddPayload(chunks, h) ==
  IF /\ chunks # <<>>
     /\ Cardinality(Last(chunks)) < RequestItems
     /\ EncodedSum(Last(chunks)) + Encoded(h) <= JsonBudget
    THEN Append(Front(chunks), Last(chunks) \cup {h})
    ELSE Append(chunks, {h})

RelayChunks(hashes) ==
  MapThenFoldSet(LAMBDA h, chunks : AddPayload(chunks, h), <<>>, LAMBDA h : h, Max, hashes)

(* missing_attachment_blob_hashes, in their order, cut by                  *)
(* hydrate_missing_attachment_blobs.                                       *)
After(hashes, h)  == Cardinality({g \in hashes : g > h})
Before(hashes, h) == Cardinality({g \in hashes : g < h})

FetchChunks(hashes) ==
  [i \in 1..((Cardinality(hashes) + FetchItems - 1) \div FetchItems) |->
     {h \in hashes : Before(hashes, h) \div FetchItems = i - 1}]

(* validate_push_request, for what differs between saved attachments: the  *)
(* desktop cuts a name at 180 characters, the server counts bytes.         *)
ValidPush(batch) == \A op \in Upserts(batch) : op.name = "short"

Goes(d, at) == session' = [session EXCEPT ![d].at = at, ![d].attempt = 0]
Ends(d) == session' = [session EXCEPT ![d] = NoSession]

(* post_sync_json sends again after a failure, Retries times.              *)
SendsAgain(d, at) ==
  IF session[d].attempt < Retries
    THEN session' = [session EXCEPT ![d].at = at, ![d].attempt = @ + 1]
    ELSE Ends(d)

-----------------------------------------------------------------------------
(* The user *)

(* save_attachment: a new attachment, of any content.                      *)
Taken == UNION {{op.att : op \in known[d]} : d \in Device}

SaveAttachment(d) ==
  \E a \in Attachment \ Taken, n \in Name : \E h \in Content[a] :
    LET op == [kind |-> "upsert", att |-> a, hash |-> h, name |-> n]
    IN /\ \A b \in Attachment \ Taken : a <= b
       /\ known' = [known EXCEPT ![d] = @ \cup {op}]
       /\ bytes' = [bytes EXCEPT ![d] = @ \cup {h}]
       /\ queue' = [queue EXCEPT ![d] = @ \cup {op}]
       /\ UNCHANGED <<clock, relay, log, session, failures>>

(* cleanup_attachment_blobs: bytes stay while a live row or a pending      *)
(* operation names them.                                                   *)
SweepDeleted(held, rows, pending) ==
  held \ {op.hash : op \in rows \ Upserts(rows)}
Sweep(held, rows, pending) == held \cap (HashesOf(LiveIn(rows)) \cup HashesOf(pending))

(* delete_attachment: the operation takes the place of a pending one.      *)
DeleteAttachment(d) ==
  \E u \in {v \in Live(d) : v.att \in Deletable} :
    LET op    == [u EXCEPT !.kind = "delete"]
        rows  == known[d] \cup {op}
        later == {p \in queue[d] : p.att # u.att} \cup {op}
    IN /\ known' = [known EXCEPT ![d] = rows]
       /\ queue' = [queue EXCEPT ![d] = later]
       /\ bytes' = [bytes EXCEPT ![d] = Sweep(@, rows, later)]
       /\ UNCHANGED <<clock, relay, log, session, failures>>

-----------------------------------------------------------------------------
(* A sync session: push *)

(* The head of the push loop.                                              *)
NextBatch(d) ==
  /\ session[d].at \in {"off", "next"}
  /\ LET chunks == RelayChunks(HashesOf(queue[d]))
         at == IF queue[d] = {} THEN "pull" ELSE IF chunks = <<>> THEN "push" ELSE "relay"
     IN session' = [session EXCEPT ![d] = [NoSession EXCEPT
           !.at = at, !.batch = queue[d], !.chunks = chunks]]
  /\ UNCHANGED <<clock, relay, log, known, bytes, queue, failures>>

(* The handler of a relay request cleans up, then stores: two locks.       *)
RelayClean(d) ==
  /\ session[d].at = "relay" /\ d \notin Hidden
  /\ IF ValidRequest(Head(session[d].chunks))
       THEN /\ relay' = Unexpired(relay, clock)
            /\ session' = [session EXCEPT ![d].at = "store"]
       ELSE /\ Ends(d) /\ UNCHANGED relay
  /\ UNCHANGED <<clock, log, known, bytes, queue, failures>>

RelayStore(d) ==
  /\ session[d].at = "store"
  /\ LET chunk == Head(session[d].chunks)
     IN /\ relay' = Stored(relay, d, chunk, clock)
        /\ IF Refused(relay, d, chunk) THEN Ends(d) /\ UNCHANGED failures
           ELSE \/ Goes(d, "confirm") /\ UNCHANGED failures
                \/ /\ failures < MaxFailures /\ failures' = failures + 1
                   /\ SendsAgain(d, "relay")
  /\ UNCHANGED <<clock, log, known, bytes, queue>>

(* The manifest request; the load skips what has expired, so cleaning up   *)
(* and loading are one step.                                               *)
Confirm(d) ==
  /\ session[d].at = "confirm"
  /\ relay' = Unexpired(relay, clock)
  /\ LET chunks == session[d].chunks
     IN IF Head(chunks) = Loaded(relay, Head(chunks), clock)
          THEN session' = [session EXCEPT
                 ![d].at = IF Len(chunks) = 1 THEN "push" ELSE "relay",
                 ![d].chunks = Tail(chunks), ![d].attempt = 0]
          ELSE Ends(d)
  /\ UNCHANGED <<clock, log, known, bytes, queue, failures>>

(* push and mark_operations_pushed; an answer that is lost leaves the      *)
(* operations queued.                                                      *)
Push(d) ==
  /\ session[d].at = "push"
  /\ IF ~ValidPush(session[d].batch)
       THEN /\ Ends(d) /\ UNCHANGED <<log, queue, failures>>
       ELSE /\ log' = log \cup session[d].batch
            /\ \/ /\ queue' = [queue EXCEPT ![d] = @ \ session[d].batch]
                  /\ session' = [session EXCEPT ![d] = [NoSession EXCEPT !.at = "next"]]
                  /\ UNCHANGED failures
               \/ /\ failures < MaxFailures /\ failures' = failures + 1
                  /\ Ends(d) /\ UNCHANGED queue
  /\ UNCHANGED <<clock, relay, known, bytes>>

(* Without a relay route the bytes travel in the operations: push relays   *)
(* them one operation at a time before it commits.                         *)
NoRelayRoute(d) ==
  /\ session[d].at = "relay" /\ d \in Hidden
  /\ session' = [session EXCEPT ![d].at = "inline",
                                ![d].chunks = <<HashesOf(session[d].batch)>>]
  /\ UNCHANGED <<clock, relay, log, known, bytes, queue, failures>>

InlineRelay(d) ==
  /\ session[d].at = "inline"
  /\ LET todo == Head(session[d].chunks)
     IN IF ~ValidPush(session[d].batch) THEN Ends(d) /\ UNCHANGED relay
        ELSE IF todo = {} THEN Goes(d, "push") /\ UNCHANGED relay
        ELSE \E h \in todo :
               /\ relay' = IF ValidRequest({h}) THEN Stored(relay, d, {h}, clock) ELSE relay
               /\ IF ValidRequest({h}) /\ ~Refused(relay, d, {h})
                    THEN session' = [session EXCEPT ![d].chunks = <<todo \ {h}>>]
                    ELSE Ends(d)
  /\ UNCHANGED <<clock, log, known, bytes, queue, failures>>

-----------------------------------------------------------------------------
(* A sync session: pull, then the bytes *)

(* The last page of the pull, and the list of hashes that                  *)
(* hydrate_missing_attachment_blobs then works through; a 404 ends that    *)
(* without an error.                                                       *)
Pull(d) ==
  /\ session[d].at = "pull"
  /\ known' = [known EXCEPT ![d] = @ \cup log]
  /\ LET missing == HashesOf(LiveIn(known'[d])) \ bytes[d]
     IN session' = [session EXCEPT ![d].at = "fetch",
          ![d].chunks = IF d \in Hidden THEN <<>> ELSE FetchChunks(missing)]
  /\ UNCHANGED <<clock, relay, log, bytes, queue, failures>>

Fetch(d) ==
  /\ session[d].at = "fetch" /\ session[d].chunks # <<>>
  /\ relay' = Unexpired(relay, clock)
  /\ session' = [session EXCEPT ![d].at = "got", ![d].attempt = 0,
                   ![d].got = Loaded(relay, Head(session[d].chunks), clock)]
  /\ UNCHANGED <<clock, log, known, bytes, queue, failures>>

(* Fetching stops at a chunk of which the server has nothing.              *)
StopsFetching(s) == s.got = {}

StoreFetched(d) ==
  /\ session[d].at = "got"
  /\ bytes' = [bytes EXCEPT ![d] = @ \cup session[d].got]
  /\ session' = [session EXCEPT ![d].at = "fetch", ![d].got = {},
       ![d].chunks = IF StopsFetching(session[d]) THEN <<>> ELSE Tail(@)]
  /\ UNCHANGED <<clock, relay, log, known, queue, failures>>

Maintain(d) ==
  /\ session[d].at = "fetch" /\ session[d].chunks = <<>>
  /\ bytes' = [bytes EXCEPT ![d] = Sweep(@, known[d], queue[d])]
  /\ Ends(d)
  /\ UNCHANGED <<clock, relay, log, known, queue, failures>>

-----------------------------------------------------------------------------
(* Faults *)

RequestFails(d) ==
  /\ failures < MaxFailures /\ failures' = failures + 1
  /\ \/ session[d].at \in {"relay", "store"} /\ SendsAgain(d, "relay")
     \/ session[d].at = "confirm" /\ SendsAgain(d, "confirm")
     \/ session[d].at = "fetch" /\ session[d].chunks # <<>> /\ SendsAgain(d, "fetch")
     \/ session[d].at \in {"push", "inline", "pull"} /\ Ends(d)
  /\ UNCHANGED <<clock, relay, log, known, bytes, queue>>

(* The relay lives in memory.                                              *)
Restart ==
  /\ failures < MaxFailures /\ failures' = failures + 1
  /\ relay # <<>> /\ relay' = <<>>
  /\ UNCHANGED <<clock, log, known, bytes, queue, session>>

Tick ==
  /\ clock < MaxTime /\ clock' = clock + 1
  /\ UNCHANGED <<relay, log, known, bytes, queue, session, failures>>

-----------------------------------------------------------------------------
SyncStep(d) ==
  \/ NextBatch(d) \/ RelayClean(d) \/ RelayStore(d) \/ Confirm(d) \/ Push(d)
  \/ NoRelayRoute(d) \/ InlineRelay(d)
  \/ Pull(d) \/ Fetch(d) \/ StoreFetched(d) \/ Maintain(d)

Next ==
  \/ \E d \in Device : SaveAttachment(d) \/ DeleteAttachment(d) \/ SyncStep(d) \/ RequestFails(d)
  \/ Restart \/ Tick

Spec == Init /\ [][Next]_vars

(* The background loop starts a session again and again, and a session     *)
(* goes on; nothing obliges users, faults or the clock.                    *)
FairSpec == Spec /\ \A d \in Device : WF_vars(SyncStep(d))
-----------------------------------------------------------------------------
(* Properties *)

Labels == {"off", "next", "relay", "store", "confirm", "push", "inline", "pull",
           "fetch", "got"}

Sessions == [at: Labels, batch: SUBSET Op, chunks: Seq(SUBSET Hash), got: SUBSET Hash,
             attempt: 0..Retries]

Entries == [device: Device, created: Nat, expires: Nat]

(* Every variable holds a value of its kind.                               *)
TypeOK ==
  /\ clock \in 0..MaxTime /\ failures \in 0..MaxFailures
  /\ DOMAIN relay \subseteq Hash /\ \A h \in DOMAIN relay : relay[h] \in Entries
  /\ log \in SUBSET Op
  /\ known \in [Device -> SUBSET Op] /\ queue \in [Device -> SUBSET Op]
  /\ bytes \in [Device -> SUBSET Hash]
  /\ session \in [Device -> Sessions]

(* However devices share, replace and evict each other's bytes, no device   *)
(* holds more than its window and the relay never more than its total.      *)
RelayWithinLimits ==
  /\ BytesOf(DOMAIN relay) <= TotalBytes
  /\ \A d \in Device : BytesOf(OwnedBy(relay, d)) <= DeviceBytes

(* What the desktop packs is what the server takes: no chunk and no inline  *)
(* operation is refused by a request limit or for want of capacity.         *)
RelayTakesEveryChunk ==
  \A d \in Device :
    /\ session[d].at \in {"relay", "store"} =>
         LET chunk == Head(session[d].chunks)
         IN ValidRequest(chunk) /\ ~Refused(relay, d, chunk)
    /\ session[d].at = "inline" =>
         \A h \in Head(session[d].chunks) : ValidRequest({h}) /\ ~Refused(relay, d, {h})

(* The relay drops bytes before they expire only to make room, and then the *)
(* oldest first: those it keeps of the same device, or all it keeps, are    *)
(* newer, and with the last one dropped still there the limit would be      *)
(* passed.  (A restart drops everything.)                                   *)
Dropped == {h \in DOMAIN relay \ DOMAIN relay' : relay[h].expires > clock}
Resent(d) == IF session[d].chunks = <<>> THEN {} ELSE Head(session[d].chunks)
Kept(d) == {h \in DOMAIN relay \cap DOMAIN relay' : relay'[h] = relay[h]} \ Resent(d)
Newer(S, h) == \A k \in S : Older(relay, h, k)

DroppedForRoom ==
  \E d \in Device, h \in Dropped :
    LET first(g) == relay[g].device = d /\ Newer(Kept(d) \cap OwnedBy(relay, d), g)
    IN \/ /\ \A g \in Dropped : first(g)
          /\ BytesOf(OwnedBy(relay', d)) + Size[h] > DeviceBytes
       \/ /\ \A g \in Dropped : first(g) \/ Newer(Kept(d), g)
          /\ BytesOf(DOMAIN relay') + Size[h] > TotalBytes

KeptUntilExpiry == [][Dropped # {} => relay' = <<>> \/ DroppedForRoom]_vars

(* A device that has the bytes of an attachment it shows keeps them as long *)
(* as it shows it, though another attachment of the same content is         *)
(* deleted and swept and a session is at work.                              *)
HeldWhileShown ==
  [][\A d \in Device : \A op \in Live(d) :
       op.hash \in bytes[d] \ bytes'[d] => op \notin Live(d)']_vars

(* However the relay's windows and expiry interfere with its chunks, a       *)
(* device's queue is pushed empty, unless an attachment whose name the      *)
(* server refuses is pending with the rest: then nothing of it ever is.     *)
Blocked(d) == ~ValidPush(queue[d])

QueueDrains ==
  \A d \in Device : queue[d] # {} ~> queue[d] = {} \/ Blocked(d)

(* Bytes that are at the relay reach every device that shows the attachment *)
(* unless the relay drops them first, the device finds no relay, its own    *)
(* queue is blocked, or so many of the missing hashes before this one are   *)
(* gone for good that fetching stops at a chunk of them.                    *)
Starved(d, h) ==
  Cardinality({g \in Missing(d) : g < h /\ g \notin DOMAIN relay}) >= FetchItems

Awaited(d, h) == h \in Missing(d) /\ h \in DOMAIN Unexpired(relay, clock)

BytesArrive ==
  \A d \in Device \ Hidden, h \in Hash :
    Awaited(d, h) ~> ~Awaited(d, h) \/ Blocked(d) \/ Starved(d, h)
=============================================================================
