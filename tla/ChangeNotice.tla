---------------------------- MODULE ChangeNotice ----------------------------
(***************************************************************************)
(* How a desktop learns of a change: the server's broadcast and its wait   *)
(* request (routes.rs), and the two loops of the desktop that wait or tick *)
(* and then synchronise under one lock (lib.rs).  A push commits, reads    *)
(* the latest sequence, remembers it in the cache and announces it, each a *)
(* step of its own; a wait looks at the cache first and subscribes after.  *)
(* The log is reduced to who wrote each operation, a sync session to what  *)
(* moves its cursor.                                                       *)
(***************************************************************************)
EXTENDS Integers, Sequences, SequencesExt, FiniteSets, TLC

CONSTANTS
  Handler,       \* requests of other devices that the server can be serving
  Relaying,      \* those of them that may be relay requests
  Own,           \* the push request of this desktop's own session
  Capacity,      \* events the broadcast channel keeps for a receiver
  MaxOps,        \* bound on the operations in the log
  MaxFaults,     \* bound on failed requests and restarts
  MaxToggles,    \* bound on changes of the settings
  None

ASSUME HandlerAssumption == Own \notin Handler /\ Relaying \subseteq Handler
ASSUME ChannelAssumption == Capacity \in Nat \ {0}
ASSUME NoticeBounds == MaxOps \in Nat \ {0} /\ MaxFaults \in Nat /\ MaxToggles \in Nat
ASSUME NobodyAssumption == None \notin {"realtime", "other"}

VARIABLES
  log,        \* the operation log: "own" or "other" at each sequence
  latest,     \* AppState.latest_sequence: the cache, 0 when it is not filled
  handler,    \* push and relay requests
  channel,    \* the events the waiting request has not received
  realtime,   \* the loop of spawn_realtime_sync, with its wait request
  lock,       \* sync_lock: whether the realtime loop or another session holds it
  sync,       \* the session under the lock
  cursor,     \* last_server_sequence
  pending,    \* the operation this desktop has to push: "none", "new" or "sent" before
  auto,       \* auto_sync_enabled, and realtime_sync_enabled
  faults, toggles,
  missed      \* history: the wait subscribed after what it waits for was announced

server  == <<log, latest, handler, channel>>
desktop == <<lock, sync, cursor, pending>>
limits  == <<faults, toggles>>
vars == <<server, realtime, desktop, auto, limits, missed>>

Idle == [at |-> "idle", kind |-> "operations", seq |-> 0]
Loop == [at |-> "top", since |-> 0, seq |-> 0]
NoSync == [at |-> "off", rows |-> 0, seq |-> 0]

(* A desktop that has synchronised before: a first session takes a snapshot *)
(* instead.                                                                *)
Init ==
  /\ log = <<"other">> /\ latest = 0 /\ channel = <<>>
  /\ handler = [h \in Handler \cup {Own} |-> Idle]
  /\ realtime = Loop
  /\ lock = None /\ sync = NoSync
  /\ cursor = 1 /\ pending = "none"
  /\ auto = TRUE /\ faults = 0 /\ toggles = 0 /\ missed = FALSE

-----------------------------------------------------------------------------
(* The server: push and relay *)

Serve(h, at, seq) == handler' = [handler EXCEPT ![h].at = at, ![h].seq = seq]

(* tx.commit of another device's push.                                     *)
Commit(h) ==
  /\ handler[h].at = "idle" /\ Len(log) < MaxOps
  /\ log' = Append(log, "other")
  /\ handler' = [handler EXCEPT ![h] = [Idle EXCEPT !.at = "read"]]
  /\ UNCHANGED <<latest, channel, realtime, desktop, auto, limits, missed>>

ReadLatest(h) ==
  /\ handler[h].at = "read"
  /\ Serve(h, "remember", Len(log))
  /\ UNCHANGED <<log, latest, channel, realtime, desktop, auto, limits, missed>>

(* remember_latest: fetch_max.                                             *)
RememberSet(h) ==
  /\ handler[h].at = "remember"
  /\ latest' = handler[h].seq
  /\ Serve(h, "announce", handler[h].seq)
  /\ UNCHANGED <<log, channel, realtime, desktop, auto, limits, missed>>
Remember(h) ==
  /\ handler[h].at = "remember"
  /\ latest' = IF handler[h].seq > latest THEN handler[h].seq ELSE latest
  /\ Serve(h, "announce", handler[h].seq)
  /\ UNCHANGED <<log, channel, realtime, desktop, auto, limits, missed>>

(* relay_attachment_blobs, once the bytes are stored: latest_sequence reads *)
(* the cache, or, when it is empty, the database and stores what it read.   *)
RelayBytes(h) ==
  /\ h \in Relaying /\ handler[h].at = "idle"
  /\ handler' = [handler EXCEPT ![h] =
       [at |-> IF latest > 0 THEN "announce" ELSE "store", kind |-> "attachment_blobs",
        seq |-> IF latest > 0 THEN latest ELSE Len(log)]]
  /\ UNCHANGED <<log, latest, channel, realtime, desktop, auto, limits, missed>>

StoreForRelay(h) ==
  /\ handler[h].at = "store"
  /\ latest' = handler[h].seq
  /\ Serve(h, "announce", handler[h].seq)
  /\ UNCHANGED <<log, channel, realtime, desktop, auto, limits, missed>>

(* state.tx.send: a receiver that has not kept up loses its oldest events. *)
Subscribed == realtime.at = "listen"

Sent(events, e) ==
  LET all == Append(events, e)
  IN IF Len(all) > Capacity THEN Tail(all) ELSE all

Announce(h) ==
  /\ handler[h].at = "announce"
  /\ LET event == [kind |-> handler[h].kind, seq |-> handler[h].seq]
         sent  == event.kind # "nothing"
     IN channel' = IF Subscribed /\ sent THEN Sent(channel, event) ELSE channel
  /\ IF h = Own THEN Serve(h, "answered", handler[h].seq)
                ELSE handler' = [handler EXCEPT ![h] = Idle]
  /\ UNCHANGED <<log, latest, realtime, desktop, auto, limits, missed>>

-----------------------------------------------------------------------------
(* The realtime loop and its wait request *)

Waits(at) == realtime' = [realtime EXCEPT !.at = at]
Answers(seq) == realtime' = [realtime EXCEPT !.at = "answered", !.seq = seq]

(* The settings, then the cursor from stats.                               *)
AskForChange ==
  /\ realtime.at = "top" /\ auto
  /\ realtime' = [at |-> "check", since |-> cursor, seq |-> 0]
  /\ UNCHANGED <<server, desktop, auto, limits, missed>>

(* wait_for_change looks at the latest sequence before it subscribes and   *)
(* again when its time is up.                                              *)
Look ==
  /\ realtime.at \in {"check", "expired"}
  /\ IF latest = 0 THEN Waits(IF realtime.at = "check" THEN "fill" ELSE "refill")
     ELSE IF latest > realtime.since \/ realtime.at = "expired" THEN Answers(latest)
     ELSE Waits("subscribe")
  /\ UNCHANGED <<server, desktop, auto, limits, missed>>

(* latest_sequence with an empty cache: the database, then store_latest.   *)
ReadDatabase ==
  /\ realtime.at \in {"fill", "refill"}
  /\ realtime' = [realtime EXCEPT !.at = IF @ = "fill" THEN "store" ELSE "restore",
                                  !.seq = Len(log)]
  /\ UNCHANGED <<server, desktop, auto, limits, missed>>

StoreLatest ==
  /\ realtime.at \in {"store", "restore"}
  /\ latest' = realtime.seq
  /\ IF realtime.at = "restore" \/ realtime.seq > realtime.since
       THEN Answers(realtime.seq) ELSE Waits("subscribe")
  /\ UNCHANGED <<log, handler, channel, desktop, auto, limits, missed>>

(* A push or relay that has still to announce what the wait is for.        *)
WillTell(h) ==
  /\ handler[h].kind # "nothing"
  /\ \/ handler[h].at = "read"
     \/ handler[h].at \in {"remember", "announce"} /\ handler[h].seq > realtime.since
Quiet == \A h \in Handler \cup {Own} : ~WillTell(h)

Subscribe ==
  /\ realtime.at = "subscribe"
  /\ Waits("listen") /\ channel' = <<>>
  /\ missed' = (Len(log) > realtime.since /\ Quiet)
  /\ UNCHANGED <<log, latest, handler, desktop, auto, limits>>

WakesLater(e) == e.seq > realtime.since + 1
Wakes(e) == e.seq > realtime.since \/ e.kind = "attachment_blobs"

Receive ==
  /\ realtime.at = "listen" /\ channel # <<>>
  /\ channel' = Tail(channel)
  /\ IF Wakes(Head(channel)) THEN Answers(Head(channel).seq) ELSE UNCHANGED realtime
  /\ UNCHANGED <<log, latest, handler, desktop, auto, limits, missed>>

Expire ==
  /\ realtime.at = "listen"
  /\ Waits("expired") /\ channel' = <<>>
  /\ UNCHANGED <<log, latest, handler, desktop, auto, limits, missed>>

(* The loop goes on to a session only for a later sequence, and only if no *)
(* other session is running.                                               *)
Locks(who) == lock' = who /\ sync' = [NoSync EXCEPT !.at = "push"]

HearAnswer ==
  /\ realtime.at = "answered"
  /\ IF realtime.seq > realtime.since /\ lock = None
       THEN Locks("realtime") /\ Waits("syncing")
       ELSE realtime' = Loop /\ UNCHANGED <<lock, sync>>
  /\ UNCHANGED <<server, cursor, pending, auto, limits, missed>>

(* The pause after an error.                                               *)
Resume ==
  /\ realtime.at = "pause" /\ realtime' = Loop
  /\ UNCHANGED <<server, desktop, auto, limits, missed>>

-----------------------------------------------------------------------------
(* Sessions *)

(* spawn_background_sync at its interval, and the command sync_now.        *)
BackgroundSync ==
  /\ auto /\ lock = None /\ Locks("other")
  /\ UNCHANGED <<server, realtime, cursor, pending, auto, limits, missed>>

UserSync ==
  /\ lock = None /\ Locks("other")
  /\ UNCHANGED <<server, realtime, cursor, pending, auto, limits, missed>>

UnlockedBySession == lock' = None /\ sync' = NoSync /\ UNCHANGED realtime
Unlocked ==
  /\ lock' = None /\ sync' = NoSync
  /\ realtime' = IF lock = "realtime" THEN Loop ELSE realtime

(* The push of the session: a handler commits it and answers.  What was    *)
(* sent before is found committed: nothing is accepted or announced.       *)
PushOwn ==
  /\ sync.at = "push"
  /\ IF pending = "none"
       THEN sync' = [sync EXCEPT !.at = "pull"] /\ UNCHANGED <<log, handler, pending>>
       ELSE /\ log' = IF pending = "new" THEN Append(log, "own") ELSE log
            /\ handler' = [handler EXCEPT ![Own] = [Idle EXCEPT !.at = "read",
                 !.kind = IF pending = "new" THEN "operations" ELSE "nothing"]]
            /\ sync' = [sync EXCEPT !.at = "pushing"]
            /\ pending' = "sent"
  /\ UNCHANGED <<latest, channel, realtime, lock, cursor, auto, limits, missed>>

MarkPushed ==
  /\ sync.at = "pushing" /\ handler[Own].at = "answered"
  /\ pending' = "none"
  /\ sync' = [sync EXCEPT !.at = "pull", !.seq = handler[Own].seq]
  /\ handler' = [handler EXCEPT ![Own] = Idle]
  /\ UNCHANGED <<log, latest, channel, realtime, lock, cursor, auto, limits, missed>>

(* pull: the rows of other devices after the cursor, then the cache.       *)
Others == {i \in cursor + 1 .. Len(log) : log[i] = "other"}
Top(S) == CHOOSE i \in S : \A j \in S : j <= i

PullRows ==
  /\ sync.at = "pull"
  /\ sync' = [sync EXCEPT !.at = "sequence", !.rows = IF Others = {} THEN 0 ELSE Top(Others)]
  /\ UNCHANGED <<server, realtime, lock, cursor, pending, auto, limits, missed>>

Larger(a, b) == IF a > b THEN a ELSE b

PullSequence ==
  /\ sync.at = "sequence" /\ latest > 0
  /\ sync' = [sync EXCEPT !.at = "apply", !.seq = Larger(@, latest)]
  /\ UNCHANGED <<server, realtime, lock, cursor, pending, auto, limits, missed>>

PullReadsDatabase ==
  /\ sync.at = "sequence" /\ latest = 0
  /\ sync' = [sync EXCEPT !.at = "store", !.seq = Larger(@, Len(log))]
  /\ UNCHANGED <<server, realtime, lock, cursor, pending, auto, limits, missed>>

PullStoresLatest ==
  /\ sync.at = "store"
  /\ latest' = sync.seq
  /\ sync' = [sync EXCEPT !.at = "apply"]
  /\ UNCHANGED <<log, handler, channel, realtime, lock, cursor, pending, auto, limits, missed>>

(* The operations move the cursor to the last of them; an answer without   *)
(* any moves it to the server's sequence.                                  *)
MovedToRows == sync.rows
Moved == IF sync.rows > 0 THEN sync.rows ELSE Larger(cursor, sync.seq)

Apply ==
  /\ sync.at = "apply"
  /\ cursor' = Moved
  /\ Unlocked
  /\ UNCHANGED <<server, pending, auto, limits, missed>>

-----------------------------------------------------------------------------
(* The user, and faults *)

Edit ==
  /\ pending = "none" /\ Len(log) < MaxOps
  /\ pending' = "new"
  /\ UNCHANGED <<server, realtime, lock, sync, cursor, auto, limits, missed>>

Toggle ==
  /\ toggles < MaxToggles /\ toggles' = toggles + 1
  /\ auto' = ~auto
  /\ UNCHANGED <<server, realtime, desktop, faults, missed>>

Fault == faults < MaxFaults /\ faults' = faults + 1 /\ UNCHANGED <<toggles, missed>>

SyncFailsHolding ==
  /\ Fault /\ sync.at \notin {"off", "pushing"}
  /\ sync' = NoSync
  /\ UNCHANGED <<server, realtime, lock, cursor, pending, auto>>

(* A session's error is reported and nothing more; the loops go on.        *)
SyncFails ==
  /\ Fault /\ sync.at \notin {"off", "pushing"}
  /\ Unlocked
  /\ UNCHANGED <<server, cursor, pending, auto>>

AtServer == {"check", "fill", "refill", "store", "restore", "subscribe", "listen", "expired",
             "answered"}

WaitFails ==
  /\ Fault /\ realtime.at \in AtServer
  /\ realtime' = [Loop EXCEPT !.at = "pause"] /\ channel' = <<>>
  /\ UNCHANGED <<log, latest, handler, desktop, auto>>

(* The server restarts: its requests fail and the cache is empty.          *)
Restart ==
  /\ Fault
  /\ latest' = 0 /\ channel' = <<>>
  /\ handler' = [h \in Handler \cup {Own} |-> Idle]
  /\ LET waits == realtime.at \in AtServer
         ends  == sync.at \notin {"off", "apply"}
     IN /\ realtime' = IF waits THEN [Loop EXCEPT !.at = "pause"]
                      ELSE IF ends /\ lock = "realtime" THEN Loop ELSE realtime
        /\ lock' = IF ends THEN None ELSE lock
        /\ sync' = IF ends THEN NoSync ELSE sync
  /\ UNCHANGED <<log, cursor, pending, auto>>

-----------------------------------------------------------------------------
HandlerStep(h) == ReadLatest(h) \/ Remember(h) \/ StoreForRelay(h) \/ Announce(h)

RealtimeStep ==
  \/ AskForChange \/ Look \/ ReadDatabase \/ StoreLatest \/ Subscribe \/ Receive \/ Expire
  \/ HearAnswer \/ Resume

SyncStep ==
  \/ PushOwn \/ MarkPushed
  \/ PullRows \/ PullSequence \/ PullReadsDatabase \/ PullStoresLatest \/ Apply

Next ==
  \/ \E h \in Handler : Commit(h) \/ RelayBytes(h)
  \/ \E h \in Handler \cup {Own} : HandlerStep(h)
  \/ RealtimeStep \/ BackgroundSync \/ UserSync \/ SyncStep
  \/ Edit \/ Toggle \/ SyncFails \/ WaitFails \/ Restart

Spec == Init /\ [][Next]_vars

(* Handlers run, the loops go on, waits end by event or by time and a      *)
(* session proceeds.                                                       *)
FairSpec ==
  /\ Spec
  /\ \A h \in Handler \cup {Own} : WF_vars(HandlerStep(h))
  /\ WF_vars(RealtimeStep) /\ WF_vars(BackgroundSync) /\ WF_vars(SyncStep)
-----------------------------------------------------------------------------
(* Properties *)

Events == [kind: {"operations", "attachment_blobs"}, seq: Nat]

(* Every variable holds a value of its kind.                               *)
TypeOK ==
  /\ log \in Seq({"own", "other"}) /\ Len(log) \in 1..MaxOps + 1
  /\ latest \in 0..Len(log) /\ cursor \in 1..Len(log)
  /\ handler \in [Handler \cup {Own} ->
       [at: {"idle", "read", "remember", "store", "announce", "answered"},
        kind: {"operations", "attachment_blobs", "nothing"}, seq: 0..Len(log)]]
  /\ channel \in Seq(Events) /\ Len(channel) <= Capacity
  /\ realtime \in [at: AtServer \cup {"top", "syncing", "pause"},
                   since: 0..Len(log), seq: 0..Len(log)]
  /\ lock \in {None, "realtime", "other"}
  /\ sync \in [at: {"off", "push", "pushing", "pull", "sequence", "store", "apply"},
               rows: 0..Len(log), seq: 0..Len(log)]
  /\ pending \in {"none", "new", "sent"}
  /\ auto \in BOOLEAN /\ missed \in BOOLEAN
  /\ faults \in 0..MaxFaults /\ toggles \in 0..MaxToggles

(* A wait that sleeps although there is something to tell will be told by a *)
(* push or relay still at work: events that others announce after it has    *)
(* subscribed, in any order, do not make it miss one.  (A push that was     *)
(* announced after the wait's look, or that a stale cache hid from it,       *)
(* before it subscribed is missed: then it sleeps its time.)                *)
SleeperWillHear ==
  /\ realtime.at = "listen" /\ Len(log) > realtime.since
  /\ \A i \in DOMAIN channel : ~Wakes(channel[i])
  => missed \/ ~Quiet

(* The lock is held for exactly as long as a session runs, and the realtime *)
(* loop waits for its own: a failure or a restart never leaves it behind.   *)
LockIsSession ==
  /\ (lock = None) <=> (sync.at = "off")
  /\ (lock = "realtime") <=> (realtime.at = "syncing")

(* No hot loop: once the other devices are quiet and nothing fails, the     *)
(* realtime loop comes to rest; it does not start session after session     *)
(* because what it is told and what a pull tells the cursor disagree.        *)
LoopRests == <>[](lock # "realtime")

(* While the user leaves automatic synchronisation on, what other devices   *)
(* wrote is passed by the cursor, whatever is missed, stale, lost or busy:   *)
(* the background loop makes good what the realtime loop sleeps through.     *)
CatchesUp == Others # {} ~> Others = {} \/ ~auto
=============================================================================
