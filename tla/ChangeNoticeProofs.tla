------------------------- MODULE ChangeNoticeProofs -------------------------
(***************************************************************************)
(* The lock and the counters of the change notification, for any number of *)
(* handlers, operations, faults and changes of the settings and a channel  *)
(* of any capacity; and, for a channel that keeps an event of each request *)
(* that can be served at a time, that no event a wait listens for is lost. *)
(***************************************************************************)
EXTENDS ChangeNotice, TLAPS, NaturalsInduction, WellFoundedInduction, FiniteSetTheorems

(* The parts of the type invariant that depend on the length of the log.    *)
Sequence == 0..Len(log)

HandlerState ==
  [at: {"idle", "read", "remember", "store", "announce", "answered"},
   kind: {"operations", "attachment_blobs", "nothing"}, seq: Sequence]

RealtimeState ==
  [at: AtServer \cup {"top", "syncing", "pause"}, since: Sequence, seq: Sequence]

SyncState ==
  [at: {"off", "push", "pushing", "pull", "sequence", "store", "apply"},
   rows: Sequence, seq: Sequence]

ChannelTyped == channel \in Seq(Events) /\ Len(channel) <= Capacity

(* No event names a sequence past the log, and an operation that waits to   *)
(* be pushed has its room in the log.                                       *)
EventsReached == \A i \in DOMAIN channel : channel[i].seq \in Sequence
NewHasRoom == pending = "new" => Len(log) <= MaxOps

(* The type invariant in these terms.                                       *)
Typed ==
  /\ log \in Seq({"own", "other"}) /\ Len(log) \in 1..MaxOps + 1
  /\ latest \in Sequence /\ cursor \in 1..Len(log)
  /\ handler \in [Handler \cup {Own} -> HandlerState]
  /\ ChannelTyped
  /\ realtime \in RealtimeState
  /\ lock \in {None, "realtime", "other"}
  /\ sync \in SyncState
  /\ pending \in {"none", "new", "sent"}
  /\ auto \in BOOLEAN /\ missed \in BOOLEAN
  /\ faults \in 0..MaxFaults /\ toggles \in 0..MaxToggles

Inductive == Typed /\ LockIsSession /\ EventsReached /\ NewHasRoom
-----------------------------------------------------------------------------
(* Steps of one kind *)

LEMMA InitInductive == Init => Inductive
<1> SUFFICES ASSUME Init PROVE Inductive
  OBVIOUS
<1>1. /\ log \in Seq({"own", "other"}) /\ Len(log) = 1 /\ Sequence = 0..1
      /\ Len(log) \in 1..MaxOps + 1
  BY NoticeBounds DEF Init, Sequence
<1>2. Idle \in HandlerState /\ Loop \in RealtimeState /\ NoSync \in SyncState
  BY <1>1 DEF Idle, Loop, NoSync, HandlerState, RealtimeState, SyncState
<1>3. ChannelTyped /\ EventsReached
  BY ChannelAssumption DEF Init, ChannelTyped, EventsReached
<1>4. Typed
  <2>1. latest \in Sequence /\ cursor \in 1..Len(log)
    BY <1>1 DEF Init
  <2>2. faults \in 0..MaxFaults /\ toggles \in 0..MaxToggles
    BY NoticeBounds DEF Init
  <2>3. /\ handler \in [Handler \cup {Own} -> HandlerState]
        /\ realtime \in RealtimeState /\ sync \in SyncState
    BY <1>2 DEF Init
  <2>4. /\ lock \in {None, "realtime", "other"} /\ pending \in {"none", "new", "sent"}
        /\ auto \in BOOLEAN /\ missed \in BOOLEAN
    BY DEF Init
  <2>5. QED
    BY <1>1, <1>3, <2>1, <2>2, <2>3, <2>4 DEF Typed
<1>5. LockIsSession /\ NewHasRoom
  BY NobodyAssumption DEF Init, LockIsSession, NewHasRoom, Loop, NoSync
<1>6. QED
  BY <1>3, <1>4, <1>5 DEF Inductive

(* The channel takes one more event, or loses its oldest for it.            *)
LEMMA SentTyped ==
  ASSUME ChannelTyped, EventsReached, NEW e \in Events, e.seq \in Sequence
  PROVE  /\ Sent(channel, e) \in Seq(Events) /\ Len(Sent(channel, e)) <= Capacity
         /\ \A i \in DOMAIN Sent(channel, e) : Sent(channel, e)[i].seq \in Sequence
<1> DEFINE all == Append(channel, e)
<1>1. /\ all \in Seq(Events) /\ Len(all) = Len(channel) + 1
      /\ Len(channel) \in Nat /\ DOMAIN channel = 1..Len(channel)
      /\ \A i \in 1..Len(all) :
           all[i] = IF i = Len(channel) + 1 THEN e ELSE channel[i]
  BY DEF ChannelTyped
<1>2. \A i \in 1..Len(all) : all[i].seq \in Sequence
  BY <1>1 DEF EventsReached
<1>3. CASE Len(all) > Capacity
  <2>1. Sent(channel, e) = Tail(all)
    BY <1>3 DEF Sent
  <2>2. /\ Tail(all) \in Seq(Events) /\ Len(Tail(all)) = Len(channel)
        /\ DOMAIN Tail(all) = 1..Len(channel)
        /\ \A i \in 1..Len(channel) : Tail(all)[i] = all[i + 1]
    BY <1>1
  <2>3. QED
    BY <1>1, <1>2, <2>1, <2>2 DEF ChannelTyped
<1>4. CASE ~(Len(all) > Capacity)
  <2>1. Sent(channel, e) = all
    BY <1>4 DEF Sent
  <2>2. DOMAIN all = 1..Len(all)
    BY <1>1
  <2>3. QED
    BY <1>1, <1>2, <1>4, <2>1, <2>2, ChannelAssumption
<1>5. QED
  BY <1>3, <1>4

(* A step that leaves log, lock, session and the realtime loop alone.       *)
LEMMA ServerStep ==
  ASSUME Inductive, UNCHANGED <<log, realtime, desktop, auto, limits, missed>>,
         latest' \in Sequence, ChannelTyped', EventsReached',
         NEW h \in Handler \cup {Own}, NEW q \in HandlerState,
         handler' = [handler EXCEPT ![h] = q]
  PROVE  Inductive'
<1>1. UNCHANGED <<Sequence, HandlerState, RealtimeState, SyncState>>
  BY DEF Sequence, HandlerState, RealtimeState, SyncState
<1>2. Typed'
  BY <1>1 DEF Inductive, Typed, desktop, limits
<1>3. QED
  BY <1>2 DEF Inductive, LockIsSession, NewHasRoom, desktop

(* A step of the realtime loop outside a session.                           *)
LEMMA LoopStep ==
  ASSUME Inductive, UNCHANGED <<log, handler, desktop, auto, toggles>>,
         faults' \in 0..MaxFaults, missed' \in BOOLEAN,
         latest' \in Sequence, ChannelTyped', EventsReached',
         realtime.at # "syncing", realtime' \in RealtimeState, realtime'.at # "syncing"
  PROVE  Inductive'
<1>1. UNCHANGED <<Sequence, HandlerState, RealtimeState, SyncState>>
  BY DEF Sequence, HandlerState, RealtimeState, SyncState
<1>2. Typed'
  BY <1>1 DEF Inductive, Typed, desktop
<1>3. QED
  BY <1>2 DEF Inductive, LockIsSession, NewHasRoom, desktop

(* A step of the session that keeps its lock.                               *)
LEMMA SessionStep ==
  ASSUME Inductive, UNCHANGED <<log, channel, realtime, lock, cursor, auto, limits, missed>>,
         latest' \in Sequence, pending' \in {"none", pending},
         handler' \in [Handler \cup {Own} -> HandlerState],
         sync.at # "off", sync' \in SyncState, sync'.at # "off"
  PROVE  Inductive'
<1>1. UNCHANGED <<Sequence, HandlerState, RealtimeState, SyncState, ChannelTyped>>
  BY DEF Sequence, HandlerState, RealtimeState, SyncState, ChannelTyped
<1>2. Typed'
  BY <1>1 DEF Inductive, Typed, limits
<1>3. QED
  BY <1>1, <1>2 DEF Inductive, LockIsSession, NewHasRoom, EventsReached

(* A session begins or ends together with the lock.                         *)
LEMMA LockStep ==
  ASSUME Inductive, UNCHANGED <<log, pending, auto, toggles, missed>>,
         latest' \in Sequence, cursor' \in 1..Len(log), faults' \in 0..MaxFaults,
         handler' \in [Handler \cup {Own} -> HandlerState],
         ChannelTyped', EventsReached',
         realtime' \in RealtimeState, sync' \in SyncState,
         lock' \in {None, "realtime", "other"}, LockIsSession'
  PROVE  Inductive'
<1>1. UNCHANGED <<Sequence, HandlerState, RealtimeState, SyncState>>
  BY DEF Sequence, HandlerState, RealtimeState, SyncState
<1>2. Typed'
  BY <1>1 DEF Inductive, Typed
<1>3. QED
  BY <1>2 DEF Inductive, NewHasRoom

(* The log grows by one operation and all that was reached stays so.        *)
LEMMA LogGrows ==
  ASSUME Inductive, NEW who \in {"own", "other"}, log' = Append(log, who)
  PROVE  /\ log' \in Seq({"own", "other"}) /\ Len(log') = Len(log) + 1
         /\ Sequence \subseteq Sequence'
         /\ HandlerState \subseteq HandlerState' /\ RealtimeState \subseteq RealtimeState'
         /\ SyncState \subseteq SyncState'
         /\ cursor \in 1..Len(log')
<1>1. log \in Seq({"own", "other"}) /\ Len(log) \in Nat
  BY DEF Inductive, Typed
<1>2. log' \in Seq({"own", "other"}) /\ Len(log') = Len(log) + 1
  BY <1>1
<1>3. Sequence \subseteq Sequence'
  BY <1>1, <1>2 DEF Sequence
<1>4. cursor \in 1..Len(log')
  BY <1>1, <1>2 DEF Inductive, Typed
<1>5. QED
  BY <1>2, <1>3, <1>4 DEF HandlerState, RealtimeState, SyncState
-----------------------------------------------------------------------------
(* The server *)

LEMMA SequenceFacts ==
  ASSUME Inductive
  PROVE  /\ Len(log) \in Nat /\ Len(log) \in Sequence /\ 0 \in Sequence
         /\ latest \in Sequence /\ cursor \in Sequence
         /\ Idle \in HandlerState /\ Loop \in RealtimeState /\ NoSync \in SyncState
         /\ ChannelTyped /\ EventsReached
         /\ realtime \in RealtimeState /\ sync \in SyncState
         /\ handler \in [Handler \cup {Own} -> HandlerState]
<1>1. /\ Len(log) \in Nat /\ Len(log) \in Sequence /\ 0 \in Sequence
      /\ latest \in Sequence /\ cursor \in Sequence
  BY DEF Inductive, Typed, Sequence
<1>2. Idle \in HandlerState /\ Loop \in RealtimeState /\ NoSync \in SyncState
  BY <1>1 DEF Idle, Loop, NoSync, HandlerState, RealtimeState, SyncState
<1>3. QED
  BY <1>1, <1>2 DEF Inductive, Typed

LEMMA CommitStep ==
  ASSUME Inductive, NEW h \in Handler, Commit(h)
  PROVE  Inductive'
<1>1. /\ log' = Append(log, "other") /\ Len(log) < MaxOps
      /\ UNCHANGED <<latest, channel, realtime, desktop, auto, limits, missed>>
  BY DEF Commit
<1>2. /\ log' \in Seq({"own", "other"}) /\ Len(log') = Len(log) + 1
      /\ Sequence \subseteq Sequence'
      /\ HandlerState \subseteq HandlerState' /\ RealtimeState \subseteq RealtimeState'
      /\ SyncState \subseteq SyncState' /\ cursor \in 1..Len(log')
  BY <1>1, LogGrows
<1>3. [Idle EXCEPT !.at = "read"] \in HandlerState
  BY SequenceFacts DEF HandlerState
<1>4. handler' \in [Handler \cup {Own} -> HandlerState']
  BY <1>2, <1>3, SequenceFacts DEF Commit
<1>5. Len(log') \in 1..MaxOps + 1 /\ Len(log') <= MaxOps
  BY <1>1, <1>2, SequenceFacts, NoticeBounds
<1>6. Typed'
  BY <1>1, <1>2, <1>4, <1>5 DEF Inductive, Typed, desktop, limits, ChannelTyped
<1>7. EventsReached' /\ NewHasRoom' /\ LockIsSession'
  BY <1>1, <1>2, <1>5 DEF Inductive, EventsReached, NewHasRoom, LockIsSession, desktop
<1>8. QED
  BY <1>6, <1>7 DEF Inductive

LEMMA HandlerStepInductive ==
  ASSUME Inductive, NEW h \in Handler \cup {Own}, HandlerStep(h) \/ RelayBytes(h)
  PROVE  Inductive'
<1> DEFINE q == handler'[h]
<1>1. handler[h] \in HandlerState /\ UNCHANGED <<log, realtime, desktop, auto, limits, missed>>
  BY SequenceFacts
     DEF HandlerStep, RelayBytes, ReadLatest, Remember, StoreForRelay, Announce
<1>2. handler[h].seq \in Sequence
  BY <1>1 DEF HandlerState
<1>3. CASE Announce(h)
  <2> DEFINE event == [kind |-> handler[h].kind, seq |-> handler[h].seq]
  <2>1. ChannelTyped' /\ EventsReached'
    <3>1. CASE UNCHANGED channel
      BY <3>1, <1>1, SequenceFacts DEF ChannelTyped, EventsReached, Sequence
    <3>2. CASE channel' = Sent(channel, event) /\ event.kind # "nothing"
      <4>1. event \in Events /\ event.seq \in Sequence
        BY <3>2, <1>1, <1>2, SequenceFacts DEF HandlerState, Events, Sequence
      <4>2. UNCHANGED Sequence
        BY <1>1 DEF Sequence
      <4>3. QED
        BY <3>2, <4>1, <4>2, SentTyped, SequenceFacts DEF ChannelTyped, EventsReached
    <3>3. QED
      BY <1>3, <3>1, <3>2 DEF Announce
  <2>2. q \in HandlerState /\ handler' = [handler EXCEPT ![h] = q] /\ latest' \in Sequence
    BY <1>1, <1>3, SequenceFacts DEF Announce, Serve, HandlerState
  <2>3. QED
    BY <1>1, <2>1, <2>2, ServerStep
<1>4. CASE ~Announce(h)
  <2>1. UNCHANGED channel
    BY <1>4 DEF HandlerStep, RelayBytes, ReadLatest, Remember, StoreForRelay
  <2>2. ChannelTyped' /\ EventsReached'
    BY <2>1, <1>1, SequenceFacts DEF ChannelTyped, EventsReached, Sequence
  <2>3. latest' \in Sequence
    BY <1>2, <1>4, SequenceFacts
       DEF HandlerStep, RelayBytes, ReadLatest, Remember, StoreForRelay
  <2>4. q \in HandlerState /\ handler' = [handler EXCEPT ![h] = q]
    <3>1. CASE RelayBytes(h)
      BY <3>1, <1>1, <1>2, SequenceFacts DEF RelayBytes, HandlerState
    <3>2. CASE ReadLatest(h) \/ Remember(h) \/ StoreForRelay(h)
      BY <3>2, <1>1, <1>2, SequenceFacts
         DEF ReadLatest, Remember, StoreForRelay, Serve, HandlerState
    <3>3. QED
      BY <1>4, <3>1, <3>2 DEF HandlerStep
  <2>5. QED
    BY <1>1, <2>2, <2>3, <2>4, ServerStep
<1>5. QED
  BY <1>3, <1>4
-----------------------------------------------------------------------------
(* The realtime loop *)

(* A step between two of its states that the wait never leaves alone.       *)
LEMMA LoopMoves ==
  ASSUME Inductive, UNCHANGED <<log, handler, desktop, auto, limits>>, missed' \in BOOLEAN,
         UNCHANGED channel \/ channel' = <<>>,
         latest' \in Sequence, realtime.at # "syncing",
         realtime' \in RealtimeState, realtime'.at # "syncing"
  PROVE  Inductive'
<1>1. ChannelTyped' /\ EventsReached'
  <2>1. CASE UNCHANGED channel
    BY <2>1, SequenceFacts DEF ChannelTyped, EventsReached, Sequence
  <2>2. CASE channel' = <<>>
    BY <2>2, ChannelAssumption DEF ChannelTyped, EventsReached
  <2>3. QED
    BY <2>1, <2>2
<1>2. faults \in 0..MaxFaults
  BY DEF Inductive, Typed
<1>3. QED
  BY <1>1, <1>2, LoopStep DEF limits

LEMMA AskStep ==
  ASSUME Inductive, AskForChange \/ Look \/ ReadDatabase \/ StoreLatest
  PROVE  Inductive'
<1>1. /\ realtime \in RealtimeState /\ realtime.at # "syncing"
      /\ UNCHANGED <<log, handler, desktop, auto, limits, missed, channel>>
      /\ missed \in BOOLEAN /\ realtime.seq \in Sequence
  BY SequenceFacts DEF AskForChange, Look, ReadDatabase, StoreLatest, server, RealtimeState,
     Inductive, Typed
<1>2. latest' \in Sequence
  BY <1>1, SequenceFacts DEF AskForChange, Look, ReadDatabase, StoreLatest, server
<1>3. realtime' \in RealtimeState /\ realtime'.at # "syncing"
  <2>1. CASE AskForChange
    BY <2>1, SequenceFacts DEF AskForChange, RealtimeState, AtServer
  <2>2. CASE Look
    BY <2>2, <1>1, SequenceFacts DEF Look, Waits, Answers, RealtimeState, AtServer
  <2>3. CASE ReadDatabase
    BY <2>3, <1>1, SequenceFacts DEF ReadDatabase, RealtimeState, AtServer
  <2>4. CASE StoreLatest
    BY <2>4, <1>1, SequenceFacts DEF StoreLatest, Waits, Answers, RealtimeState, AtServer
  <2>5. QED
    BY <2>1, <2>2, <2>3, <2>4
<1>4. QED
  BY <1>1, <1>2, <1>3, LoopMoves

LEMMA ListenStep ==
  ASSUME Inductive, Subscribe \/ Expire \/ Resume
  PROVE  Inductive'
<1>1. /\ realtime \in RealtimeState /\ realtime.at # "syncing"
      /\ UNCHANGED <<log, handler, desktop, auto, limits, latest>>
      /\ UNCHANGED channel \/ channel' = <<>>
  BY SequenceFacts DEF Subscribe, Expire, Resume, server
<1>2. missed' \in BOOLEAN
  BY DEF Subscribe, Expire, Resume, Inductive, Typed
<1>3. realtime' \in RealtimeState /\ realtime'.at # "syncing"
  BY <1>1, SequenceFacts DEF Subscribe, Expire, Resume, Waits, RealtimeState, AtServer, Loop
<1>4. QED
  BY <1>1, <1>2, <1>3, LoopMoves, SequenceFacts

LEMMA ReceiveStep ==
  ASSUME Inductive, Receive
  PROVE  Inductive'
<1>1. /\ realtime \in RealtimeState /\ realtime.at = "listen" /\ channel # <<>>
      /\ UNCHANGED <<log, latest, handler, desktop, auto, limits, missed>>
      /\ channel' = Tail(channel)
  BY SequenceFacts DEF Receive
<1>2. /\ channel \in Seq(Events) /\ Len(channel) <= Capacity
      /\ DOMAIN channel = 1..Len(channel) /\ Len(channel) \in Nat \ {0}
  BY <1>1, SequenceFacts DEF ChannelTyped
<1>3. Head(channel) = channel[1] /\ channel[1].seq \in Sequence
  BY <1>2, SequenceFacts DEF EventsReached
<1>4. /\ Tail(channel) \in Seq(Events) /\ Len(Tail(channel)) = Len(channel) - 1
      /\ DOMAIN Tail(channel) = 1..Len(channel) - 1
      /\ \A i \in 1..Len(channel) - 1 : Tail(channel)[i] = channel[i + 1]
  BY <1>2
<1>5. ChannelTyped' /\ EventsReached'
  <2>1. UNCHANGED Sequence
    BY <1>1 DEF Sequence
  <2>2. \A i \in 1..Len(channel) - 1 : channel[i + 1].seq \in Sequence
    BY <1>2, SequenceFacts DEF EventsReached
  <2>3. QED
    BY <1>1, <1>2, <1>4, <2>1, <2>2, ChannelAssumption DEF ChannelTyped, EventsReached
<1>6. realtime' \in RealtimeState /\ realtime'.at # "syncing"
  BY <1>1, <1>3 DEF Receive, Answers, RealtimeState, AtServer
<1>7. faults \in 0..MaxFaults /\ missed \in BOOLEAN
  BY DEF Inductive, Typed
<1>8. QED
  BY <1>1, <1>5, <1>6, <1>7, LoopStep, SequenceFacts DEF limits

(* The loop starts a session of its own, or asks again.                     *)
LEMMA HearAnswerStep ==
  ASSUME Inductive, HearAnswer
  PROVE  Inductive'
<1>1. /\ realtime \in RealtimeState /\ realtime.at = "answered"
      /\ UNCHANGED <<server, cursor, pending, auto, limits, missed>>
  BY SequenceFacts DEF HearAnswer
<1>2. CASE realtime.seq > realtime.since /\ lock = None
  <2>1. /\ lock' = "realtime" /\ sync' = [NoSync EXCEPT !.at = "push"]
        /\ realtime' = [realtime EXCEPT !.at = "syncing"]
    BY <1>2 DEF HearAnswer, Locks, Waits
  <2>2. sync' \in SyncState /\ sync'.at = "push"
    BY <2>1, SequenceFacts DEF SyncState
  <2>3. realtime' \in RealtimeState /\ realtime'.at = "syncing"
    BY <2>1, <1>1 DEF RealtimeState
  <2>4. LockIsSession'
    BY <2>1, <2>2, <2>3, NobodyAssumption DEF LockIsSession
  <2>5. /\ ChannelTyped' /\ EventsReached' /\ latest' \in Sequence
        /\ cursor' \in 1..Len(log) /\ faults' \in 0..MaxFaults
        /\ handler' \in [Handler \cup {Own} -> HandlerState]
    BY <1>1, SequenceFacts DEF server, limits, Inductive, Typed, ChannelTyped, EventsReached,
       Sequence
  <2>6. QED
    BY <1>1, <2>1, <2>2, <2>3, <2>4, <2>5, LockStep DEF server, limits
<1>3. CASE ~(realtime.seq > realtime.since /\ lock = None)
  <2>1. realtime' = Loop /\ UNCHANGED desktop
    BY <1>1, <1>3 DEF HearAnswer, desktop
  <2>2. realtime' \in RealtimeState /\ realtime'.at # "syncing"
    BY <2>1, SequenceFacts DEF Loop
  <2>3. missed \in BOOLEAN
    BY DEF Inductive, Typed
  <2>4. QED
    BY <1>1, <2>1, <2>2, <2>3, LoopMoves, SequenceFacts DEF server
<1>4. QED
  BY <1>2, <1>3

(* The wait fails or ends with the server.                                  *)
LEMMA WaitFailsStep ==
  ASSUME Inductive, WaitFails
  PROVE  Inductive'
<1>1. /\ UNCHANGED <<log, latest, handler, desktop, auto, toggles, missed>>
      /\ channel' = <<>> /\ realtime.at # "syncing"
  BY DEF WaitFails, Fault, AtServer
<1>2. faults' \in 0..MaxFaults /\ missed' \in BOOLEAN
  BY NoticeBounds DEF WaitFails, Fault, Inductive, Typed
<1>3. realtime' \in RealtimeState /\ realtime'.at # "syncing"
  <2>1. realtime' = [Loop EXCEPT !.at = "pause"]
    BY DEF WaitFails
  <2>2. QED
    BY <2>1, SequenceFacts DEF RealtimeState
<1>4. ChannelTyped' /\ EventsReached'
  BY <1>1, ChannelAssumption DEF ChannelTyped, EventsReached
<1>5. QED
  BY <1>1, <1>2, <1>3, <1>4, LoopStep, SequenceFacts
-----------------------------------------------------------------------------
(* Sessions *)

LEMMA BeginStep ==
  ASSUME Inductive, BackgroundSync \/ UserSync
  PROVE  Inductive'
<1>1. /\ UNCHANGED <<server, realtime, cursor, pending, auto, limits, missed>>
      /\ lock = None /\ lock' = "other" /\ sync' = [NoSync EXCEPT !.at = "push"]
  BY DEF BackgroundSync, UserSync, Locks
<1>2. sync' \in SyncState /\ sync'.at = "push"
  BY <1>1, SequenceFacts DEF SyncState
<1>3. LockIsSession'
  BY <1>1, <1>2, NobodyAssumption DEF Inductive, LockIsSession
<1>4. /\ ChannelTyped' /\ EventsReached' /\ latest' \in Sequence
      /\ cursor' \in 1..Len(log) /\ faults' \in 0..MaxFaults
      /\ handler' \in [Handler \cup {Own} -> HandlerState]
  BY <1>1, SequenceFacts DEF server, limits, Inductive, Typed, ChannelTyped, EventsReached,
     Sequence
<1>5. QED
  BY <1>1, <1>2, <1>3, <1>4, LockStep, SequenceFacts DEF server, limits

(* The session frees the lock as it ends, and the loop it may be part of.   *)
LEMMA UnlockedStep ==
  ASSUME Inductive, Unlocked, UNCHANGED <<server, pending, auto, toggles, missed>>,
         cursor' \in 1..Len(log), faults' \in 0..MaxFaults
  PROVE  Inductive'
<1>1. lock' = None /\ sync' = NoSync /\ NoSync.at = "off"
  BY DEF Unlocked, NoSync
<1>2. realtime' \in RealtimeState /\ realtime'.at # "syncing"
  BY SequenceFacts DEF Unlocked, Inductive, LockIsSession, Loop
<1>3. LockIsSession'
  BY <1>1, <1>2, NobodyAssumption DEF LockIsSession
<1>4. /\ ChannelTyped' /\ EventsReached' /\ latest' \in Sequence
      /\ handler' \in [Handler \cup {Own} -> HandlerState]
  BY SequenceFacts DEF server, ChannelTyped, EventsReached, Sequence
<1>5. QED
  BY <1>1, <1>2, <1>3, <1>4, LockStep, SequenceFacts DEF server

LEMMA EndStep ==
  ASSUME Inductive, Apply \/ SyncFails
  PROVE  Inductive'
<1>1. Unlocked /\ UNCHANGED <<server, pending, auto, toggles, missed>>
  BY DEF Apply, SyncFails, Fault, limits
<1>2. faults' \in 0..MaxFaults
  BY NoticeBounds DEF Apply, SyncFails, Fault, limits, Inductive, Typed
<1>3. cursor' \in 1..Len(log)
  <2>1. cursor \in 1..Len(log) /\ sync.rows \in Sequence /\ sync.seq \in Sequence
    BY DEF Inductive, Typed, SyncState
  <2>2. Moved \in 1..Len(log)
    BY <2>1, SequenceFacts DEF Moved, Larger, Sequence
  <2>3. QED
    BY <2>1, <2>2 DEF Apply, SyncFails
<1>4. QED
  BY <1>1, <1>2, <1>3, UnlockedStep

(* The session pushes: what is new joins the log.                           *)
LEMMA PushOwnStep ==
  ASSUME Inductive, PushOwn
  PROVE  Inductive'
<1>1. /\ UNCHANGED <<latest, channel, realtime, lock, cursor, auto, limits, missed>>
      /\ sync.at = "push" /\ sync \in SyncState
  BY SequenceFacts DEF PushOwn
<1>2. CASE pending = "none"
  <2>1. UNCHANGED <<log, handler, pending>> /\ sync' = [sync EXCEPT !.at = "pull"]
    BY <1>2 DEF PushOwn
  <2>2. sync' \in SyncState /\ sync'.at # "off"
    BY <1>1, <2>1 DEF SyncState
  <2>3. QED
    BY <1>1, <2>1, <2>2, SessionStep, SequenceFacts
<1>3. CASE pending # "none"
  <2> DEFINE q == [Idle EXCEPT !.at = "read",
                     !.kind = IF pending = "new" THEN "operations" ELSE "nothing"]
  <2>1. /\ pending' = "sent" /\ sync' = [sync EXCEPT !.at = "pushing"]
        /\ handler' = [handler EXCEPT ![Own] = q]
        /\ log' = IF pending = "new" THEN Append(log, "own") ELSE log
    BY <1>3 DEF PushOwn
  <2>2. q \in HandlerState
    BY SequenceFacts DEF HandlerState
  <2>3. sync' \in SyncState /\ sync'.at = "pushing"
    BY <1>1, <2>1 DEF SyncState
  <2>4. handler' \in [Handler \cup {Own} -> HandlerState]
    BY <2>1, <2>2, SequenceFacts
  <2>5. /\ log' \in Seq({"own", "other"}) /\ Len(log') \in 1..MaxOps + 1
        /\ Sequence \subseteq Sequence'
        /\ HandlerState \subseteq HandlerState' /\ RealtimeState \subseteq RealtimeState'
        /\ SyncState \subseteq SyncState' /\ cursor \in 1..Len(log')
    <3>1. CASE pending = "new"
      <4>1. Len(log) <= MaxOps
        BY <3>1 DEF Inductive, NewHasRoom
      <4>2. log' = Append(log, "own")
        BY <2>1, <3>1
      <4>3. QED
        BY <4>1, <4>2, LogGrows, SequenceFacts, NoticeBounds
    <3>2. CASE pending # "new"
      <4>1. UNCHANGED log
        BY <2>1, <3>2
      <4>2. UNCHANGED <<Sequence, HandlerState, RealtimeState, SyncState>>
        BY <4>1 DEF Sequence, HandlerState, RealtimeState, SyncState
      <4>3. QED
        BY <4>1, <4>2 DEF Inductive, Typed
    <3>3. QED
      BY <3>1, <3>2
  <2>6. Typed'
    BY <1>1, <2>1, <2>3, <2>4, <2>5 DEF Inductive, Typed, limits, ChannelTyped
  <2>7. EventsReached' /\ NewHasRoom' /\ LockIsSession'
    BY <1>1, <2>1, <2>3, <2>5 DEF Inductive, EventsReached, NewHasRoom, LockIsSession
  <2>8. QED
    BY <2>6, <2>7 DEF Inductive
<1>4. QED
  BY <1>2, <1>3

LEMMA MarkPushedStep ==
  ASSUME Inductive, MarkPushed
  PROVE  Inductive'
<1>1. /\ UNCHANGED <<log, latest, channel, realtime, lock, cursor, auto, limits, missed>>
      /\ sync.at = "pushing" /\ sync \in SyncState /\ pending' = "none"
      /\ handler' = [handler EXCEPT ![Own] = Idle]
      /\ sync' = [sync EXCEPT !.at = "pull", !.seq = handler[Own].seq]
  BY SequenceFacts DEF MarkPushed
<1>2. handler[Own].seq \in Sequence
  BY SequenceFacts DEF HandlerState
<1>3. sync' \in SyncState /\ sync'.at # "off"
  BY <1>1, <1>2 DEF SyncState
<1>4. handler' \in [Handler \cup {Own} -> HandlerState]
  BY <1>1, SequenceFacts
<1>5. QED
  BY <1>1, <1>3, <1>4, SessionStep, SequenceFacts

(* The last of the others' operations: a bounded set of numbers has one.    *)
LEMMA TopOfBounded ==
  ASSUME NEW b \in Nat, NEW S \in SUBSET (0..b), S # {}
  PROVE  Top(S) \in S
<1> DEFINE T == {b - x : x \in S}
<1>1. T \subseteq Nat /\ T # {}
  <2>1. \A x \in S : b - x \in Nat
    BY SMTT(30)
  <2>2. \E x \in S : b - x \in T
    BY Zenon
  <2>3. QED
    BY <2>1, <2>2
<1>2. PICK t \in T : \A y \in T : ~(<<y, t>> \in OpToRel(<, Nat))
  BY <1>1, NatLessThanWellFounded, WFMin
<1>3. OpToRel(<, Nat) = {p \in Nat \X Nat : p[1] < p[2]}
  BY DEF OpToRel
<1>4. ASSUME NEW y \in T PROVE t <= y
  <2>1. t \in Nat /\ y \in Nat
    BY <1>1
  <2>2. ~(<<y, t>> \in {p \in Nat \X Nat : p[1] < p[2]})
    BY <1>2, <1>3
  <2>3. <<y, t>> \in Nat \X Nat /\ <<y, t>>[1] = y /\ <<y, t>>[2] = t
    BY <2>1
  <2>4. ~(y < t)
    BY <2>2, <2>3
  <2>5. QED
    BY <2>1, <2>4
<1>5. PICK m \in S : t = b - m
  OBVIOUS
<1>6. ASSUME NEW x \in S PROVE x <= m
  <2>1. b - x \in T
    BY Zenon
  <2>2. x \in 0..b /\ m \in 0..b
    BY Zenon
  <2>3. b - m <= b - x
    BY <2>1, <1>4, <1>5
  <2>4. QED
    BY <2>2, <2>3, SMTT(30)
<1>7. QED
  BY <1>6 DEF Top

LEMMA PullStep ==
  ASSUME Inductive,
         PullRows \/ PullSequence \/ PullReadsDatabase \/ PullStoresLatest
  PROVE  Inductive'
<1>1. /\ UNCHANGED <<log, channel, handler, pending, realtime, lock, cursor, auto, limits,
                     missed>>
      /\ sync.at # "off" /\ sync \in SyncState /\ sync.seq \in Sequence
  BY SequenceFacts DEF PullRows, PullSequence, PullReadsDatabase, PullStoresLatest, server,
     SyncState
<1>2. latest' \in Sequence
  BY <1>1, SequenceFacts DEF PullRows, PullSequence, PullReadsDatabase, PullStoresLatest,
     server
<1>3. CASE PullRows
  <2>1. cursor \in Nat /\ Others \in SUBSET Sequence
    BY SequenceFacts DEF Inductive, Typed, Others, Sequence
  <2>2. Others # {} => Top(Others) \in Sequence
    BY <2>1, TopOfBounded, SequenceFacts DEF Sequence
  <2>3. sync' \in SyncState /\ sync'.at # "off"
    BY <1>1, <1>3, <2>2, SequenceFacts DEF PullRows, SyncState
  <2>4. QED
    BY <1>1, <1>2, <2>3, SessionStep, SequenceFacts
<1>4. CASE ~PullRows
  <2>1. Larger(sync.seq, latest) \in Sequence /\ Larger(sync.seq, Len(log)) \in Sequence
    BY <1>1, SequenceFacts DEF Larger
  <2>2. sync' \in SyncState /\ sync'.at # "off"
    BY <1>1, <1>4, <2>1 DEF PullSequence, PullReadsDatabase, PullStoresLatest, SyncState
  <2>3. QED
    BY <1>1, <1>2, <2>2, SessionStep, SequenceFacts
<1>5. QED
  BY <1>3, <1>4
-----------------------------------------------------------------------------
(* The user, and the restart *)

LEMMA UserStep ==
  ASSUME Inductive, Edit \/ Toggle
  PROVE  Inductive'
<1>1. UNCHANGED <<server, realtime, lock, sync, cursor, faults, missed>>
  BY DEF Edit, Toggle, desktop, limits
<1>2. /\ pending' \in {"none", "new", "sent"} /\ auto' \in BOOLEAN
      /\ toggles' \in 0..MaxToggles
      /\ pending' = "new" => pending = "new" \/ Len(log) < MaxOps
  <2>1. /\ pending \in {"none", "new", "sent"} /\ auto \in BOOLEAN
        /\ toggles \in 0..MaxToggles
    BY DEF Inductive, Typed
  <2>2. CASE Edit
    BY <2>1, <2>2 DEF Edit, limits
  <2>3. CASE Toggle
    <3>1. UNCHANGED pending /\ toggles < MaxToggles /\ toggles' = toggles + 1
      BY <2>3 DEF Toggle, desktop
    <3>2. auto' = ~auto
      BY <2>3 DEF Toggle
    <3>3. toggles' \in 0..MaxToggles
      BY <2>1, <3>1, NoticeBounds
    <3>4. auto' \in BOOLEAN
      BY <3>2
    <3>5. QED
      BY <2>1, <3>1, <3>3, <3>4
  <2>4. QED
    BY <2>2, <2>3
<1>3. UNCHANGED <<Sequence, HandlerState, RealtimeState, SyncState, ChannelTyped>>
  BY <1>1 DEF server, Sequence, HandlerState, RealtimeState, SyncState, ChannelTyped
<1>4. Typed'
  BY <1>1, <1>2, <1>3 DEF server, Inductive, Typed
<1>5. EventsReached' /\ LockIsSession'
  BY <1>1, <1>3 DEF server, Inductive, EventsReached, LockIsSession
<1>6. NewHasRoom'
  BY <1>1, <1>2, SequenceFacts, NoticeBounds DEF server, Inductive, NewHasRoom
<1>7. QED
  BY <1>4, <1>5, <1>6 DEF Inductive

(* The server's requests fail: a session that awaits one ends and frees its *)
(* lock, a wait ends, and a session that applies its page goes on.          *)
LEMMA RestartStep ==
  ASSUME Inductive, Restart
  PROVE  Inductive'
<1> DEFINE waits == realtime.at \in AtServer
           ends == sync.at \notin {"off", "apply"}
<1>1. /\ UNCHANGED <<log, cursor, pending, auto, toggles, missed>>
      /\ latest' = 0 /\ channel' = <<>>
      /\ handler' = [h \in Handler \cup {Own} |-> Idle]
      /\ realtime' = IF waits THEN [Loop EXCEPT !.at = "pause"]
                     ELSE IF ends /\ lock = "realtime" THEN Loop ELSE realtime
      /\ lock' = IF ends THEN None ELSE lock
      /\ sync' = IF ends THEN NoSync ELSE sync
  BY DEF Restart, Fault
<1>2. faults' \in 0..MaxFaults
  BY NoticeBounds DEF Restart, Fault, Inductive, Typed
<1>3. ChannelTyped' /\ EventsReached'
  BY <1>1, ChannelAssumption DEF ChannelTyped, EventsReached
<1>4. [Loop EXCEPT !.at = "pause"] \in RealtimeState
  BY SequenceFacts DEF RealtimeState
<1>5. realtime' \in RealtimeState /\ sync' \in SyncState
  BY <1>1, <1>4, SequenceFacts
<1>6. /\ lock' \in {None, "realtime", "other"} /\ latest' \in Sequence
      /\ cursor' \in 1..Len(log)
      /\ handler' \in [Handler \cup {Own} -> HandlerState]
  BY <1>1, SequenceFacts DEF Inductive, Typed
<1>7. [Loop EXCEPT !.at = "pause"].at # "syncing" /\ Loop.at # "syncing" /\ NoSync.at = "off"
  BY DEF Loop, NoSync
<1>8. LockIsSession'
  <2>1. waits => realtime.at # "syncing"
    BY DEF AtServer
  <2>2. CASE ends
    BY <1>1, <1>7, <2>1, <2>2, NobodyAssumption DEF Inductive, LockIsSession
  <2>3. CASE ~ends
    BY <1>1, <1>7, <2>1, <2>3 DEF Inductive, LockIsSession
  <2>4. QED
    BY <2>2, <2>3
<1>9. QED
  BY <1>1, <1>2, <1>3, <1>5, <1>6, <1>8, LockStep
-----------------------------------------------------------------------------

(* The inductive invariant, for the steps of server, loops, session and     *)
(* user.                                                                    *)
THEOREM InductiveInvariant == Spec => []Inductive
<1>1. Inductive /\ [Next]_vars => Inductive'
  <2> SUFFICES ASSUME Inductive, [Next]_vars PROVE Inductive'
    OBVIOUS
  <2>1. CASE UNCHANGED vars
    BY <2>1 DEF vars, server, desktop, limits, Inductive, Typed, LockIsSession,
       EventsReached, NewHasRoom, ChannelTyped, Sequence, HandlerState, RealtimeState,
       SyncState
  <2>2. ASSUME NEW h \in Handler, Commit(h) PROVE Inductive'
    BY <2>2, CommitStep
  <2>3. ASSUME NEW h \in Handler \cup {Own}, HandlerStep(h) \/ RelayBytes(h)
        PROVE  Inductive'
    BY <2>3, HandlerStepInductive
  <2>4. CASE RealtimeStep
    BY <2>4, AskStep, ListenStep, ReceiveStep, HearAnswerStep DEF RealtimeStep
  <2>5. CASE SyncStep
    BY <2>5, PushOwnStep, MarkPushedStep, PullStep, EndStep DEF SyncStep
  <2>6. CASE BackgroundSync \/ UserSync \/ SyncFails
    BY <2>6, BeginStep, EndStep
  <2>7. CASE Edit \/ Toggle \/ WaitFails \/ Restart
    BY <2>7, UserStep, WaitFailsStep, RestartStep
  <2>8. QED
    BY <2>1, <2>2, <2>3, <2>4, <2>5, <2>6, <2>7 DEF Next
<1>2. QED
  BY <1>1, InitInductive, PTL DEF Spec

(* Cursor, cache, events and sessions name no sequence past the log, and    *)
(* every variable keeps its kind.                                           *)
THEOREM TypeCorrect == Spec => []TypeOK
<1>1. Inductive => TypeOK
  BY DEF Inductive, Typed, TypeOK, Sequence, HandlerState, RealtimeState, SyncState,
     ChannelTyped
<1>2. QED
  BY <1>1, InductiveInvariant, PTL

(* sync_lock is held exactly while a session runs, and by the realtime loop *)
(* exactly while it is in one: no failure or restart leaves it behind.      *)
THEOREM LockIsReleased == Spec => []LockIsSession
<1>1. Inductive => LockIsSession
  BY DEF Inductive
<1>2. QED
  BY <1>1, InductiveInvariant, PTL
-----------------------------------------------------------------------------
(* What a sleeping wait will hear *)

(* A request that has still to send an event that will not wake the wait.   *)
Stale(h) ==
  /\ handler[h].at \in {"remember", "announce"}
  /\ handler[h].kind = "operations" /\ handler[h].seq <= realtime.since
StaleTellers == {h \in Handler \cup {Own} : Stale(h)}

(* An event that wakes the wait is among those it has not received, and the *)
(* events that can still be sent do not push it out of the channel.         *)
OnItsWay ==
  \E i \in DOMAIN channel :
    Wakes(channel[i]) /\ Len(channel) - i + Cardinality(StaleTellers) < Capacity

SleeperHears ==
  realtime.at = "listen" /\ Len(log) > realtime.since => missed \/ ~Quiet \/ OnItsWay

(* This desktop has one push under way at most, and only a relay request    *)
(* finds the cache empty as it announces.                                   *)
OwnIdle == sync.at # "pushing" => handler[Own].at = "idle"
StoreIsRelay ==
  \A h \in Handler \cup {Own} : handler[h].at = "store" => handler[h].kind = "attachment_blobs"

Hearing == Inductive /\ OwnIdle /\ StoreIsRelay /\ SleeperHears

(* No more requests at a time than the channel keeps events.                *)
FewRequests == IsFiniteSet(Handler) /\ Cardinality(Handler \cup {Own}) <= Capacity

LEMMA Counted ==
  ASSUME IsFiniteSet(Handler), NEW S \in SUBSET (Handler \cup {Own})
  PROVE  IsFiniteSet(S) /\ Cardinality(S) \in Nat
<1>1. IsFiniteSet(Handler \cup {Own})
  BY FS_AddElement
<1>2. QED
  BY <1>1, FS_Subset, FS_CardinalityType

LEMMA FewerCounted ==
  ASSUME IsFiniteSet(Handler),
         NEW S \in SUBSET (Handler \cup {Own}), NEW T \in SUBSET S
  PROVE  /\ Cardinality(T) <= Cardinality(S)
         /\ \A h \in S \ T : Cardinality(T) + 1 <= Cardinality(S)
<1>1. IsFiniteSet(S) /\ Cardinality(S) \in Nat /\ IsFiniteSet(T) /\ Cardinality(T) \in Nat
  BY Counted
<1>2. Cardinality(T) <= Cardinality(S)
  BY <1>1, FS_Subset
<1>3. ASSUME NEW h \in S \ T PROVE Cardinality(T) + 1 <= Cardinality(S)
  <2>1. /\ IsFiniteSet(S \ {h}) /\ Cardinality(S \ {h}) = Cardinality(S) - 1
    BY <1>1, FS_RemoveElement
  <2>2. T \subseteq S \ {h}
    OBVIOUS
  <2>3. Cardinality(T) <= Cardinality(S \ {h})
    BY <2>1, <2>2, FS_Subset
  <2>4. QED
    BY <1>1, <2>1, <2>3
<1>4. QED
  BY <1>2, <1>3

(* What was in the channel stays in it, unless it is the oldest of Capacity *)
(* events, and what is sent comes last.                                     *)
LEMMA SentKeeps ==
  ASSUME ChannelTyped, NEW e \in Events
  PROVE  /\ Len(Sent(channel, e)) \in DOMAIN Sent(channel, e)
         /\ Len(Sent(channel, e)) \in Nat
         /\ Sent(channel, e)[Len(Sent(channel, e))] = e
         /\ \A i \in DOMAIN channel : Len(channel) - i + 1 < Capacity =>
              \E j \in DOMAIN Sent(channel, e) :
                /\ Sent(channel, e)[j] = channel[i]
                /\ Len(Sent(channel, e)) - j = Len(channel) - i + 1
<1> DEFINE all == Append(channel, e)
<1>1. /\ all \in Seq(Events) /\ Len(all) = Len(channel) + 1
      /\ Len(channel) \in Nat /\ DOMAIN channel = 1..Len(channel) /\ Len(channel) <= Capacity
      /\ DOMAIN all = 1..Len(all)
      /\ \A i \in 1..Len(all) :
           all[i] = IF i = Len(channel) + 1 THEN e ELSE channel[i]
  BY DEF ChannelTyped
<1>a. Sent(channel, e) = IF Len(all) > Capacity THEN Tail(all) ELSE all
  BY DEF Sent
<1> HIDE DEF all
<1>2. CASE Len(all) > Capacity
  <2>1. Sent(channel, e) = Tail(all)
    BY <1>2, <1>a
  <2>2. /\ Tail(all) \in Seq(Events) /\ Len(Tail(all)) = Len(channel)
        /\ DOMAIN Tail(all) = 1..Len(channel)
        /\ \A i \in 1..Len(channel) : Tail(all)[i] = all[i + 1]
    BY <1>1
  <2>3. Len(channel) = Capacity /\ Len(channel) >= 1
    <3>1. Len(channel) \in Nat /\ Len(channel) <= Capacity /\ Len(channel) + 1 > Capacity
      BY <1>1, <1>2
    <3>2. QED
      BY <3>1, ChannelAssumption
  <2>4. ASSUME NEW i \in DOMAIN channel, Len(channel) - i + 1 < Capacity
        PROVE  i - 1 \in DOMAIN Tail(all) /\ Tail(all)[i - 1] = channel[i]
    BY <1>1, <2>2, <2>3, <2>4
  <2>5. ASSUME NEW i \in DOMAIN channel, Len(channel) - i + 1 < Capacity
        PROVE  \E j \in DOMAIN Tail(all) :
                 Tail(all)[j] = channel[i] /\ Len(Tail(all)) - j = Len(channel) - i + 1
    <3>1. Len(Tail(all)) - (i - 1) = Len(channel) - i + 1
      BY <1>1, <2>2
    <3>2. QED
      BY <2>4, <2>5, <3>1
  <2>6. Tail(all)[Len(Tail(all))] = e /\ Len(Tail(all)) \in DOMAIN Tail(all)
    BY <1>1, <2>2, <2>3
  <2>7. QED
    BY <1>1, <2>1, <2>2, <2>5, <2>6
<1>3. CASE ~(Len(all) > Capacity)
  <2>1. Sent(channel, e) = all
    BY <1>3, <1>a
  <2>2. ASSUME NEW i \in DOMAIN channel
        PROVE  \E j \in DOMAIN all :
                 all[j] = channel[i] /\ Len(all) - j = Len(channel) - i + 1
    <3>1. i \in DOMAIN all /\ all[i] = channel[i] /\ Len(all) - i = Len(channel) - i + 1
      BY <1>1
    <3>2. QED
      BY <3>1
  <2>3. all[Len(all)] = e /\ Len(all) \in DOMAIN all /\ Len(all) \in Nat
    BY <1>1
  <2>4. QED
    BY <2>1, <2>2, <2>3
<1>4. QED
  BY <1>2, <1>3

(* The wait loses nothing when nothing is sent, no request becomes stale    *)
(* and none that will tell is gone.                                         *)
LEMMA HearsOn ==
  ASSUME IsFiniteSet(Handler), Inductive, SleeperHears,
         UNCHANGED <<log, channel, realtime, missed>>,
         StaleTellers' \subseteq StaleTellers, Quiet' => Quiet
  PROVE  SleeperHears'
<1>1. SUFFICES ASSUME realtime.at = "listen", Len(log) > realtime.since, ~missed, Quiet
               PROVE  OnItsWay'
  BY DEF SleeperHears
<1>2. PICK i \in DOMAIN channel :
        Wakes(channel[i]) /\ Len(channel) - i + Cardinality(StaleTellers) < Capacity
  BY <1>1 DEF SleeperHears, OnItsWay
<1>3. /\ Cardinality(StaleTellers') <= Cardinality(StaleTellers)
      /\ Cardinality(StaleTellers') \in Nat /\ Cardinality(StaleTellers) \in Nat
  <2>1. StaleTellers \in SUBSET (Handler \cup {Own})
    BY DEF StaleTellers
  <2>2. QED
    BY <2>1, Counted, FewerCounted
<1>4. Len(channel) - i \in Int
  BY SequenceFacts DEF ChannelTyped
<1>5. Len(channel) - i + Cardinality(StaleTellers') < Capacity
  BY <1>2, <1>3, <1>4, ChannelAssumption
<1>6. Wakes(channel[i])' <=> Wakes(channel[i])
  BY DEF Wakes
<1>7. QED
  BY <1>2, <1>5, <1>6 DEF OnItsWay, Wakes

(* A step of one request leaves the others what they are to the wait.       *)
LEMMA OthersStay ==
  ASSUME handler \in [Handler \cup {Own} -> HandlerState], UNCHANGED realtime,
         NEW h \in Handler \cup {Own}, NEW q, handler' = [handler EXCEPT ![h] = q]
  PROVE  /\ handler'[h] = q
         /\ \A g \in (Handler \cup {Own}) \ {h} :
              (Stale(g)' <=> Stale(g)) /\ (WillTell(g)' <=> WillTell(g))
<1>1. handler'[h] = q /\ \A g \in (Handler \cup {Own}) \ {h} : handler'[g] = handler[g]
  OBVIOUS
<1>2. QED
  BY <1>1 DEF Stale, WillTell

LEMMA OneRequest ==
  ASSUME IsFiniteSet(Handler), Inductive, SleeperHears,
         UNCHANGED <<log, channel, realtime, missed>>,
         NEW h \in Handler \cup {Own}, NEW q, handler' = [handler EXCEPT ![h] = q],
         Stale(h)' => Stale(h), Len(log) > realtime.since /\ ~WillTell(h)' => ~WillTell(h)
  PROVE  SleeperHears'
<1>1. \A g \in (Handler \cup {Own}) \ {h} :
        (Stale(g)' <=> Stale(g)) /\ (WillTell(g)' <=> WillTell(g))
  BY OthersStay, SequenceFacts
<1>2. StaleTellers' \subseteq StaleTellers
  BY <1>1 DEF StaleTellers
<1>3. CASE Len(log) > realtime.since
  <2>1. Quiet' => Quiet
    BY <1>1, <1>3 DEF Quiet
  <2>2. QED
    BY <1>2, <2>1, HearsOn
<1>4. CASE ~(Len(log) > realtime.since)
  BY <1>4 DEF SleeperHears
<1>5. QED
  BY <1>3, <1>4

(* The announcement either wakes the wait, and so few requests are left     *)
(* that the event stays in the channel, or it pushes what is on its way one *)
(* place on, and one request less can do so again.                          *)
LEMMA AnnounceHears ==
  ASSUME FewRequests, Inductive, SleeperHears, NEW h \in Handler \cup {Own}, Announce(h)
  PROVE  SleeperHears'
<1> DEFINE event == [kind |-> handler[h].kind, seq |-> handler[h].seq]
           q == handler'[h]
<1>1. /\ UNCHANGED <<log, realtime, missed>> /\ handler[h].at = "announce"
      /\ handler' = [handler EXCEPT ![h] = q] /\ q.at \in {"idle", "answered"}
      /\ handler[h] \in HandlerState /\ IsFiniteSet(Handler)
  <2>1. handler[h] \in HandlerState /\ handler \in [Handler \cup {Own} -> HandlerState]
    BY SequenceFacts
  <2>2. CASE h = Own
    <3>1. Serve(h, "answered", handler[h].seq)
      BY <2>2 DEF Announce
    <3>2. handler' = [handler EXCEPT ![h] = q] /\ q.at = "answered"
      BY <2>1, <3>1 DEF Serve, HandlerState
    <3>3. QED
      BY <2>1, <3>2 DEF Announce, FewRequests
  <2>3. CASE h # Own
    <3>1. handler' = [handler EXCEPT ![h] = Idle] /\ Idle.at = "idle"
      BY <2>3 DEF Announce, Idle
    <3>2. handler' = [handler EXCEPT ![h] = q] /\ q.at = "idle"
      BY <2>1, <3>1
    <3>3. QED
      BY <2>1, <3>2 DEF Announce, FewRequests
  <2>4. QED
    BY <2>2, <2>3
<1>2. \A g \in (Handler \cup {Own}) \ {h} :
        (Stale(g)' <=> Stale(g)) /\ (WillTell(g)' <=> WillTell(g))
  BY <1>1, OthersStay, SequenceFacts
<1>3. ~Stale(h)' /\ ~WillTell(h)'
  BY <1>1 DEF Stale, WillTell
<1>4. StaleTellers' \subseteq StaleTellers \ {h}
  BY <1>2, <1>3 DEF StaleTellers
<1>5. SUFFICES ASSUME realtime.at = "listen", Len(log) > realtime.since, ~missed, Quiet'
               PROVE  OnItsWay'
  BY <1>1 DEF SleeperHears
<1>6. CASE handler[h].kind = "nothing"
  <2>1. UNCHANGED channel
    BY <1>6 DEF Announce
  <2>2. ~WillTell(h)
    BY <1>6 DEF WillTell
  <2>3. SleeperHears'
    BY <1>1, <1>3, <2>1, <2>2, OneRequest
  <2>4. QED
    BY <2>3, <1>1, <1>5 DEF SleeperHears
<1>7. CASE handler[h].kind # "nothing"
  <2>1. channel' = Sent(channel, event)
    BY <1>5, <1>7 DEF Announce, Subscribed
  <2>2. event \in Events
    BY <1>1, <1>7, SequenceFacts DEF HandlerState, Events, Sequence
  <2>3. ChannelTyped
    BY SequenceFacts
  <2>4. Cardinality(StaleTellers') \in Nat
    <3>1. StaleTellers' \in SUBSET (Handler \cup {Own})
      BY <1>4 DEF StaleTellers
    <3>2. QED
      BY <1>1, <3>1, Counted
  <2>5. Len(channel') \in DOMAIN channel' /\ Len(channel') \in Nat
        /\ channel'[Len(channel')] = event
    BY <2>1, <2>2, <2>3, SentKeeps
  <2>6. CASE Wakes(event)
    <3>1. Cardinality(StaleTellers') + 1 <= Cardinality(Handler \cup {Own})
      <4>1. StaleTellers' \in SUBSET (Handler \cup {Own})
            /\ h \in (Handler \cup {Own}) \ StaleTellers'
        BY <1>4 DEF StaleTellers
      <4>2. QED
        BY <1>1, <4>1, FewerCounted
    <3>2. Cardinality(Handler \cup {Own}) <= Capacity /\ Cardinality(Handler \cup {Own}) \in Nat
      BY <1>1, Counted DEF FewRequests
    <3>3. Len(channel') - Len(channel') + Cardinality(StaleTellers') < Capacity
      BY <2>4, <2>5, <3>1, <3>2, ChannelAssumption
    <3>4. Wakes(channel[Len(channel)])'
      BY <1>1, <2>5, <2>6 DEF Wakes
    <3>5. QED
      BY <2>5, <3>3, <3>4 DEF OnItsWay, Wakes
  <2>7. CASE ~Wakes(event)
    <3>1. handler[h].kind = "operations" /\ ~(handler[h].seq > realtime.since)
      BY <1>1, <1>7, <2>7 DEF Wakes, HandlerState
    <3>2. handler[h].seq <= realtime.since
      <4>1. handler[h].seq \in Int /\ realtime.since \in Int
        BY <1>1, SequenceFacts DEF HandlerState, RealtimeState, Sequence
      <4>2. QED
        BY <3>1, <4>1
    <3>3. h \in StaleTellers /\ ~WillTell(h)
      BY <1>1, <3>1, <3>2 DEF StaleTellers, Stale, WillTell
    <3>4. Quiet
      BY <1>2, <1>5, <3>3 DEF Quiet
    <3>5. PICK i \in DOMAIN channel :
            Wakes(channel[i]) /\ Len(channel) - i + Cardinality(StaleTellers) < Capacity
      BY <1>5, <3>4 DEF SleeperHears, OnItsWay
    <3>6. /\ Cardinality(StaleTellers') + 1 <= Cardinality(StaleTellers)
          /\ Cardinality(StaleTellers) \in Nat
      <4>1. /\ StaleTellers \in SUBSET (Handler \cup {Own})
            /\ StaleTellers' \in SUBSET StaleTellers /\ h \in StaleTellers \ StaleTellers'
        BY <1>4, <3>3 DEF StaleTellers
      <4>2. QED
        BY <1>1, <4>1, Counted, FewerCounted
    <3>7. Len(channel) - i \in Int
      BY <2>3 DEF ChannelTyped
    <3>8. Len(channel) - i + 1 < Capacity
      BY <2>4, <3>5, <3>6, <3>7, ChannelAssumption
    <3>9. PICK j \in DOMAIN channel' :
            channel'[j] = channel[i] /\ Len(channel') - j = Len(channel) - i + 1
      BY <2>1, <2>2, <2>3, <3>8, SentKeeps
    <3>10. Len(channel') - j + Cardinality(StaleTellers') < Capacity
      BY <2>4, <3>5, <3>6, <3>7, <3>9, ChannelAssumption
    <3>11. Wakes(channel[j])'
      BY <1>1, <3>5, <3>9 DEF Wakes
    <3>12. QED
      BY <3>10, <3>11 DEF OnItsWay, Wakes
  <2>8. QED
    BY <2>6, <2>7
<1>8. QED
  BY <1>6, <1>7

LEMMA HandlerStepHears ==
  ASSUME FewRequests, Inductive, StoreIsRelay, SleeperHears,
         NEW h \in Handler \cup {Own}, HandlerStep(h) \/ RelayBytes(h)
  PROVE  SleeperHears'
<1> DEFINE q == handler'[h]
<1>1. /\ handler[h] \in HandlerState /\ handler \in [Handler \cup {Own} -> HandlerState]
      /\ IsFiniteSet(Handler) /\ UNCHANGED <<log, realtime, missed>>
      /\ Len(log) \in Int /\ realtime.since \in Int /\ handler[h].seq \in Int
  BY SequenceFacts DEF FewRequests, HandlerStep, ReadLatest, Remember, StoreForRelay, Announce,
     RelayBytes, HandlerState, RealtimeState, Sequence
<1>2. CASE Announce(h)
  BY <1>2, AnnounceHears
<1>3. CASE ReadLatest(h)
  <2>1. /\ handler' = [handler EXCEPT ![h] = q] /\ UNCHANGED channel
        /\ handler[h].at = "read" /\ q.at = "remember" /\ q.kind = handler[h].kind
        /\ q.seq = Len(log)
    BY <1>1, <1>3 DEF ReadLatest, Serve, HandlerState
  <2>2. CASE Len(log) > realtime.since
    <3>1. ~Stale(h)' /\ (~WillTell(h)' => ~WillTell(h))
      BY <1>1, <2>1, <2>2 DEF Stale, WillTell
    <3>2. QED
      BY <1>1, <2>1, <3>1, OneRequest
  <2>3. CASE ~(Len(log) > realtime.since)
    BY <1>1, <2>3 DEF SleeperHears
  <2>4. QED
    BY <2>2, <2>3
<1>4. CASE Remember(h)
  <2>1. /\ handler' = [handler EXCEPT ![h] = q] /\ UNCHANGED channel
        /\ handler[h].at = "remember" /\ q.at = "announce" /\ q.kind = handler[h].kind
        /\ q.seq = handler[h].seq
    BY <1>1, <1>4 DEF Remember, Serve, HandlerState
  <2>2. (Stale(h)' => Stale(h)) /\ (~WillTell(h)' => ~WillTell(h))
    BY <1>1, <2>1 DEF Stale, WillTell
  <2>3. QED
    BY <1>1, <2>1, <2>2, OneRequest
<1>5. CASE StoreForRelay(h)
  <2>1. /\ handler' = [handler EXCEPT ![h] = q] /\ UNCHANGED channel
        /\ handler[h].at = "store" /\ q.kind = handler[h].kind
    BY <1>1, <1>5 DEF StoreForRelay, Serve, HandlerState
  <2>2. q.kind = "attachment_blobs"
    BY <2>1 DEF StoreIsRelay
  <2>3. ~Stale(h)' /\ ~WillTell(h)
    BY <2>1, <2>2 DEF Stale, WillTell
  <2>4. QED
    BY <1>1, <2>1, <2>3, OneRequest
<1>6. CASE RelayBytes(h)
  <2>1. /\ handler' = [handler EXCEPT ![h] = q] /\ UNCHANGED channel
        /\ handler[h].at = "idle" /\ q.kind = "attachment_blobs"
    BY <1>1, <1>6 DEF RelayBytes
  <2>2. ~Stale(h)' /\ ~WillTell(h)
    BY <2>1 DEF Stale, WillTell
  <2>3. QED
    BY <1>1, <2>1, <2>2, OneRequest
<1>7. QED
  BY <1>2, <1>3, <1>4, <1>5, <1>6 DEF HandlerStep

(* A commit is a request that will tell, of this desktop or another.        *)
LEMMA CommitHears ==
  ASSUME Inductive, NEW h \in Handler \cup {Own}, NEW q,
         handler' = [handler EXCEPT ![h] = q], q.at = "read", q.kind = "operations"
  PROVE  SleeperHears'
<1>1. handler'[h].at = "read" /\ handler'[h].kind = "operations"
  BY SequenceFacts
<1>2. WillTell(h)'
  BY <1>1 DEF WillTell
<1>3. QED
  BY <1>2 DEF SleeperHears, Quiet

(* The wait, as it subscribes, as it passes an event over, and as it ends.  *)
LEMMA RealtimeStepHears ==
  ASSUME Inductive, SleeperHears, RealtimeStep
  PROVE  SleeperHears'
<1>1. CASE Subscribe
  <2>1. /\ missed' = (Len(log) > realtime.since /\ Quiet)
        /\ UNCHANGED <<log, handler>> /\ realtime'.since = realtime.since
    BY <1>1, SequenceFacts DEF Subscribe, Waits, RealtimeState
  <2>2. \A h \in Handler \cup {Own} : WillTell(h)' <=> WillTell(h)
    BY <2>1 DEF WillTell
  <2>3. QED
    BY <2>1, <2>2 DEF SleeperHears, Quiet
<1>2. CASE Receive
  <2>1. /\ channel # <<>> /\ channel' = Tail(channel)
        /\ UNCHANGED <<log, handler, missed>>
    BY <1>2 DEF Receive
  <2>2. CASE Wakes(Head(channel))
    <3>1. realtime'.at = "answered"
      BY <1>2, <2>2, SequenceFacts DEF Receive, Answers, RealtimeState
    <3>2. QED
      BY <3>1 DEF SleeperHears
  <2>3. CASE ~Wakes(Head(channel))
    <3>1. UNCHANGED realtime
      BY <1>2, <2>3 DEF Receive
    <3>2. \A h \in Handler \cup {Own} :
            (WillTell(h)' <=> WillTell(h)) /\ (Stale(h)' <=> Stale(h))
      BY <2>1, <3>1 DEF WillTell, Stale
    <3>3. (Quiet' <=> Quiet) /\ StaleTellers' = StaleTellers
      BY <3>2 DEF Quiet, StaleTellers
    <3>4. OnItsWay => OnItsWay'
      <4>1. SUFFICES ASSUME NEW i \in DOMAIN channel, Wakes(channel[i]),
                            Len(channel) - i + Cardinality(StaleTellers) < Capacity
                     PROVE  OnItsWay'
        BY DEF OnItsWay
      <4>2. /\ channel \in Seq(Events) /\ DOMAIN channel = 1..Len(channel)
            /\ Len(channel) \in Nat \ {0} /\ Head(channel) = channel[1]
        BY <2>1, SequenceFacts DEF ChannelTyped
      <4>3. i # 1
        BY <2>3, <4>1, <4>2
      <4>4. /\ i - 1 \in DOMAIN channel' /\ channel'[i - 1] = channel[i]
            /\ Len(channel') - (i - 1) = Len(channel) - i
        BY <2>1, <4>2, <4>3
      <4>5. Len(channel') - (i - 1) + Cardinality(StaleTellers') < Capacity
        BY <3>3, <4>1, <4>4
      <4>6. Wakes(channel[i - 1])'
        BY <3>1, <4>1, <4>4 DEF Wakes
      <4>7. QED
        BY <4>4, <4>5, <4>6 DEF OnItsWay, Wakes
    <3>5. QED
      BY <2>1, <3>1, <3>3, <3>4 DEF SleeperHears
  <2>4. QED
    BY <2>2, <2>3
<1>3. CASE AskForChange \/ Look \/ ReadDatabase \/ StoreLatest \/ Expire \/ HearAnswer \/ Resume
  <2>1. realtime'.at # "listen"
    <3>1. realtime \in RealtimeState
      BY SequenceFacts
    <3>2. CASE AskForChange \/ HearAnswer \/ Resume
      BY <3>1, <3>2 DEF AskForChange, HearAnswer, Resume, Waits, Loop, RealtimeState
    <3>3. CASE Look \/ Expire
      BY <3>1, <3>3 DEF Look, Expire, Waits, Answers, RealtimeState
    <3>4. CASE ReadDatabase
      BY <3>1, <3>4 DEF ReadDatabase, RealtimeState
    <3>5. CASE StoreLatest
      BY <3>1, <3>5 DEF StoreLatest, Waits, Answers, RealtimeState
    <3>6. QED
      BY <1>3, <3>2, <3>3, <3>4, <3>5
  <2>2. QED
    BY <2>1 DEF SleeperHears
<1>4. QED
  BY <1>1, <1>2, <1>3 DEF RealtimeStep

(* The session's push overwrites a request that is idle.                    *)
LEMMA PushOwnHears ==
  ASSUME FewRequests, Inductive, OwnIdle, SleeperHears, PushOwn
  PROVE  SleeperHears'
<1>1. /\ UNCHANGED <<channel, realtime, missed>> /\ handler[Own].at = "idle"
      /\ IsFiniteSet(Handler)
  BY DEF PushOwn, OwnIdle, FewRequests
<1>2. CASE pending = "none"
  <2>1. UNCHANGED <<log, handler>>
    BY <1>2 DEF PushOwn
  <2>2. StaleTellers' = StaleTellers /\ (Quiet' <=> Quiet)
    BY <1>1, <2>1 DEF StaleTellers, Stale, Quiet, WillTell
  <2>3. QED
    BY <1>1, <2>1, <2>2, HearsOn
<1>3. CASE pending = "new"
  <2> DEFINE q == [Idle EXCEPT !.at = "read", !.kind = "operations"]
  <2>1. handler' = [handler EXCEPT ![Own] = q]
    BY <1>3 DEF PushOwn
  <2>2. q.at = "read" /\ q.kind = "operations"
    BY DEF Idle
  <2>3. QED
    BY <2>1, <2>2, CommitHears
<1>4. CASE pending = "sent"
  <2> DEFINE q == [Idle EXCEPT !.at = "read", !.kind = "nothing"]
  <2>1. UNCHANGED log /\ handler' = [handler EXCEPT ![Own] = q]
    BY <1>4 DEF PushOwn
  <2>2. handler'[Own] = q /\ q.kind = "nothing"
    BY <2>1, SequenceFacts DEF Idle
  <2>3. ~Stale(Own)' /\ ~WillTell(Own)
    BY <1>1, <2>2 DEF Stale, WillTell
  <2>4. QED
    BY <1>1, <2>1, <2>3, OneRequest
<1>5. QED
  BY <1>2, <1>3, <1>4 DEF Inductive, Typed

LEMMA MarkPushedHears ==
  ASSUME FewRequests, Inductive, SleeperHears, MarkPushed
  PROVE  SleeperHears'
<1>1. /\ UNCHANGED <<log, channel, realtime, missed>> /\ handler[Own].at = "answered"
      /\ handler' = [handler EXCEPT ![Own] = Idle] /\ IsFiniteSet(Handler)
  BY DEF MarkPushed, FewRequests
<1>2. handler'[Own].at = "idle"
  BY <1>1, SequenceFacts DEF Idle
<1>3. ~Stale(Own)' /\ ~WillTell(Own)
  BY <1>1, <1>2 DEF Stale, WillTell
<1>4. QED
  BY <1>1, <1>3, OneRequest

(* A step that leaves server and wait alone, or ends the wait.              *)
LEMMA ElsewhereHears ==
  ASSUME FewRequests, Inductive, SleeperHears,
         \/ UNCHANGED <<log, handler, channel, realtime, missed>>
         \/ realtime'.at # "listen"
  PROVE  SleeperHears'
<1>1. CASE UNCHANGED <<log, handler, channel, realtime, missed>>
  <2>1. StaleTellers' = StaleTellers /\ (Quiet' <=> Quiet)
    BY <1>1 DEF StaleTellers, Stale, Quiet, WillTell
  <2>2. QED
    BY <1>1, <2>1, HearsOn DEF FewRequests
<1>2. CASE realtime'.at # "listen"
  BY <1>2 DEF SleeperHears
<1>3. QED
  BY <1>1, <1>2

LEMMA OtherStepHears ==
  ASSUME FewRequests, Inductive, SleeperHears,
         \/ PullRows \/ PullSequence \/ PullReadsDatabase \/ PullStoresLatest \/ Apply
         \/ BackgroundSync \/ UserSync \/ Edit \/ Toggle \/ SyncFails \/ WaitFails \/ Restart
  PROVE  SleeperHears'
<1>1. CASE PullRows \/ PullSequence \/ PullReadsDatabase \/ PullStoresLatest
  <2>1. UNCHANGED <<log, handler, channel, realtime, missed>>
    BY <1>1 DEF PullRows, PullSequence, PullReadsDatabase, PullStoresLatest, server
  <2>2. QED
    BY <2>1, ElsewhereHears
<1>2. CASE BackgroundSync \/ UserSync \/ Edit \/ Toggle
  <2>1. UNCHANGED <<log, handler, channel, realtime, missed>>
    BY <1>2 DEF BackgroundSync, UserSync, Edit, Toggle, server
  <2>2. QED
    BY <2>1, ElsewhereHears
<1>3. CASE Apply \/ SyncFails
  <2>1. UNCHANGED <<log, handler, channel, missed>> /\ Unlocked
    BY <1>3 DEF Apply, SyncFails, Fault, server
  <2>2. UNCHANGED realtime \/ realtime'.at = "top"
    BY <2>1 DEF Unlocked, Loop
  <2>3. QED
    BY <2>1, <2>2, ElsewhereHears
<1>4. CASE WaitFails \/ Restart
  <2>1. [Loop EXCEPT !.at = "pause"].at # "listen" /\ Loop.at # "listen"
    BY DEF Loop
  <2>2. realtime'.at # "listen"
    BY <1>4, <2>1 DEF WaitFails, Restart, AtServer
  <2>3. QED
    BY <2>2, ElsewhereHears
<1>5. QED
  BY <1>1, <1>2, <1>3, <1>4
-----------------------------------------------------------------------------
(* One push of this desktop at a time, and what waits to store is a relay   *)

LEMMA OneOwnPush ==
  ASSUME Inductive, OwnIdle, [Next]_vars
  PROVE  OwnIdle'
<1>1. SUFFICES ASSUME sync'.at # "pushing" PROVE handler'[Own].at = "idle"
  BY DEF OwnIdle
<1>2. handler \in [Handler \cup {Own} -> HandlerState] /\ sync \in SyncState
  BY SequenceFacts
<1>3. lock = None => handler[Own].at = "idle"
  BY DEF Inductive, LockIsSession, OwnIdle
<1>4. CASE UNCHANGED <<handler, sync>>
  BY <1>1, <1>4 DEF OwnIdle
<1>5. ASSUME NEW h \in Handler, Commit(h) \/ RelayBytes(h) PROVE handler'[Own].at = "idle"
  <2>1. UNCHANGED sync
    BY <1>5 DEF Commit, RelayBytes, desktop
  <2>2. handler'[Own] = handler[Own]
    BY <1>2, <1>5, HandlerAssumption DEF Commit, RelayBytes
  <2>3. QED
    BY <1>1, <2>1, <2>2 DEF OwnIdle
<1>6. ASSUME NEW h \in Handler \cup {Own}, HandlerStep(h) PROVE handler'[Own].at = "idle"
  <2>1. UNCHANGED sync /\ handler[h].at # "idle"
    BY <1>6 DEF HandlerStep, ReadLatest, Remember, StoreForRelay, Announce, desktop
  <2>2. h # Own
    BY <1>1, <2>1 DEF OwnIdle
  <2>3. handler'[Own] = handler[Own]
    BY <1>2, <1>6, <2>2 DEF HandlerStep, ReadLatest, Remember, StoreForRelay, Announce, Serve
  <2>4. QED
    BY <1>1, <2>1, <2>3 DEF OwnIdle
<1>7. CASE RealtimeStep
  <2>1. CASE HearAnswer
    BY <1>1, <1>3, <1>4, <2>1 DEF HearAnswer, server
  <2>2. CASE ~HearAnswer
    BY <1>4, <1>7, <2>2 DEF RealtimeStep, AskForChange, Look, ReadDatabase, StoreLatest,
       Subscribe, Receive, Expire, Resume, server, desktop
  <2>3. QED
    BY <2>1, <2>2
<1>8. CASE SyncStep
  <2>1. CASE PushOwn
    <3>1. pending = "none"
      BY <1>1, <1>2, <2>1 DEF PushOwn, SyncState
    <3>2. UNCHANGED handler /\ sync.at = "push"
      BY <2>1, <3>1 DEF PushOwn
    <3>3. QED
      BY <3>2 DEF OwnIdle
  <2>2. CASE MarkPushed
    BY <1>2, <2>2 DEF MarkPushed, Idle
  <2>3. CASE ~PushOwn /\ ~MarkPushed
    BY <1>8, <2>3 DEF SyncStep, PullRows, PullSequence, PullReadsDatabase, PullStoresLatest,
       Apply, server, OwnIdle
  <2>4. QED
    BY <2>1, <2>2, <2>3
<1>9. CASE BackgroundSync \/ UserSync \/ SyncFails
  BY <1>3, <1>9 DEF BackgroundSync, UserSync, SyncFails, server, OwnIdle
<1>10. CASE Edit \/ Toggle \/ WaitFails
  BY <1>4, <1>10 DEF Edit, Toggle, WaitFails, server, desktop
<1>11. CASE Restart
  BY <1>11 DEF Restart, Idle
<1>12. QED
  BY <1>4, <1>5, <1>6, <1>7, <1>8, <1>9, <1>10, <1>11 DEF Next, vars, server, desktop

LEMMA OnlyRelaysStore ==
  ASSUME Inductive, StoreIsRelay, [Next]_vars
  PROVE  StoreIsRelay'
<1>1. handler \in [Handler \cup {Own} -> HandlerState]
  BY SequenceFacts
<1>2. CASE UNCHANGED handler
  BY <1>2 DEF StoreIsRelay
<1>3. ASSUME NEW h \in Handler \cup {Own}, NEW q, handler' = [handler EXCEPT ![h] = q],
             q.at = "store" => q.kind = "attachment_blobs"
      PROVE  StoreIsRelay'
  BY <1>1, <1>3 DEF StoreIsRelay
<1>4. ASSUME NEW h \in Handler, Commit(h) \/ RelayBytes(h) PROVE StoreIsRelay'
  <2>1. CASE Commit(h)
    BY <1>1, <2>1 DEF Commit, Idle, StoreIsRelay
  <2>2. CASE RelayBytes(h)
    BY <1>1, <2>2 DEF RelayBytes, StoreIsRelay
  <2>3. QED
    BY <1>4, <2>1, <2>2
<1>5. ASSUME NEW h \in Handler \cup {Own}, HandlerStep(h) PROVE StoreIsRelay'
  <2>1. CASE Announce(h) /\ h # Own
    BY <1>1, <2>1 DEF Announce, Idle, StoreIsRelay
  <2>2. CASE ~(Announce(h) /\ h # Own)
    <3>1. PICK at \in {"remember", "announce", "answered"} : \E s : Serve(h, at, s)
      BY <1>5, <2>2 DEF HandlerStep, ReadLatest, Remember, StoreForRelay, Announce
    <3>2. PICK s : Serve(h, at, s)
      BY <3>1
    <3>3. QED
      BY <1>1, <3>2 DEF Serve, StoreIsRelay, HandlerState
  <2>3. QED
    BY <2>1, <2>2
<1>6. CASE PushOwn
  <2>1. CASE pending = "none"
    BY <1>2, <1>6, <2>1 DEF PushOwn
  <2>2. CASE pending # "none"
    BY <1>1, <1>6, <2>2 DEF PushOwn, Idle, StoreIsRelay
  <2>3. QED
    BY <2>1, <2>2
<1>7. CASE MarkPushed \/ Restart
  BY <1>1, <1>7 DEF MarkPushed, Restart, Idle, StoreIsRelay
<1>8. CASE RealtimeStep
  BY <1>2, <1>8 DEF RealtimeStep, AskForChange, Look, ReadDatabase, StoreLatest,
     Subscribe, Receive, Expire, HearAnswer, Resume, server
<1>9. CASE SyncStep /\ ~PushOwn /\ ~MarkPushed
  BY <1>2, <1>9 DEF SyncStep, PullRows, PullSequence, PullReadsDatabase, PullStoresLatest,
     Apply, server
<1>10. CASE BackgroundSync \/ UserSync \/ SyncFails \/ Edit \/ Toggle \/ WaitFails
  BY <1>2, <1>10 DEF BackgroundSync, UserSync, SyncFails, Edit, Toggle, WaitFails, server
<1>11. QED
  BY <1>2, <1>4, <1>5, <1>6, <1>7, <1>8, <1>9, <1>10 DEF Next, vars, server, SyncStep
-----------------------------------------------------------------------------
(* Together: no event a wait listens for is lost between two handlers.      *)
THEOREM HearingInvariant ==
  ASSUME FewRequests
  PROVE  Spec => []Hearing
<1>1. Init => OwnIdle /\ StoreIsRelay /\ SleeperHears
  BY DEF Init, OwnIdle, StoreIsRelay, SleeperHears, Idle, Loop
<1>2. Inductive /\ Inductive' /\ Hearing /\ [Next]_vars => Hearing'
  <2> SUFFICES ASSUME Inductive, Inductive', Hearing, [Next]_vars PROVE Hearing'
    OBVIOUS
  <2>1. OwnIdle' /\ StoreIsRelay'
    BY OneOwnPush, OnlyRelaysStore DEF Hearing
  <2>2. OwnIdle /\ StoreIsRelay /\ SleeperHears
    BY DEF Hearing
  <2>3. SleeperHears'
    <3>1. CASE UNCHANGED vars
      BY <2>2, <3>1, ElsewhereHears DEF vars, server
    <3>2. ASSUME NEW h \in Handler, Commit(h) PROVE SleeperHears'
      <4> DEFINE q == [Idle EXCEPT !.at = "read"]
      <4>1. handler' = [handler EXCEPT ![h] = q] /\ q.at = "read" /\ q.kind = "operations"
        BY <3>2 DEF Commit, Idle
      <4>2. QED
        BY <4>1, CommitHears
    <3>3. ASSUME NEW h \in Handler \cup {Own}, HandlerStep(h) \/ RelayBytes(h)
          PROVE  SleeperHears'
      BY <2>2, <3>3, HandlerStepHears
    <3>4. CASE RealtimeStep
      BY <2>2, <3>4, RealtimeStepHears
    <3>5. CASE PushOwn \/ MarkPushed
      BY <2>2, <3>5, PushOwnHears, MarkPushedHears
    <3>6. CASE \/ PullRows \/ PullSequence \/ PullReadsDatabase \/ PullStoresLatest \/ Apply
               \/ BackgroundSync \/ UserSync \/ Edit \/ Toggle \/ SyncFails \/ WaitFails
               \/ Restart
      BY <2>2, <3>6, OtherStepHears
    <3>7. QED
      BY <3>1, <3>2, <3>3, <3>4, <3>5, <3>6 DEF Next, SyncStep
  <2>4. QED
    BY <2>1, <2>3 DEF Hearing
<1>3. Init => Hearing
  BY <1>1, InitInductive DEF Hearing
<1>4. QED
  BY <1>2, <1>3, InductiveInvariant, PTL DEF Spec

(* With no more requests at a time than the channel keeps events, a wait    *)
(* that sleeps although there is something to tell has an event on its way  *)
(* or a request at work that will send one: what others announce, in        *)
(* whatever order, never pushes it out.                                     *)
THEOREM SleepersHear ==
  ASSUME IsFiniteSet(Handler), Cardinality(Handler \cup {Own}) <= Capacity
  PROVE  Spec => []SleeperWillHear
<1>1. FewRequests
  BY DEF FewRequests
<1>2. Hearing => SleeperWillHear
  BY DEF Hearing, SleeperHears, SleeperWillHear, OnItsWay
<1>3. QED
  BY <1>1, <1>2, HearingInvariant, PTL
=============================================================================
