---------------------------- MODULE OperationLog ----------------------------
(***************************************************************************)
(* What the sync server promises, whatever its handlers do side by side.   *)
(* Accepted operations get ever higher sequence numbers and are never      *)
(* taken back; all of them after a horizon can be pulled; the horizon only *)
(* moves forward and never passes the newest operation; and the projection *)
(* of an entity only ever moves to a newer version, that of an operation   *)
(* accepted in the same step.                                              *)
(***************************************************************************)
EXTENDS Projection, Integers

VARIABLES
  committed,   \* every operation ever accepted, as rows [seq, op]
  pullable,    \* those that pull can still return
  horizon,     \* min_available_sequence
  version      \* the version each entity is projected at, or NoRow

logVars == <<committed, pullable, horizon, version>>

LogInit ==
  /\ committed = {} /\ pullable = {} /\ horizon = 0
  /\ version = [e \in Entity |-> NoRow]

Advances(e, added) ==
  \/ version'[e] = version[e]
  \/ \E r \in added :
       /\ r.op.entity = e /\ version'[e] = r.op.stamp
       /\ version[e] = NoRow \/ Wins(version'[e], version[e])

(* A push commits: all of its new operations at once, or none of them.     *)
Append ==
  LET added == committed' \ committed
  IN /\ committed \subseteq committed'
     /\ \A new \in added, old \in committed : old.seq < new.seq
     /\ \A new \in added, old \in pullable : old.op.id # new.op.id
     /\ pullable' = pullable \cup added
     /\ \A e \in Entity : Advances(e, added)
     /\ UNCHANGED horizon

(* A compaction.                                                           *)
Truncate ==
  /\ horizon' > horizon
  /\ \E r \in committed : horizon' < r.seq
  /\ pullable' = {r \in pullable : r.seq > horizon'}
  /\ UNCHANGED <<committed, version>>

LogSpec == LogInit /\ [][Append \/ Truncate]_logVars
=============================================================================
