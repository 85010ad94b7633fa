------------------------------ MODULE Versions ------------------------------
(***************************************************************************)
(* The version every synchronised entity carries, and the order in which   *)
(* competing writes to one entity are decided: the higher hybrid logical   *)
(* clock wins, then the greater device id.  The same comparison is written *)
(* three times in the code (document merge, server projection, desktop     *)
(* store); it is stated once here.                                         *)
(***************************************************************************)
EXTENDS Naturals

CONSTANT Device     \* device ids, numbered in the order their strings sort

ASSUME DeviceAssumption == Device \subseteq Nat \ {0}

MaxCounter == 65535 \* counter is a u16

(* A hybrid logical clock together with the device that issued it. *)
Stamp == [wall: Nat, counter: 0..MaxCounter, device: Device]

(* impl Ord for HybridLogicalClock: (wall_time_ms, counter) in that order. *)
HlcLess(a, b) ==
  \/ a.wall < b.wall
  \/ a.wall = b.wall /\ a.counter < b.counter

HlcEqual(a, b) == a.wall = b.wall /\ a.counter = b.counter

(* Does a write stamped new replace a value stamped old?  An equal stamp   *)
(* does not: that is what makes a redelivered operation harmless.          *)
Wins(new, old) ==
  \/ HlcLess(old, new)
  \/ HlcEqual(old, new) /\ new.device > old.device
=============================================================================
