---------------------------- MODULE MCSyncSystem ----------------------------
(* Values for the constants of SyncSystem.                                 *)
EXTENDS SyncSystem, TLC

CONSTANTS body, m1, m2

Both == {"save", "delete"}
TextOfEdit(n) == [f \in Field |-> n]
Saves == {"save"}
=============================================================================
