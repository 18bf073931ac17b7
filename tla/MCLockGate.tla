----------------------------- MODULE MCLockGate -----------------------------
(* Values for TLC: a rotation that drops a zone on the second day, so that *)
(* a zone can be in one day's list and not in the other's.                 *)
EXTENDS LockGate, TLC

CONSTANTS desk, sink

MCZones == {desk, sink}
MCRotation ==
  [d \in 1 .. MaxDay |-> IF d = 1 THEN <<desk, sink>> ELSE <<sink>>]
MCOneZone == {sink}
MCOneZoneRotation == [d \in 1 .. MaxDay |-> <<sink>>]
MCFreeDays == {}
=============================================================================
