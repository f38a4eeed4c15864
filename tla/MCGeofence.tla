----------------------------- MODULE MCGeofence -----------------------------
(***************************************************************************)
(* Instances of Geofence for TLC.                                          *)
(***************************************************************************)
EXTENDS Geofence, TLC

CONSTANTS v1, v2, p1, p2, p3

MCSymmetry == Permutations(Vehicle) \cup Permutations(Ping)
=============================================================================
