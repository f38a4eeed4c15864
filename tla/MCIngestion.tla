---------------------------- MODULE MCIngestion ----------------------------
(***************************************************************************)
(* Instances of Ingestion for TLC: three requests for two vehicles, with   *)
(* three timestamps.                                                       *)
(***************************************************************************)
EXTENDS Ingestion, TLC

CONSTANTS r1, r2, r3, v1, v2

MCRequest   == {r1, r2, r3}
MCVehicle   == {v1, v2}
MCTimestamp == 1..3
MCSymmetry  == Permutations(MCRequest) \cup Permutations(MCVehicle)
============================================================================
