----------------------------- MODULE MCDispatch -----------------------------
(***************************************************************************)
(* Instances of DispatchHistory for TLC.  The four kinds of ids are        *)
(* symmetric.                                                              *)
(***************************************************************************)
EXTENDS DispatchHistory, TLC

CONSTANTS d1, d2, v1, v2, l1, l2, a1, a2

MCDriver     == {d1, d2}
MCVehicle    == {v1, v2}
MCDelivery   == {l1, l2}
MCAssignment == {a1, a2}
MCSymmetry   == Permutations(MCDriver) \cup Permutations(MCVehicle)
                   \cup Permutations(MCDelivery) \cup Permutations(MCAssignment)
=============================================================================
