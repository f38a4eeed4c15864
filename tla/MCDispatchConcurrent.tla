------------------------ MODULE MCDispatchConcurrent ------------------------
(***************************************************************************)
(* Instances of DispatchConcurrent for TLC: one slot for the refinement,   *)
(* two slots for the interleavings.                                        *)
(***************************************************************************)
EXTENDS DispatchConcurrent, TLC

CONSTANTS d1, d2, v1, v2, l1, l2, a1, a2, r1, r2

MCDriver     == {d1, d2}
MCVehicle    == {v1, v2}
MCOneDriver  == {d1}
MCOneVehicle == {v1}
MCDelivery   == {l1, l2}
MCAssignment == {a1, a2}
MCOneSlot    == {r1}
MCTwoSlots   == {r1, r2}
MCSymmetry   == Permutations(MCDelivery) \cup Permutations(MCAssignment)
                   \cup Permutations(MCTwoSlots)
=============================================================================
