----------------------------- MODULE MCStreamHub -----------------------------
(***************************************************************************)
(* Instances of StreamHub for TLC.                                         *)
(***************************************************************************)
EXTENDS StreamHub, TLC

CONSTANTS r1, r2, k1, k2, room1, room2, m1, m2, c1, c2, c3

MCSymmetry == Permutations(Replica) \cup Permutations(Key \ SharedKeys) \cup Permutations(Room)
                \cup Permutations(Message) \cup Permutations(Conn)
=============================================================================
