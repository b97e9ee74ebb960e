--------------------------- MODULE MCFenceTrack ---------------------------
(* Small instances of FenceTrack: fence f has a dwell rule, g has none. *)
EXTENDS FenceTrack

MCThreshold == [x \in Fences |-> IF x = "f" THEN 2 ELSE 0]
MCGate == [x \in Fences |-> 1]
MCSpeeds == {-1, 1, 2}
=============================================================================
