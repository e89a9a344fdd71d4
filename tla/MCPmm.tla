------------------------------- MODULE MCPmm -------------------------------
(* Instances of Pmm for TLC: a machine of eight frames of two bytes each,  *)
(* the lowest below the policy minimum, and a FIFO of two entries.         *)
EXTENDS Pmm

R(start, count) == [start_frame |-> start, frame_count |-> count]

M(ranges, eligible) == [ranges |-> ranges, eligible_frames |-> eligible]

(* Maps as firmware usually reports them: ascending, gaps, adjacency, none.*)
AscendingMaps ==
    {M(<<>>, 0),
     M(<<R(1, 1)>>, 1),
     M(<<R(2, 3)>>, 3),
     M(<<R(1, 1), R(2, 1), R(6, 1)>>, 3),
     M(<<R(1, 2), R(5, 2)>>, 4)}

(* Maps out of order, overlapping, and one whose table dropped two frames. *)
IrregularMaps ==
    {M(<<R(4, 2), R(1, 2)>>, 4),
     M(<<R(1, 3), R(2, 3)>>, 6),
     M(<<R(1, 2)>>, 4)}

AllMaps == AscendingMaps \cup IrregularMaps

ASSUME \A m \in AscendingMaps : Ascending(m)
=============================================================================
