--------------------------- MODULE MCMemoryStack ---------------------------
(* Pages of 4 bytes and 3 entries per table: a heap window of three pages, *)
(* a mapping window of three, frames 0 .. 11 below "4 GiB" and 12 .. 15    *)
(* above it.  Frame maps: too few frames, and low frames next to high ones.*)
EXTENDS MemoryStack

R(start, count) == [start_frame |-> start, frame_count |-> count]

TwoMaps ==
    {[ranges |-> <<R(5, 2)>>, eligible_frames |-> 2],
     [ranges |-> <<R(6, 1), R(11, 3)>>, eligible_frames |-> 4]}

TablePages == [s \in 0 .. 1 |-> 4 + 4 * s]

HeapAndCallerPages == {12, 16, 20, 24}

LowFrameAddresses == {4 * f : f \in 5 .. 11}

(* The payloads of all blocks, and the interior of the first.              *)
BlockPointers == {14, 16, 18, 22}
=============================================================================
