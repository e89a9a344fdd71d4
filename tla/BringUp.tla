------------------------------ MODULE BringUp ------------------------------
(***************************************************************************)
(* From the loader's memory map to the frames that callers use: BootInfo   *)
(* writes g_stage5c_frames, and when it is done stage0_main goes on with   *)
(* the frame allocator of Pmm, which hands out what it finds there.  The   *)
(* table is the only thing they share.  FrameMaps plays no part here: the  *)
(* tables are those Stage 5C makes.                                        *)
(***************************************************************************)
EXTENDS BootInfo, Pmm

allocator_vars == <<pmm, pending, held, last_alloc>>

parser_vars == <<phase, parse, totals, memory, i, seen, outside, wrapped>>

bringup_vars == <<parser_vars, frames, allocator_vars>>

BringUpInit == Init /\ PmmReset

(* Stages 5A to 5C.                                                        *)
Prepare == Step /\ UNCHANGED allocator_vars

(* stage0_main calls nothing of the allocator before Stage 5C is done.     *)
Allocate == phase = "done" /\ PmmNext /\ UNCHANGED parser_vars

(* After a panic nothing happens; and a behaviour is followed for at most  *)
(* MAX_READS entries.                                                      *)
BringUpStops ==
    /\ phase = "panic" \/ (phase = "entries" /\ Len(seen) = MAX_READS)
    /\ UNCHANGED bringup_vars

BringUpNext == Prepare \/ Allocate \/ BringUpStops

BringUpSpec == BringUpInit /\ [][BringUpNext]_bringup_vars

-----------------------------------------------------------------------------
(* Whatever the loader's map says, a frame that was handed out, or given   *)
(* back, lies wholly in memory that the map reports as available, above    *)
(* the policy minimum, and holds no byte of the kernel image.              *)
IssuedFramesUsable == \A x \in held \cup PendingFrames : UsableFrame(x)

NothingDropped == memory.dropped_regions = 0 /\ frames.dropped_ranges = 0

(* With a map in address order that fits the tables, no usable memory is   *)
(* lost on the way: stage6b_pmm_alloc_frame fails only when every usable   *)
(* frame of the map is held by a caller.                                   *)
FailsOnlyWhenAllHeld ==
    [][phase = "done" /\ stage6b_pmm_alloc_frame /\ last_alloc' = NoFrame
       /\ MapAscending /\ NothingDropped =>
            \A x \in 0 .. MAX_FRAME : UsableFrame(x) => x \in held]_bringup_vars

(* ... and stage6b_pmm_get_remaining_frames is the number of usable frames *)
(* of the map that no caller holds.                                        *)
RemainingIsUsable ==
    phase = "done" /\ pmm.is_initialized = 1 /\ MapAscending /\ NothingDropped =>
        pmm.remaining_frame_count
            = Cardinality({x \in 0 .. MAX_FRAME : UsableFrame(x) /\ x \notin held})
=============================================================================
