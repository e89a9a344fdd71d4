-------------------------------- MODULE Pmm --------------------------------
(***************************************************************************)
(* The physical frame allocator of kernel/init/stage0_main.c (Stages 6A to *)
(* 6D): a cursor that walks the eligible ranges found by Stage 5C and hands*)
(* out each frame once, and a bounded FIFO of frames given back, which     *)
(* allocation prefers to fresh frames.                                     *)
(*                                                                         *)
(* Frames are numbers, physical addresses are frame * FRAME_SIZE + offset. *)
(* C indexes the range table from 0; RangeAt(i) reads entry i.             *)
(***************************************************************************)
EXTENDS FrameTable

CONSTANTS
    FrameMaps,         \* the results of Stage 5C that the system may boot with
    MAX_PENDING_FREE   \* STAGE6C_MAX_PENDING_FREE

(* UINT64_MAX >> STAGE5C_FRAME_SHIFT.                                      *)
MAX_FRAME == UINT64_MAX \div FRAME_SIZE

FrameRange == [start_frame : Nat, frame_count : Nat]

MapFrames(m) ==
    UNION {m.ranges[i].start_frame .. m.ranges[i].start_frame + m.ranges[i].frame_count - 1 :
            i \in 1 .. Len(m.ranges)}

(***************************************************************************)
(* What Stage 5C leaves: each range comes from the 64-bit addresses of a   *)
(* region that does not wrap, so its end, as a frame number, is at most    *)
(* MAX_FRAME; only ranges that have frames are recorded, and all, recorded *)
(* or not, are added to the total (ReadyForPmm in BootInfo).               *)
(***************************************************************************)
ValidTable(m) ==
    /\ m.ranges \in Seq(FrameRange)
    /\ m.eligible_frames \in Word
    /\ \A i \in 1 .. Len(m.ranges) :
            /\ m.ranges[i].start_frame + m.ranges[i].frame_count <= MAX_FRAME
            /\ m.ranges[i].frame_count \in 1 .. m.eligible_frames
    /\ Cardinality(MapFrames(m)) <= m.eligible_frames

ASSUME PmmAssumption ==
    /\ FRAME_SIZE \in Nat \ {0}
    /\ FRAME_SIZE <= UINT64_MAX
    /\ POLICY_MIN_ADDR \in Nat
    /\ MAX_PENDING_FREE \in Word

ASSUME FrameMapsAssumption == \A m \in FrameMaps : ValidTable(m)

VARIABLES
    pmm,         \* g_stage6a_pmm
    pending,     \* g_stage6c_pending_free_frames[0 .. count-1]
    held,        \* history: frames issued and not (yet) accepted back
    last_alloc   \* history: the frame the last call returned, or NoFrame

pmm_vars == <<frames, pmm, pending, held, last_alloc>>

NoFrame == -1

PmmState == [is_initialized : 0 .. 1,
             range_index : Nat,
             next_frame_index : Nat,
             remaining_frame_count : Word,
             allocation_count : Word]

RangeCount == Len(frames.ranges)

RangeAt(i) == frames.ranges[i + 1]

RangeEnd(i) ==
    IF checked_add_overflows(RangeAt(i).start_frame, RangeAt(i).frame_count)
        THEN UINT64_MAX
        ELSE RangeAt(i).start_frame + RangeAt(i).frame_count

-----------------------------------------------------------------------------
(***************************************************************************)
(* stage6a_pmm_advance_to_next_eligible.  From cursor (range_index, next)  *)
(* the loop passes every range with no frame at or after next and stops at *)
(* the first other one, or at the end of the table.  Moving next up to a   *)
(* range's start always makes the loop stop there, so a range that is      *)
(* passed leaves next alone.  The set has exactly one member.              *)
(***************************************************************************)
HasFrameAtOrAfter(i, next) ==
    /\ RangeAt(i).frame_count # 0
    /\ next < RangeEnd(i)

(* Faulty variant: the cursor is left below the start of its new range.    *)
AtLeastStartForgotten(i, next) == next

AtLeastStart(i, next) ==
    IF i < RangeCount /\ next < RangeAt(i).start_frame
        THEN RangeAt(i).start_frame
        ELSE next

stage6a_pmm_advance_to_next_eligible(s) ==
    LET stops == {i \in s.range_index .. RangeCount :
                    /\ \A j \in s.range_index .. i - 1 :
                            ~ HasFrameAtOrAfter(j, s.next_frame_index)
                    /\ i < RangeCount =>
                            HasFrameAtOrAfter(i, s.next_frame_index)}
    IN  {[s EXCEPT !.range_index = i,
                   !.next_frame_index = AtLeastStart(i, s.next_frame_index)] :
            i \in stops}

stage6a_pmm_reset_state ==
    [is_initialized |-> 0, range_index |-> 0, next_frame_index |-> 0,
     remaining_frame_count |-> 0, allocation_count |-> 0]

(* stage6a_pmm_seed_from_stage5c: reset, take over the Stage 5C total, and *)
(* put the cursor on the first range when there is one.                    *)
SeedState(next) ==
    [is_initialized |-> 1, range_index |-> 0, next_frame_index |-> next,
     remaining_frame_count |-> frames.eligible_frames, allocation_count |-> 0]

stage6a_pmm_seed_from_stage5c ==
    IF RangeCount = 0 \/ frames.eligible_frames = 0
        THEN {SeedState(0)}
        ELSE stage6a_pmm_advance_to_next_eligible(
                SeedState(RangeAt(0).start_frame))

-----------------------------------------------------------------------------
(* The allocator's globals are zero before the boot seeds it.              *)
PmmReset ==
    /\ pmm = stage6a_pmm_reset_state
    /\ pending = <<>>
    /\ held = {}
    /\ last_alloc = NoFrame

PmmInit == frames \in FrameMaps /\ PmmReset

(* stage5d_run_boot_allocation_test seeds the allocator before the first   *)
(* allocation of the boot; its allocations are calls like any other.       *)
BootSeed ==
    /\ pmm.is_initialized = 0
    /\ pmm' \in stage6a_pmm_seed_from_stage5c
    /\ last_alloc' = NoFrame
    /\ UNCHANGED <<frames, pending, held>>

(* stage6d_pmm_try_allocate_reused_frame pops the head of the FIFO when    *)
(* the budget is not exhausted, and drops a head that is no address.       *)
PopsPending == pmm.remaining_frame_count # 0 /\ pending # <<>>

ReuseSucceeds == PopsPending /\ Head(pending) <= MAX_FRAME

(* Faulty variant: an allocation does not spend the budget.                *)
SpendNothing(s) == [s EXCEPT !.allocation_count = add_clamp_u64(@, 1)]

SpendOne(s) ==
    [s EXCEPT !.remaining_frame_count = @ - 1,
              !.allocation_count = add_clamp_u64(@, 1)]

(* Faulty variants: the head is issued but stays in the FIFO, and the      *)
(* frame freed last is issued first.                                       *)
ReuseWithoutPop ==
    /\ ReuseSucceeds
    /\ pmm' = SpendOne(pmm)
    /\ held' = held \cup {Head(pending)}
    /\ last_alloc' = Head(pending)
    /\ UNCHANGED <<frames, pending>>

ReuseLastFreed ==
    /\ ReuseSucceeds
    /\ pending' = SubSeq(pending, 1, Len(pending) - 1)
    /\ pmm' = SpendOne(pmm)
    /\ held' = held \cup {pending[Len(pending)]}
    /\ last_alloc' = pending[Len(pending)]
    /\ UNCHANGED frames

stage6d_pmm_try_allocate_reused_frame ==
    /\ ReuseSucceeds
    /\ pending' = Tail(pending)
    /\ pmm' = SpendOne(pmm)
    /\ held' = held \cup {Head(pending)}
    /\ last_alloc' = Head(pending)
    /\ UNCHANGED frames

(* The first test of stage6a_pmm_try_allocate_frame, an allocator that was *)
(* never seeded is seeded now.                                             *)
Seeded ==
    IF pmm.is_initialized = 0 THEN stage6a_pmm_seed_from_stage5c ELSE {pmm}

AllocFails ==
    /\ held' = held
    /\ last_alloc' = NoFrame

(* stage6a_pmm_try_allocate_frame with no budget left.                     *)
AllocExhausted ==
    /\ ~ ReuseSucceeds
    /\ \E s \in Seeded :
            /\ s.remaining_frame_count = 0
            /\ pmm' = s
    /\ pending' = IF PopsPending THEN Tail(pending) ELSE pending
    /\ AllocFails
    /\ UNCHANGED frames

(* ... with budget left and every range passed: the moved cursor persists. *)
AllocNoRange ==
    /\ ~ ReuseSucceeds
    /\ \E s0 \in Seeded :
            /\ s0.remaining_frame_count # 0
            /\ \E s \in stage6a_pmm_advance_to_next_eligible(s0) :
                    /\ s.range_index >= RangeCount
                    /\ pmm' = s
    /\ pending' = IF PopsPending THEN Tail(pending) ELSE pending
    /\ AllocFails
    /\ UNCHANGED frames

(* ... and the frame under the cursor: it is consumed even when it is too  *)
(* high to have an address, in which case nothing is issued.               *)
AllocFresh ==
    /\ ~ ReuseSucceeds
    /\ \E s0 \in Seeded :
            /\ s0.remaining_frame_count # 0
            /\ \E s \in stage6a_pmm_advance_to_next_eligible(s0) :
                    /\ s.range_index < RangeCount
                    /\ pmm' = SpendOne([s EXCEPT !.next_frame_index = @ + 1])
                    /\ IF s.next_frame_index > MAX_FRAME
                        THEN AllocFails
                        ELSE /\ held' = held \cup {s.next_frame_index}
                             /\ last_alloc' = s.next_frame_index
    /\ pending' = IF PopsPending THEN Tail(pending) ELSE pending
    /\ UNCHANGED frames

stage6b_pmm_alloc_frame ==
    \/ stage6d_pmm_try_allocate_reused_frame
    \/ AllocFresh
    \/ AllocNoRange
    \/ AllocExhausted

-----------------------------------------------------------------------------
(* stage6d_pmm_find_frame_range: the ranges that contain a frame; the code *)
(* takes the first.                                                        *)
InRange(f, i) ==
    /\ RangeAt(i).frame_count # 0
    /\ f >= RangeAt(i).start_frame
    /\ f < RangeEnd(i)

stage6d_pmm_find_frame_range(f, i) ==
    /\ i \in 0 .. RangeCount - 1
    /\ InRange(f, i)
    /\ \A j \in 0 .. i - 1 : ~ InRange(f, j)

stage6c_is_eligible_frame(f) == \E i \in 0 .. RangeCount - 1 : InRange(f, i)

(* Faulty variant: the frame under the cursor counts as issued.            *)
WasIssuedInclusive(f) ==
    /\ pmm.is_initialized # 0
    /\ \E i \in 0 .. RangeCount - 1 :
            /\ stage6d_pmm_find_frame_range(f, i)
            /\ \/ pmm.range_index >= RangeCount
               \/ i < pmm.range_index
               \/ i = pmm.range_index /\ f <= pmm.next_frame_index

stage6d_pmm_was_frame_issued(f) ==
    /\ pmm.is_initialized # 0
    /\ \E i \in 0 .. RangeCount - 1 :
            /\ stage6d_pmm_find_frame_range(f, i)
            /\ \/ pmm.range_index >= RangeCount
               \/ i < pmm.range_index
               \/ i = pmm.range_index /\ f < pmm.next_frame_index

PendingFrames == {pending[i] : i \in 1 .. Len(pending)}

(* Faulty variants of FreeAccepted: the capacity test off by one, and no   *)
(* search of the FIFO.                                                     *)
FreeAcceptedOneTooMany(phys_addr) ==
    LET frame == phys_addr \div FRAME_SIZE
    IN  /\ phys_addr % FRAME_SIZE = 0
        /\ phys_addr >= POLICY_MIN_ADDR
        /\ stage6c_is_eligible_frame(frame)
        /\ stage6d_pmm_was_frame_issued(frame)
        /\ frame \notin PendingFrames
        /\ Len(pending) <= MAX_PENDING_FREE

FreeAcceptedTwice(phys_addr) ==
    LET frame == phys_addr \div FRAME_SIZE
    IN  /\ phys_addr % FRAME_SIZE = 0
        /\ phys_addr >= POLICY_MIN_ADDR
        /\ stage6c_is_eligible_frame(frame)
        /\ stage6d_pmm_was_frame_issued(frame)
        /\ Len(pending) < MAX_PENDING_FREE

(* The checks of stage6c_pmm_free_frame, all of which must pass.           *)
FreeAccepted(phys_addr) ==
    LET frame == phys_addr \div FRAME_SIZE
    IN  /\ phys_addr % FRAME_SIZE = 0
        /\ phys_addr >= POLICY_MIN_ADDR
        /\ stage6c_is_eligible_frame(frame)
        /\ stage6d_pmm_was_frame_issued(frame)
        /\ frame \notin PendingFrames
        /\ Len(pending) < MAX_PENDING_FREE

(* Faulty variant: an accepted free does not give the budget back.         *)
FreeWithoutCredit(phys_addr) ==
    /\ FreeAccepted(phys_addr)
    /\ pending' = Append(pending, phys_addr \div FRAME_SIZE)
    /\ held' = held \ {phys_addr \div FRAME_SIZE}
    /\ last_alloc' = NoFrame
    /\ UNCHANGED <<frames, pmm>>

stage6c_pmm_free_frame(phys_addr) ==
    /\ FreeAccepted(phys_addr)
    /\ pending' = Append(pending, phys_addr \div FRAME_SIZE)
    /\ pmm' = [pmm EXCEPT !.remaining_frame_count = add_clamp_u64(@, 1)]
    /\ held' = held \ {phys_addr \div FRAME_SIZE}
    /\ last_alloc' = NoFrame
    /\ UNCHANGED frames

FreeRejected(phys_addr) ==
    /\ ~ FreeAccepted(phys_addr)
    /\ last_alloc' = NoFrame
    /\ UNCHANGED <<frames, pmm, pending, held>>

PmmNext ==
    \/ BootSeed
    \/ stage6b_pmm_alloc_frame
    \/ \E a \in Word : stage6c_pmm_free_frame(a) \/ FreeRejected(a)

PmmSpec == PmmInit /\ [][PmmNext]_pmm_vars

-----------------------------------------------------------------------------
(* The maps under which the cursor scheme is exact: the ranges that have   *)
(* frames come in address order and do not overlap, and start at or above  *)
(* the policy minimum.                                                     *)
Ascending(m) ==
    /\ \A i, j \in 1 .. Len(m.ranges) :
            i < j => m.ranges[i].start_frame + m.ranges[i].frame_count
                        <= m.ranges[j].start_frame
    /\ \A i \in 1 .. Len(m.ranges) :
            m.ranges[i].start_frame * FRAME_SIZE >= POLICY_MIN_ADDR

(* The allocator's words fit their 64 bits, the cursor never passes the end *)
(* of the range table, the FIFO never exceeds its array, and everything    *)
(* issued has an address.                                                  *)
PmmTypeOK ==
    /\ ValidTable(frames)
    /\ pmm \in PmmState
    /\ pmm.range_index <= RangeCount
    /\ pending \in Seq(0 .. MAX_FRAME)
    /\ Len(pending) <= MAX_PENDING_FREE
    /\ held \subseteq 0 .. MAX_FRAME
    /\ last_alloc \in {NoFrame} \cup 0 .. MAX_FRAME

(* The Stage 6A comment on struct stage6a_pmm_state: once seeded, a cursor *)
(* that is on a range is at or after that range's start (and, since frames *)
(* are only taken below the end, at most at its end).                      *)
CursorInsideRange ==
    pmm.is_initialized = 1 /\ pmm.range_index < RangeCount =>
        /\ pmm.next_frame_index >= RangeAt(pmm.range_index).start_frame
        /\ pmm.next_frame_index <= RangeEnd(pmm.range_index)

(* g_stage6a_pmm and the FIFO of Stage 6C, as the code and its comments    *)
(* describe them.                                                          *)
PmmWellFormed == PmmTypeOK /\ CursorInsideRange

(* A frame has one owner: it is not waiting in the FIFO while a caller     *)
(* still holds it, and it waits there at most once.                        *)
OneOwner ==
    /\ held \cap PendingFrames = {}
    /\ \A i, j \in 1 .. Len(pending) : pending[i] = pending[j] => i = j

(* stage6b_pmm_alloc_frame never returns a frame some caller still holds,  *)
(* whatever the order and overlap of the ranges.                           *)
NeverIssueHeldFrame ==
    [][last_alloc' # NoFrame => last_alloc' \notin held]_pmm_vars

(* With ascending ranges, stage6c_pmm_free_frame accepts exactly the       *)
(* page-aligned addresses of held frames, while the FIFO has room: Stage   *)
(* 6C/6D reject misaligned, foreign, never-issued and duplicate frees.     *)
FreeAcceptsExactlyHeld ==
    Ascending(frames) => \A a \in Word :
        FreeAccepted(a) <=>
            /\ a % FRAME_SIZE = 0
            /\ a \div FRAME_SIZE \in held
            /\ Len(pending) < MAX_PENDING_FREE

(* The docs' promise for Stage 6D alone: a frame that was never issued is  *)
(* not accepted.                                                           *)
NeverIssuedFreeRejected ==
    \A a \in Word : FreeAccepted(a) => a \div FRAME_SIZE \in held

(* With ascending ranges no frame is lost or invented by allocation and    *)
(* free: the budget and the held frames add up to what Stage 5C counted.   *)
FramesConserved ==
    Ascending(frames) /\ pmm.is_initialized = 1 =>
        pmm.remaining_frame_count + Cardinality(held) = frames.eligible_frames

(* The eligible frames that are neither held nor waiting.                  *)
Unissued ==
    {f \in 0 .. MAX_FRAME :
        stage6c_is_eligible_frame(f) /\ f \notin held /\ f \notin PendingFrames}

(* Stage 5C had room for every range it counted.                           *)
Complete ==
    frames.eligible_frames
        = Cardinality({f \in 0 .. MAX_FRAME : stage6c_is_eligible_frame(f)})

(* With ascending ranges, none of them dropped for want of room in the     *)
(* table, stage6b_pmm_get_remaining_frames is the number of frames that    *)
(* allocation can still return: the FIFO and all eligible frames never     *)
(* issued.                                                                 *)
RemainingIsHonest ==
    Ascending(frames) /\ Complete /\ pmm.is_initialized = 1 =>
        pmm.remaining_frame_count = Cardinality(Unissued) + Len(pending)

(* The budget is exact: frees give back what allocations took, and it      *)
(* promises just the frames that can be had.                               *)
BudgetExact == FramesConserved /\ RemainingIsHonest

(* With ascending ranges stage6b_pmm_alloc_frame returns the frame freed   *)
(* longest ago, else the lowest eligible frame never issued, and fails     *)
(* only when neither is left.                                              *)
AllocOrder ==
    [][Ascending(frames) /\ stage6b_pmm_alloc_frame =>
            IF pending # <<>> THEN last_alloc' = Head(pending)
            ELSE IF Unissued # {}
                THEN /\ last_alloc' \in Unissued
                     /\ \A f \in Unissued : last_alloc' <= f
                ELSE last_alloc' = NoFrame]_pmm_vars

=============================================================================
