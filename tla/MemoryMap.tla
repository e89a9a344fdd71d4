----------------------------- MODULE MemoryMap -----------------------------
(***************************************************************************)
(* Stages 5B and 5C of kernel/init/stage0_main.c: how one memory-map entry *)
(* is booked, and how a booked region becomes ranges of page frames that   *)
(* lie above the policy minimum and outside the kernel image.  The tables  *)
(* are bounded; what does not fit is counted as dropped.                   *)
(***************************************************************************)
EXTENDS FrameTable

CONSTANTS
    MAX_REGIONS,        \* STAGE5B_MAX_REGIONS
    MAX_RANGES,         \* STAGE5C_MAX_RANGES
    KERNEL_PHYS_START,  \* __kernel_phys_start, __kernel_phys_end of stage0.ld
    KERNEL_PHYS_END

ASSUME MemoryMapAssumption ==
    /\ FRAME_SIZE \in Nat \ {0} /\ (UINT64_MAX + 1) % FRAME_SIZE = 0
    /\ POLICY_MIN_ADDR \in Nat /\ MAX_REGIONS \in Nat /\ MAX_RANGES \in Nat
    /\ KERNEL_PHYS_START \in Word /\ KERNEL_PHYS_END \in Word
    /\ KERNEL_PHYS_START < KERNEL_PHYS_END

AVAILABLE == 1   \* MULTIBOOT2_MEMORY_AVAILABLE

EmptyMemory ==
    [regions |-> <<>>, dropped_regions |-> 0, raw_usable_bytes |-> 0,
     raw_reserved_bytes |-> 0, policy_usable_bytes |-> 0,
     highest_usable_end |-> 0]

EmptyFrames ==
    [ranges |-> <<>>, dropped_ranges |-> 0, eligible_frames |-> 0,
     highest_eligible_frame |-> 0]

Larger(a, b) == IF a > b THEN a ELSE b

-----------------------------------------------------------------------------
(* The end of an entry, clamped to the largest word when it wraps.         *)
EntryEnd(e) ==
    IF checked_add_overflows(e.base, e.length) THEN UINT64_MAX
                                               ELSE e.base + e.length

stage5b_policy_usable_length(e) ==
    IF \/ e.type # AVAILABLE
       \/ e.length = 0
       \/ checked_add_overflows(e.base, e.length)
       \/ EntryEnd(e) <= POLICY_MIN_ADDR
        THEN 0
        ELSE EntryEnd(e) - Larger(e.base, POLICY_MIN_ADDR)

stage5b_record_region(m, region) ==
    IF Len(m.regions) >= MAX_REGIONS
        THEN [m EXCEPT !.dropped_regions = @ + 1]
        ELSE [m EXCEPT !.regions = Append(@, region)]

(* The byte totals count an entry whether or not its region is stored.     *)
stage5b_account_entry(m, e) ==
    LET usable == stage5b_policy_usable_length(e)
        booked == IF usable = 0 THEN m
                  ELSE [m EXCEPT !.policy_usable_bytes = add_clamp_u64(@, usable),
                                 !.highest_usable_end = Larger(@, EntryEnd(e))]
    IN  stage5b_record_region(booked,
            [base |-> e.base, end |-> EntryEnd(e), type |-> e.type,
             policy_usable |-> usable > 0])

-----------------------------------------------------------------------------
AlignDown(a) == a - (a % FRAME_SIZE)

AlignUpOverflows(a) == checked_add_overflows(a, FRAME_SIZE - 1)

(* Faulty variant: a start is rounded down.                                *)
AlignStartDown(a) == AlignDown(a)

stage5c_align_up_4k(a) == AlignDown(a + FRAME_SIZE - 1)

stage5c_record_range(f, start_frame, frame_count) ==
    IF Len(f.ranges) >= MAX_RANGES
        THEN [f EXCEPT !.dropped_ranges = @ + 1]
        ELSE [f EXCEPT !.ranges = Append(@, [start_frame |-> start_frame,
                                             frame_count |-> frame_count])]

(* The whole frames of start .. end - 1, if there are any, become a range. *)
stage5c_record_eligible_span(f, start, end) ==
    LET first == stage5c_align_up_4k(start)
        stop  == AlignDown(end)
        count == (stop - first) \div FRAME_SIZE
    IN  IF end <= start \/ AlignUpOverflows(start) \/ stop <= first
        THEN f
        ELSE [stage5c_record_range(f, first \div FRAME_SIZE, count) EXCEPT
                !.eligible_frames = add_clamp_u64(@, count),
                !.highest_eligible_frame =
                    Larger(@, (stop - FRAME_SIZE) \div FRAME_SIZE)]

kernel_reserved_start == AlignDown(KERNEL_PHYS_START)
kernel_reserved_end == stage5c_align_up_4k(KERNEL_PHYS_END)

KernelBoundsInvalid ==
    \/ AlignUpOverflows(KERNEL_PHYS_END)
    \/ kernel_reserved_end <= kernel_reserved_start

(* Faulty variant: the part above the kernel is recorded first.            *)
PrepareAboveFirst(f, r) ==
    LET start == Larger(r.base, POLICY_MIN_ADDR)
    IN  IF ~ r.policy_usable \/ r.type # AVAILABLE \/ r.end <= start
        THEN f
        ELSE IF r.end <= kernel_reserved_start \/ start >= kernel_reserved_end
        THEN stage5c_record_eligible_span(f, start, r.end)
        ELSE stage5c_record_eligible_span(
                stage5c_record_eligible_span(f, kernel_reserved_end, r.end),
                start, kernel_reserved_start)

(* One iteration of stage5c_prepare_frame_bookkeeping: a region is cut at  *)
(* the policy minimum and around the kernel image.  A part that is empty   *)
(* records nothing.                                                        *)
PrepareRegion(f, r) ==
    LET start == Larger(r.base, POLICY_MIN_ADDR)
    IN  IF ~ r.policy_usable \/ r.type # AVAILABLE \/ r.end <= start
        THEN f
        ELSE IF r.end <= kernel_reserved_start \/ start >= kernel_reserved_end
        THEN stage5c_record_eligible_span(f, start, r.end)
        ELSE stage5c_record_eligible_span(
                stage5c_record_eligible_span(f, start, kernel_reserved_start),
                kernel_reserved_end, r.end)
=============================================================================
