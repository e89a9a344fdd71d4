------------------------------- MODULE KHeap -------------------------------
(***************************************************************************)
(* The kernel heap of kernel/mm/kheap.c behind kmalloc and kfree.          *)
(*                                                                         *)
(* Blocks, each a header and a payload, fill the window from its start up  *)
(* to `current`.  Allocation walks them for the first freed block that is  *)
(* large enough, splits it when the rest can hold a block, and otherwise   *)
(* bumps `current`, mapping pages one by one.  Free walks the same chain.  *)
(* Blocks are never merged.                                                *)
(*                                                                         *)
(* One action is one iteration of a loop of the code; a call is the steps  *)
(* from its Call action until h_pc is "idle" again.  The frame allocator   *)
(* and the page mapper are met through the outcome of a growth step.       *)
(***************************************************************************)
EXTENDS HeapWindow

CONSTANTS
    HEADER_SIZE,     \* sizeof(struct stage9a_kheap_allocation_header)
    MIN_ALIGNMENT,   \* STAGE8C_KHEAP_MIN_ALIGNMENT
    Sizes,           \* the sizes that callers request
    Pointers         \* the addresses that callers free

ASSUME KHeapAssumption ==
    /\ {HEAP_START, HEAP_END, HEADER_SIZE, MIN_ALIGNMENT, PAGE_SIZE, UINT32_MAX}
            \subseteq Nat \ {0}
    /\ HEADER_SIZE % MIN_ALIGNMENT = 0
    /\ PAGE_SIZE % MIN_ALIGNMENT = 0
    /\ HEAP_START % PAGE_SIZE = 0 /\ HEAP_END % PAGE_SIZE = 0
    /\ HEAP_START + HEADER_SIZE < HEAP_END /\ HEAP_END <= UINT32_MAX
    /\ Sizes \subseteq 0 .. UINT32_MAX /\ Pointers \subseteq 0 .. UINT32_MAX

VARIABLES
    kheap,      \* g_stage8c_kheap
    hdr,        \* the headers written so far: address -> payload size and state
    h_pc,       \* the loop the running call is in, or "idle"
    h_arg,      \* the argument of the running call
    h_cursor,   \* the local `cursor` of its walk
    h_result    \* what the last completed call returned

heap_vars == <<kheap, hdr, h_pc, h_arg, h_cursor, h_result>>

Null == 0

NoResult == [op |-> "none", arg |-> 0, value |-> 0]

Header(size, st) == [payload_size |-> size, state |-> st]

PayloadStart(h) == h + HEADER_SIZE

PayloadEnd(h) == PayloadStart(h) + hdr[h].payload_size

(* stage8c_kheap_align_up to a power of two: refused when the sum of value *)
(* and mask would leave the 32-bit word.                                   *)
AlignUpFails(value, alignment) ==
    value % alignment # 0 /\ value > UINT32_MAX - (alignment - 1)

AlignUp(value, alignment) ==
    ((value + (alignment - 1)) \div alignment) * alignment

AlignedSize == AlignUp(h_arg, MIN_ALIGNMENT)

HeapInit ==
    /\ kheap = [is_initialized |-> 0, start |-> 0, current |-> 0,
                end_exclusive |-> 0, mapped_end_exclusive |-> 0]
    /\ hdr = [h \in {} |-> Header(0, "freed")]
    /\ h_pc = "idle" /\ h_arg = 0 /\ h_cursor = 0
    /\ h_result = NoResult

(* stage8c_kheap_bootstrap_init; a second call changes nothing.  The       *)
(* layout policy it validates is a compile-time constant that holds.       *)
stage8c_kheap_bootstrap_init ==
    /\ h_pc = "idle"
    /\ kheap.is_initialized = 0
    /\ kheap' = [is_initialized |-> 1, start |-> HEAP_START,
                 current |-> HEAP_START, end_exclusive |-> HEAP_END,
                 mapped_end_exclusive |-> HEAP_START]
    /\ UNCHANGED <<hdr, h_pc, h_arg, h_cursor, h_result>>

HeapReturn(op, value) ==
    /\ h_pc' = "idle"
    /\ h_arg' = 0 /\ h_cursor' = 0
    /\ h_result' = [op |-> op, arg |-> h_arg, value |-> value]

-----------------------------------------------------------------------------
(* Faulty variant: the reuse walk starts behind the blocks.                *)
AllocCallWithoutReuse(size) ==
    /\ h_pc = "idle"
    /\ UNCHANGED <<kheap, hdr>>
    /\ IF \/ kheap.is_initialized = 0
          \/ size = 0
          \/ AlignUpFails(size, MIN_ALIGNMENT)
        THEN /\ h_result' = [op |-> "alloc", arg |-> size, value |-> Null]
             /\ UNCHANGED <<h_pc, h_arg, h_cursor>>
        ELSE /\ h_pc' = "reuse" /\ h_arg' = size /\ h_cursor' = kheap.current
             /\ UNCHANGED h_result

(* stage8c_kheap_alloc, reached through kmalloc, up to the reuse walk.     *)
AllocCall(size) ==
    /\ h_pc = "idle"
    /\ UNCHANGED <<kheap, hdr>>
    /\ IF \/ kheap.is_initialized = 0
          \/ size = 0
          \/ AlignUpFails(size, MIN_ALIGNMENT)
        THEN /\ h_result' = [op |-> "alloc", arg |-> size, value |-> Null]
             /\ UNCHANGED <<h_pc, h_arg, h_cursor>>
        ELSE /\ h_pc' = "reuse" /\ h_arg' = size /\ h_cursor' = kheap.start
             /\ UNCHANGED h_result

(* The sanity checks of both walks on the header under the cursor: a magic *)
(* (some header is stored there) and a payload that ends within the cursor.*)
HeaderValid(h) ==
    /\ h <= kheap.current - HEADER_SIZE
    /\ h \in DOMAIN hdr
    /\ hdr[h].payload_size # 0
    /\ hdr[h].payload_size % MIN_ALIGNMENT = 0
    /\ hdr[h].payload_size <= kheap.current - PayloadStart(h)
    /\ PayloadEnd(h) > h

Reusable(h) == hdr[h].state = "freed" /\ hdr[h].payload_size >= AlignedSize

(* Faulty variant: the rest need not hold a payload.                       *)
SplitsIntoEmptyBlock(h) == hdr[h].payload_size - AlignedSize >= HEADER_SIZE

Splits(h) == hdr[h].payload_size - AlignedSize >= HEADER_SIZE + MIN_ALIGNMENT

(* The headers after the freed block h served a request of n bytes: the    *)
(* rest becomes a freed block of its own, or the whole block is consumed.  *)
SplitBlock(h, n) ==
    LET rest == h + HEADER_SIZE + n
    IN  [a \in DOMAIN hdr \cup {rest} |->
            CASE a = h    -> Header(n, "allocated")
              [] a = rest -> Header(hdr[h].payload_size - n - HEADER_SIZE, "freed")
              [] OTHER    -> hdr[a]]

ConsumeBlock(h) == [hdr EXCEPT ![h].state = "allocated"]

(* stage9c_kheap_try_reuse_aligned_allocation, one iteration each: take    *)
(* the block under the cursor, or go on to the next one, or give up on a   *)
(* header that does not look like one.                                     *)
ReuseHit ==
    /\ h_pc = "reuse" /\ h_cursor < kheap.current
    /\ HeaderValid(h_cursor) /\ Reusable(h_cursor)
    /\ hdr' = IF Splits(h_cursor) THEN SplitBlock(h_cursor, AlignedSize)
                                  ELSE ConsumeBlock(h_cursor)
    /\ HeapReturn("alloc", PayloadStart(h_cursor))
    /\ UNCHANGED kheap

ReuseNext ==
    /\ h_pc = "reuse" /\ h_cursor < kheap.current
    /\ ~ (HeaderValid(h_cursor) /\ Reusable(h_cursor))
    /\ IF HeaderValid(h_cursor)
        THEN h_cursor' = PayloadEnd(h_cursor) /\ UNCHANGED <<h_pc, h_arg, h_result>>
        ELSE HeapReturn("alloc", Null)
    /\ UNCHANGED <<kheap, hdr>>

(* The bump path: the checks against the end of the window.                *)
BumpEnd == PayloadStart(kheap.current) + AlignedSize

BumpFits ==
    /\ kheap.current <= kheap.end_exclusive - HEADER_SIZE
    /\ AlignedSize <= kheap.end_exclusive - PayloadStart(kheap.current)
    /\ ~ AlignUpFails(BumpEnd, PAGE_SIZE)

ReuseMiss ==
    /\ h_pc = "reuse" /\ h_cursor >= kheap.current
    /\ UNCHANGED <<kheap, hdr>>
    /\ IF BumpFits
        THEN h_pc' = "grow" /\ UNCHANGED <<h_arg, h_cursor, h_result>>
        ELSE HeapReturn("alloc", Null)

(* stage8c_kheap_ensure_mapped_until, one iteration each.  The outcome is  *)
(* that of stage6b_pmm_alloc_frame and stage8b_vmm_map_page: no frame, a   *)
(* frame above 4 GiB, a page that cannot be mapped, or a mapped page.      *)
(* Pages mapped before a failure stay mapped.                              *)
GrowOutcomes == {"no_frame", "high_frame", "not_mapped", "mapped"}

(* Faulty variant: only the page of the header is mapped.                  *)
GrowForHeaderOnly ==
    kheap.mapped_end_exclusive < AlignUp(PayloadStart(kheap.current), PAGE_SIZE)

GrowPending == kheap.mapped_end_exclusive < AlignUp(BumpEnd, PAGE_SIZE)

(* Faulty variant: an allocation whose growth failed starts over.          *)
GrowStepRetries(outcome) ==
    /\ h_pc = "grow" /\ GrowPending
    /\ UNCHANGED <<hdr, h_arg, h_result>>
    /\ IF kheap.mapped_end_exclusive >= kheap.end_exclusive \/ outcome # "mapped"
        THEN h_pc' = "reuse" /\ h_cursor' = kheap.start /\ UNCHANGED kheap
        ELSE /\ kheap' = [kheap EXCEPT !.mapped_end_exclusive = @ + PAGE_SIZE]
             /\ UNCHANGED <<h_pc, h_cursor>>

GrowStep(outcome) ==
    /\ h_pc = "grow" /\ GrowPending
    /\ UNCHANGED hdr
    /\ IF kheap.mapped_end_exclusive >= kheap.end_exclusive \/ outcome # "mapped"
        THEN HeapReturn("alloc", Null) /\ UNCHANGED kheap
        ELSE /\ kheap' = [kheap EXCEPT !.mapped_end_exclusive = @ + PAGE_SIZE]
             /\ UNCHANGED <<h_pc, h_arg, h_cursor, h_result>>

(* All pages are there: write the header and bump current.                 *)
BumpAlloc ==
    /\ h_pc = "grow" /\ ~ GrowPending
    /\ hdr' = [a \in DOMAIN hdr \cup {kheap.current} |->
                IF a = kheap.current THEN Header(AlignedSize, "allocated")
                                     ELSE hdr[a]]
    /\ kheap' = [kheap EXCEPT !.current = BumpEnd]
    /\ HeapReturn("alloc", PayloadStart(kheap.current))

-----------------------------------------------------------------------------
(* stage9a_kheap_free, reached through kfree.                              *)
FreeCall(p) ==
    /\ h_pc = "idle"
    /\ UNCHANGED <<kheap, hdr>>
    /\ IF \/ kheap.is_initialized = 0
          \/ p = Null
          \/ p < kheap.start \/ p >= kheap.current
        THEN /\ h_result' = [op |-> "free", arg |-> p, value |-> 0]
             /\ UNCHANGED <<h_pc, h_arg, h_cursor>>
        ELSE /\ h_pc' = "free" /\ h_arg' = p /\ h_cursor' = kheap.start
             /\ UNCHANGED h_result

(* Faulty variant: a freed block can be freed again.                       *)
FreeHitTwice ==
    /\ h_pc = "free" /\ h_cursor < kheap.current
    /\ HeaderValid(h_cursor)
    /\ h_arg = PayloadStart(h_cursor)
    /\ hdr' = [hdr EXCEPT ![h_cursor].state = "freed"]
    /\ HeapReturn("free", 1)
    /\ UNCHANGED kheap

FreeHit ==
    /\ h_pc = "free" /\ h_cursor < kheap.current
    /\ HeaderValid(h_cursor)
    /\ h_arg = PayloadStart(h_cursor)
    /\ IF hdr[h_cursor].state = "allocated"
        THEN /\ hdr' = [hdr EXCEPT ![h_cursor].state = "freed"]
             /\ HeapReturn("free", 1)
        ELSE UNCHANGED hdr /\ HeapReturn("free", 0)
    /\ UNCHANGED kheap

InteriorOf(p, h) == p > PayloadStart(h) /\ p < PayloadEnd(h)

FreeInterior ==
    /\ h_pc = "free" /\ h_cursor < kheap.current
    /\ HeaderValid(h_cursor)
    /\ InteriorOf(h_arg, h_cursor)
    /\ HeapReturn("free", 0)
    /\ UNCHANGED <<kheap, hdr>>

(* Faulty variant: the walk does not move.                                 *)
FreeNextStuck ==
    /\ h_pc = "free" /\ h_cursor < kheap.current
    /\ HeaderValid(h_cursor)
    /\ h_arg # PayloadStart(h_cursor) /\ ~ InteriorOf(h_arg, h_cursor)
    /\ UNCHANGED heap_vars

FreeNext ==
    /\ h_pc = "free" /\ h_cursor < kheap.current
    /\ HeaderValid(h_cursor)
    /\ h_arg # PayloadStart(h_cursor) /\ ~ InteriorOf(h_arg, h_cursor)
    /\ h_cursor' = PayloadEnd(h_cursor)
    /\ UNCHANGED <<kheap, hdr, h_pc, h_arg, h_result>>

(* A corrupt header, or the end of the chain without a match.              *)
FreeMiss ==
    /\ h_pc = "free"
    /\ h_cursor < kheap.current => ~ HeaderValid(h_cursor)
    /\ HeapReturn("free", 0)
    /\ UNCHANGED <<kheap, hdr>>

-----------------------------------------------------------------------------
AllocStep ==
    \/ ReuseHit \/ ReuseNext \/ ReuseMiss
    \/ \E outcome \in GrowOutcomes : GrowStep(outcome)
    \/ BumpAlloc

FreeStep == FreeHit \/ FreeInterior \/ FreeNext \/ FreeMiss

HeapNext ==
    \/ stage8c_kheap_bootstrap_init
    \/ \E size \in Sizes : AllocCall(size)
    \/ \E p \in Pointers : FreeCall(p)
    \/ AllocStep
    \/ FreeStep

HeapBehaviour == HeapInit /\ [][HeapNext]_heap_vars

(* The kernel is one thread and never blocks inside the heap: a call that  *)
(* was entered keeps executing.                                            *)
HeapSpec == HeapBehaviour /\ WF_heap_vars(AllocStep \/ FreeStep)

-----------------------------------------------------------------------------
(* The heap cursor and the mapped limit stay inside the heap window, and   *)
(* every block header holds a size that kheap_alloc can have written.      *)
HeapTypeOK ==
    /\ kheap \in [is_initialized : 0 .. 1,
                  start : {0, HEAP_START}, current : 0 .. HEAP_END,
                  end_exclusive : {0, HEAP_END},
                  mapped_end_exclusive : 0 .. HEAP_END]
    /\ DOMAIN hdr \subseteq HEAP_START .. HEAP_END - 1
    /\ \A h \in DOMAIN hdr :
            hdr[h] \in [payload_size : Nat, state : {"allocated", "freed"}]
    /\ h_pc \in {"idle", "reuse", "grow", "free"}
    /\ h_arg \in 0 .. UINT32_MAX
    /\ h_cursor \in 0 .. HEAP_END
    /\ h_result \in [op : {"none", "alloc", "free"},
                     arg : 0 .. UINT32_MAX, value : 0 .. HEAP_END]

(* The blocks tile the window up to current: the first header is at its    *)
(* start, each block ends where the next header or current is, every       *)
(* payload is aligned, and no block reaches into another.  Splitting and   *)
(* bumping must keep this, or a later walk goes astray.                    *)
BlocksTile ==
    /\ kheap.current > kheap.start => kheap.start \in DOMAIN hdr
    /\ \A h \in DOMAIN hdr :
            /\ HeaderValid(h)
            /\ PayloadStart(h) % MIN_ALIGNMENT = 0
            /\ PayloadEnd(h) \in DOMAIN hdr \cup {kheap.current}
    /\ \A h, k \in DOMAIN hdr : h < k => PayloadEnd(h) <= k

(* A walk stands on a header or at current, so no call is ever refused     *)
(* because of a header that does not look like one.                        *)
WalkOnBlocks ==
    h_pc \in {"reuse", "free"} => h_cursor \in DOMAIN hdr \cup {kheap.current}

(* Every header and payload lies in pages that are mapped, after any       *)
(* sequence of growths that failed half-way; the map never passes the end. *)
BlocksMapped ==
    /\ kheap.current <= kheap.mapped_end_exclusive
    /\ kheap.mapped_end_exclusive <= kheap.end_exclusive
    /\ kheap.mapped_end_exclusive % PAGE_SIZE = 0

(* The shape of the heap that kheap_alloc and kheap_free rely on: they     *)
(* never meet a header that does not look like one, or one that is not     *)
(* mapped.                                                                 *)
HeapIntact == HeapTypeOK /\ BlocksTile /\ WalkOnBlocks /\ BlocksMapped

(* Stage 9B/9C reuse: when the walk ends, it took the lowest freed block   *)
(* that is large enough, and the heap grows, or refuses, only when there   *)
(* is none.                                                                *)
FirstFit ==
    [][h_pc = "reuse" /\ h_pc' # "reuse" =>
        LET fits == {h \in DOMAIN hdr : Reusable(h)}
        IN  IF fits = {}
            THEN h_pc' = "grow" \/ h_result'.value = Null
            ELSE /\ h_pc' = "idle" /\ h_result'.value # Null
                 /\ h_result'.value - HEADER_SIZE \in fits
                 /\ \A h \in fits : h_result'.value - HEADER_SIZE <= h]_heap_vars

(* Every call to kmalloc or kfree returns.                                 *)
CallReturns == h_pc # "idle" ~> h_pc = "idle"

(* An upper bound for the steps that a running call still takes: the walks *)
(* move up towards current, growth moves the mapped limit up to the end.   *)
HeapStepsLeft ==
    CASE h_pc = "idle"  -> 0
      [] h_pc = "grow"  -> 1 + HEAP_END - kheap.mapped_end_exclusive
      [] h_pc = "free"  -> 1 + HEAP_END - h_cursor
      [] h_pc = "reuse" -> 2 + HEAP_END + HEAP_END - h_cursor

(* No loop of kheap.c runs for ever, also without any assumption on how    *)
(* the kernel is scheduled: every step of a call, whatever blocks it meets *)
(* and whatever growth answers, brings its end closer.                     *)
CallMakesProgress ==
    [][h_pc # "idle" => HeapStepsLeft' \in 0 .. HeapStepsLeft - 1]_heap_vars

(* The live blocks, as callers see them.                                   *)
AllocatedHeaders == {h \in DOMAIN hdr : hdr[h].state = "allocated"}

Live ==
    [p \in {PayloadStart(h) : h \in AllocatedHeaders} |->
        hdr[p - HEADER_SIZE].payload_size]

(* kmalloc and kfree implement the contract their callers rely on.         *)
Allocator == INSTANCE HeapContract WITH
    Start <- HEAP_START, End <- HEAP_END, Align <- MIN_ALIGNMENT,
    live <- Live, result <- h_result

ImplementsContract == Allocator!Spec
=============================================================================
