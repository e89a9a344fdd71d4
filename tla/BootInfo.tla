------------------------------ MODULE BootInfo ------------------------------
(***************************************************************************)
(* From the Multiboot2 information structure to the frame ranges of the    *)
(* physical allocator: stage5a_parse_mmap walks the tags, books the        *)
(* entries of the memory map with Stage 5B, and                            *)
(* stage5c_prepare_frame_bookkeeping turns the booked regions into ranges. *)
(*                                                                         *)
(* The loader's memory is arbitrary: a tag or an entry takes any value of  *)
(* TagSet or EntrySet when the parser reads it, size fields near 2^32      *)
(* included.  Addresses and sizes are 32 bits wide and every sum of the    *)
(* code wraps.  Every check of the parser that fails ends in panic.        *)
(***************************************************************************)
EXTENDS MemoryMap

CONSTANTS
    UINT32_MAX,
    INFO_ADDR,      \* where the loader put the structure
    TotalSizes,     \* its total_size field
    TagSet,         \* [type, size, entry_size]; entry_size matters for mmap tags
    EntrySet,       \* [base, length, type]
    MAX_READS       \* bound: the entries read in one behaviour

HEADER_SIZE == 8        \* sizeof(struct multiboot2_info_header), multiboot2_tag
MMAP_HEADER_SIZE == 16  \* sizeof(struct multiboot2_mmap_tag)
ENTRY_SIZE == 24        \* sizeof(struct multiboot2_mmap_entry)
TAG_END == 0
TAG_MMAP == 6

ASSUME BootInfoAssumption ==
    /\ UINT32_MAX \in Nat /\ INFO_ADDR \in 1 .. UINT32_MAX - HEADER_SIZE
    /\ TotalSizes \subseteq 0 .. UINT32_MAX
    /\ TagSet \subseteq [type : Nat, size : 0 .. UINT32_MAX,
                         entry_size : 0 .. UINT32_MAX]
    /\ EntrySet \subseteq [base : Word, length : Word, type : Nat]
    /\ MAX_READS \in Nat

VARIABLES
    phase,          \* where the boot code is
    total_size,
    cursor,         \* the tag under consideration
    tag,
    entry_cursor,
    found_mmap,
    totals,         \* struct stage5_parse_totals: the two byte sums
    memory,         \* g_stage5b_memory
    i,              \* the next region that Stage 5C looks at
    seen,           \* history: the entries read, in order
    outside,        \* history: a byte outside the structure was read
    wrapped         \* history: a cursor plus a size did not fit 32 bits

parse == <<total_size, cursor, tag, entry_cursor, found_mmap>>
vars == <<phase, parse, totals, memory, frames, i, seen, outside, wrapped>>

Wrap32(n) == n % (UINT32_MAX + 1)

align_up_8(n) == Wrap32(((n + 7) \div 8) * 8)

end_addr == Wrap32(INFO_ADDR + total_size)

NoTag == [type |-> TAG_END, size |-> 0, entry_size |-> 0]

Fits32(n) == n <= UINT32_MAX

Reads(start, n) ==
    outside' = (outside \/ start < INFO_ADDR \/ start + n > INFO_ADDR + total_size)

Init ==
    /\ phase = "header"
    /\ total_size \in TotalSizes
    /\ cursor = INFO_ADDR + HEADER_SIZE
    /\ tag = NoTag /\ entry_cursor = 0 /\ found_mmap = FALSE
    /\ totals = [usable |-> 0, reserved |-> 0]
    /\ memory = EmptyMemory /\ frames = EmptyFrames
    /\ i = 1 /\ seen = <<>> /\ outside = FALSE /\ wrapped = FALSE

CheckHeader ==
    /\ phase = "header"
    /\ phase' = IF total_size < HEADER_SIZE \/ end_addr < INFO_ADDR
                THEN "panic" ELSE "tags"
    /\ UNCHANGED <<parse, totals, memory, frames, i, seen, outside, wrapped>>

-----------------------------------------------------------------------------
(* One tag: the common checks, then the ones of its type.                  *)
MoreTags == Wrap32(cursor + HEADER_SIZE) <= end_addr

(* Faulty variant: a tag may reach beyond the structure.                   *)
BadTagUnbounded(t) ==
    t.size < HEADER_SIZE \/ (t.type = TAG_END /\ t.size # HEADER_SIZE)

BadTag(t) ==
    \/ t.size < HEADER_SIZE
    \/ Wrap32(cursor + t.size) > end_addr
    \/ t.type = TAG_END /\ t.size # HEADER_SIZE

BadMmap(t) == t.size < MMAP_HEADER_SIZE \/ t.entry_size < ENTRY_SIZE

ReadTag ==
    /\ phase = "tags" /\ MoreTags
    /\ \E t \in TagSet :
        /\ tag' = t
        /\ found_mmap' = (found_mmap \/ (~ BadTag(t) /\ t.type = TAG_MMAP))
        /\ Reads(cursor, IF t.type = TAG_MMAP /\ ~ BadTag(t)
                            /\ t.size >= MMAP_HEADER_SIZE
                         THEN MMAP_HEADER_SIZE ELSE HEADER_SIZE)
        /\ wrapped' = (wrapped \/ ~ Fits32(cursor + HEADER_SIZE)
                               \/ ~ Fits32(cursor + t.size))
        /\ phase' =
            IF BadTag(t) \/ (t.type = TAG_MMAP /\ BadMmap(t)) THEN "panic"
            ELSE CASE t.type = TAG_END -> "finish"
                   [] t.type = TAG_MMAP -> "entries"
                   [] OTHER -> "advance"
    /\ entry_cursor' = Wrap32(cursor + MMAP_HEADER_SIZE)
    /\ UNCHANGED <<total_size, cursor, totals, memory, frames, i, seen>>

entry_end == Wrap32(cursor + tag.size)

MoreEntries == Wrap32(entry_cursor + tag.entry_size) <= entry_end

AddTotals(e) ==
    IF e.type = AVAILABLE
        THEN [totals EXCEPT !.usable = add_clamp_u64(@, e.length)]
        ELSE [totals EXCEPT !.reserved = add_clamp_u64(@, e.length)]

ReadEntry ==
    /\ phase = "entries" /\ MoreEntries /\ Len(seen) < MAX_READS
    /\ \E e \in EntrySet :
        /\ totals' = AddTotals(e)
        /\ memory' = stage5b_account_entry(memory, e)
        /\ seen' = Append(seen, e)
    /\ Reads(entry_cursor, ENTRY_SIZE)
    /\ wrapped' = (wrapped \/ ~ Fits32(entry_cursor + tag.entry_size))
    /\ entry_cursor' = Wrap32(entry_cursor + tag.entry_size)
    /\ UNCHANGED <<phase, total_size, cursor, tag, found_mmap, frames, i>>

EndEntries ==
    /\ phase = "entries" /\ ~ MoreEntries
    /\ phase' = "advance"
    /\ UNCHANGED <<parse, totals, memory, frames, i, seen, outside, wrapped>>

(* To the next tag, 8-byte aligned and inside the structure.               *)
(* Faulty variant: a size that rounds up to 0 is accepted.                 *)
BadAdvanceZeroAllowed == Wrap32(cursor + align_up_8(tag.size)) > end_addr

BadAdvance ==
    \/ align_up_8(tag.size) = 0
    \/ Wrap32(cursor + align_up_8(tag.size)) > end_addr

AdvanceTag ==
    /\ phase = "advance"
    /\ phase' = IF BadAdvance THEN "panic" ELSE "tags"
    /\ cursor' = IF BadAdvance THEN cursor ELSE Wrap32(cursor + align_up_8(tag.size))
    /\ wrapped' = (wrapped \/ ~ Fits32(cursor + align_up_8(tag.size)))
    /\ UNCHANGED <<total_size, tag, entry_cursor, found_mmap,
                   totals, memory, frames, i, seen, outside>>

(* The structure may also end without an end tag.                          *)
EndTags ==
    /\ phase = "tags" /\ ~ MoreTags
    /\ phase' = "finish"
    /\ UNCHANGED <<parse, totals, memory, frames, i, seen, outside, wrapped>>

(* The parser returns; its local variables end with it.                    *)
FinishParse ==
    /\ phase = "finish"
    /\ IF found_mmap
        THEN /\ phase' = "regions"
             /\ memory' = [memory EXCEPT !.raw_usable_bytes = totals.usable,
                                         !.raw_reserved_bytes = totals.reserved]
        ELSE phase' = "panic" /\ UNCHANGED memory
    /\ cursor' = INFO_ADDR + HEADER_SIZE
    /\ tag' = NoTag /\ entry_cursor' = 0 /\ found_mmap' = FALSE
    /\ totals' = [usable |-> 0, reserved |-> 0]
    /\ UNCHANGED <<total_size, frames, i, seen, outside, wrapped>>

-----------------------------------------------------------------------------
(* stage5c_prepare_frame_bookkeeping, one region per step.                 *)
PrepareStep ==
    /\ phase = "regions"
    /\ IF KernelBoundsInvalid
        THEN phase' = "panic" /\ UNCHANGED <<frames, i>>
        ELSE IF i > Len(memory.regions)
        THEN phase' = "done" /\ UNCHANGED <<frames, i>>
        ELSE /\ frames' = PrepareRegion(frames, memory.regions[i])
             /\ i' = i + 1
             /\ UNCHANGED phase
    /\ UNCHANGED <<parse, totals, memory, seen, outside, wrapped>>

(* After "done" the boot goes on with the allocator (BringUp).             *)
Step ==
    \/ CheckHeader
    \/ ReadTag \/ ReadEntry \/ EndEntries \/ AdvanceTag \/ EndTags
    \/ FinishParse
    \/ PrepareStep

Spec == Init /\ [][Step]_vars

-----------------------------------------------------------------------------
(* The tables of Stage 5B and 5C never exceed their arrays and every total *)
(* fits its 64-bit word, whatever the boot information says.               *)
TypeOK ==
    /\ phase \in {"header", "tags", "entries", "advance", "finish",
                  "regions", "done", "panic"}
    /\ cursor \in 0 .. UINT32_MAX /\ entry_cursor \in 0 .. UINT32_MAX
    /\ tag \in TagSet \cup {NoTag} /\ found_mmap \in BOOLEAN
    /\ \A x \in {totals.usable, totals.reserved, memory.policy_usable_bytes,
                 memory.highest_usable_end, frames.eligible_frames,
                 frames.highest_eligible_frame} : x \in Word
    /\ Len(memory.regions) <= MAX_REGIONS /\ Len(frames.ranges) <= MAX_RANGES
    /\ i \in 1 .. Len(memory.regions) + 1

(* While the cursors and sizes it meets add up within 32 bits, the parser  *)
(* reads nothing outside the structure.  A read outside it takes a sum     *)
(* that wrapped before: no other combination of tags, sizes and entry      *)
(* sizes leads out.                                                        *)
ReadsInBounds == outside => wrapped

(* The tag cursor never passes the end of the structure, wrapped sums      *)
(* included: the sum that the code checks is the one it stores.            *)
CursorBeforeEnd == phase \in {"tags", "entries", "advance"} => cursor <= end_addr

(* stage5a_parse_mmap and the booking of Stages 5B and 5C stay within the  *)
(* structure they read, as far as the sums fit, and within the tables they *)
(* write, always.                                                          *)
ParseInBounds == TypeOK /\ ReadsInBounds /\ CursorBeforeEnd

(* Where the boot code is: the part of the work, and inside a part how     *)
(* much is left at the tag or region it is at.  An entry size beyond the   *)
(* tag's end passes the check only by wrapping, so the entry cursor then   *)
(* goes down.                                                              *)
PartsLeft ==
    CASE phase = "header" -> 4
      [] phase \in {"tags", "entries", "advance"} -> 3
      [] phase = "finish" -> 2
      [] phase = "regions" -> 1
      [] OTHER -> 0

EntriesLeft ==
    IF tag.entry_size > entry_end THEN entry_cursor + 1
    ELSE UINT32_MAX + 1 - entry_cursor

WorkInPart ==
    CASE phase = "tags" -> UINT32_MAX + 2
      [] phase = "entries" -> EntriesLeft
      [] phase = "regions" -> Len(memory.regions) + 1 - i
      [] OTHER -> 0

InLowerHalf == 2 * end_addr <= UINT32_MAX

(* The one step that may take the parser back: to a next tag at a sum that *)
(* does not fit 32 bits.                                                   *)
AdvanceWraps == phase = "advance" /\ ~ Fits32(cursor + align_up_8(tag.size))

(* With a structure in the lower half of the address space, every step but *)
(* that one goes on to the next part, to a later tag, or comes closer to   *)
(* the end of the tag or of the regions: the walk over the entries of a    *)
(* tag ends for any entry size, one that wraps included, and the parser    *)
(* goes round only through a tag whose own size wraps.                     *)
ParseMakesProgress ==
    [][phase \notin {"done", "panic"} /\ InLowerHalf /\ ~ AdvanceWraps =>
        \/ PartsLeft' \in 0 .. PartsLeft - 1
        \/ PartsLeft' = PartsLeft /\ cursor' \in cursor + 1 .. UINT32_MAX
        \/ /\ PartsLeft' = PartsLeft /\ cursor' = cursor
           /\ WorkInPart' \in 0 .. WorkInPart - 1]_vars

Entries == {seen[k] : k \in DOMAIN seen}

FramesOf(r) == r.start_frame .. r.start_frame + r.frame_count - 1

Recorded == UNION {FramesOf(frames.ranges[k]) : k \in DOMAIN frames.ranges}

FrameStart(x) == x * FRAME_SIZE
FrameEnd(x) == x * FRAME_SIZE + FRAME_SIZE

(* The reference: a frame may be used when it lies wholly in available     *)
(* memory that does not wrap and at or above the policy minimum, and holds *)
(* no byte of the kernel image.                                            *)
WithinEntry(x, e) ==
    /\ e.type = AVAILABLE /\ e.base + e.length <= UINT64_MAX
    /\ e.base <= FrameStart(x) /\ FrameEnd(x) <= e.base + e.length

UsableFrame(x) ==
    /\ \E e \in Entries : WithinEntry(x, e)
    /\ FrameStart(x) >= POLICY_MIN_ADDR
    /\ FrameEnd(x) <= KERNEL_PHYS_START \/ FrameStart(x) >= KERNEL_PHYS_END

(* Every recorded frame may be used: rounding, cutting at the policy       *)
(* minimum and around the kernel never let a foreign byte in.              *)
EligibleFramesUsable == \A x \in Recorded : UsableFrame(x)

(* And no usable frame is lost, unless a table was full.                   *)
AllUsableFramesEligible ==
    phase = "done" /\ memory.dropped_regions = 0 /\ frames.dropped_ranges = 0 =>
        \A x \in 0 .. UINT64_MAX \div FRAME_SIZE : UsableFrame(x) => x \in Recorded

(* What the frame allocator needs of the ranges (ValidTable in Pmm), and   *)
(* ranges in address order whenever the loader's map is, without overlap.  *)
MapAscending ==
    \A a, b \in DOMAIN seen :
        a < b => seen[a].base + seen[a].length <= seen[b].base

ReadyForPmm ==
    phase = "done" =>
        /\ \A a \in DOMAIN frames.ranges :
            LET r == frames.ranges[a]
            IN  /\ r.start_frame + r.frame_count <= UINT64_MAX \div FRAME_SIZE
                /\ r.frame_count \in 1 .. frames.eligible_frames
                /\ FrameStart(r.start_frame) >= POLICY_MIN_ADDR
        /\ Cardinality(Recorded) <= frames.eligible_frames
        /\ MapAscending =>
            \A a, b \in DOMAIN frames.ranges :
                a < b => frames.ranges[a].start_frame + frames.ranges[a].frame_count
                            <= frames.ranges[b].start_frame

(* Stage 5C turns the loader's map, however it is cut by rounding, the     *)
(* policy minimum and the kernel image, into well-formed ranges of exactly *)
(* the usable frames.                                                      *)
RangesExact == EligibleFramesUsable /\ AllUsableFramesEligible /\ ReadyForPmm
=============================================================================
