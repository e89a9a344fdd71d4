------------------------- MODULE MemoryStackProofs -------------------------
(***************************************************************************)
(* Proofs about the frame allocator, the page mapper and the heap working  *)
(* together, for every memory map, page size, layout and set of requests.  *)
(*                                                                         *)
(* A step of the stack is a step of each component, so the invariants of   *)
(* PmmProofs, VmmProofs and KHeapProofs are kept.  What is added here ties *)
(* them: which frame each page of the heap is mapped to, and what a growth *)
(* step has done so far.  From blocks that tile the heap, pages that are   *)
(* mapped and frames of one owner follows that no two blocks share memory. *)
(***************************************************************************)
EXTENDS MemoryStack, PmmProofs, VmmProofs, KHeapProofs

-----------------------------------------------------------------------------
(* The window and its pages.                                               *)
HeapPageCount == (HEAP_END - HEAP_START) \div PAGE_SIZE

HeapPage(k) == HEAP_START + k * PAGE_SIZE

LEMMA PageSize == PAGE_SIZE \in Nat \ {0} /\ FRAME_SIZE = PAGE_SIZE
BY Layout, StackAssumption

(* An aligned address is a multiple of the page size.                      *)
LEMMA AlignedIs ==
    ASSUME NEW a \in Nat, is_page_aligned(a)
    PROVE  a \div PAGE_SIZE \in Nat /\ a = PAGE_SIZE * (a \div PAGE_SIZE)
<1>1. a % PAGE_SIZE = 0
  BY DEF is_page_aligned, stage7a_paging_page_offset
<1>2. a \div PAGE_SIZE \in Nat /\ a = (PAGE_SIZE * (a \div PAGE_SIZE)) + (a % PAGE_SIZE)
  BY PageSize, DivMod
<1>3. PAGE_SIZE * (a \div PAGE_SIZE) \in Nat
  BY <1>2, PageSize
<1> QED BY <1>1, <1>2, <1>3

LEMMA MultipleAligned ==
    ASSUME NEW k \in Nat
    PROVE  k * PAGE_SIZE \in Nat /\ is_page_aligned(k * PAGE_SIZE)
           /\ (k * PAGE_SIZE) \div PAGE_SIZE = k
<1>1. k * PAGE_SIZE \in Nat /\ k * PAGE_SIZE = (PAGE_SIZE * k) + 0
  BY PageSize
<1>2. (k * PAGE_SIZE) \div PAGE_SIZE = k /\ (k * PAGE_SIZE) % PAGE_SIZE = 0
  BY <1>1, PageSize, DivUnique
<1> QED BY <1>1, <1>2 DEF is_page_aligned, stage7a_paging_page_offset

LEMMA WindowAligned == is_page_aligned(HEAP_START) /\ is_page_aligned(HEAP_END)
BY LayoutAssumption DEF stage8a_vmm_layout_validate_policy

(* The window is made of whole pages.                                      *)
LEMMA WholePages ==
    /\ HeapPageCount \in Nat /\ HEAP_START \in Nat
    /\ HEAP_END = HeapPage(HeapPageCount)
    /\ HeapPages = {HeapPage(k) : k \in 0 .. HeapPageCount - 1}
<1> DEFINE a == HEAP_START \div PAGE_SIZE
           b == HEAP_END \div PAGE_SIZE
<1>1. HEAP_START \in Nat /\ HEAP_END \in Nat /\ HEAP_START < HEAP_END
  BY Layout
<1>2. a \in Nat /\ HEAP_START = PAGE_SIZE * a /\ b \in Nat /\ HEAP_END = PAGE_SIZE * b
  BY <1>1, WindowAligned, AlignedIs
<1> HIDE DEF a, b
<1>3. a * PAGE_SIZE < b * PAGE_SIZE
  BY <1>1, <1>2, PageSize
<1>4. a < b
  BY <1>2, <1>3, PageSize, MultOrder
<1>5. PICK n \in Nat : b = a + n
  <2>1. b - a \in Nat /\ b = a + (b - a)
    BY <1>2, <1>4
  <2> QED BY <2>1
<1>6. HEAP_END - HEAP_START = n * PAGE_SIZE
  BY <1>2, <1>5, PageSize
<1>7. HeapPageCount = n
  BY <1>6, MultipleAligned DEF HeapPageCount
<1> QED BY <1>1, <1>2, <1>5, <1>6, <1>7, PageSize DEF HeapPage, HeapPages, HeapPageCount

(* Pages of the heap in order.                                             *)
LEMMA HeapPageOrder ==
    ASSUME NEW j \in Nat, NEW k \in Nat
    PROVE  /\ HeapPage(k) \in Nat
           /\ HeapPage(j) < HeapPage(k) <=> j < k
           /\ HeapPage(k) + PAGE_SIZE = HeapPage(k + 1)
           /\ HeapPage(j) = HeapPage(k) => j = k
<1>1. HEAP_START \in Nat /\ j * PAGE_SIZE \in Nat /\ k * PAGE_SIZE \in Nat
  BY WholePages, MultipleAligned
<1>2. j * PAGE_SIZE < k * PAGE_SIZE <=> j < k
  BY PageSize, MultOrder
<1>3. k * PAGE_SIZE < j * PAGE_SIZE <=> k < j
  BY PageSize, MultOrder
<1>4. (k + 1) * PAGE_SIZE = (k * PAGE_SIZE) + PAGE_SIZE
  BY PageSize
<1> QED BY <1>1, <1>2, <1>3, <1>4, PageSize DEF HeapPage

(* A page of the heap is one the page mapper serves.                       *)
LEMMA HeapPageFacts ==
    ASSUME NEW v \in HeapPages
    PROVE  /\ v \in Pages /\ v \in Nat /\ HEAP_START <= v /\ v < HEAP_END
           /\ HasSlot(v) /\ Reserved(v) /\ is_page_aligned(v) /\ v \in VAddrs
           /\ v \notin CallerPages
<1>1. PICK k \in 0 .. HeapPageCount - 1 : v = HeapPage(k)
  BY WholePages
<1>2. v \in VAddrs /\ v \in Addr
  BY StackAssumption, CallerAddr
<1>3. v \in Nat /\ HEAP_START <= v /\ v < HEAP_END
  <2>1. k \in Nat /\ HeapPageCount \in Nat /\ k < HeapPageCount
    BY <1>1, WholePages
  <2>2. HeapPage(k) \in Nat /\ HeapPage(k) < HeapPage(HeapPageCount)
    BY <2>1, HeapPageOrder
  <2>3. HEAP_START <= HeapPage(k)
    BY <2>1, WholePages, MultipleAligned DEF HeapPage
  <2> QED BY <1>1, <2>2, <2>3, WholePages
<1>4. is_page_aligned(v)
  <2> DEFINE a == HEAP_START \div PAGE_SIZE
  <2>1. a \in Nat /\ HEAP_START = PAGE_SIZE * a
    BY WholePages, WindowAligned, AlignedIs
  <2> HIDE DEF a
  <2>2. k \in Nat /\ v = (a + k) * PAGE_SIZE
    BY <1>1, <2>1, WholePages, PageSize DEF HeapPage
  <2> QED BY <2>1, <2>2, MultipleAligned
<1>5. in_heap_reserved(v) /\ Reserved(v)
  BY <1>3 DEF in_heap_reserved, Reserved
<1>6. HasSlot(v)
  BY <1>2, <1>5, WindowSlots
<1>7. v \notin CallerPages
  BY <1>3, Layout, StackAssumption
<1> QED BY <1>2, <1>3, <1>4, <1>5, <1>6, <1>7 DEF Pages

-----------------------------------------------------------------------------
(* The heap's limits, and what the checks of the bump path leave to the    *)
(* growth loop: the block that is wanted ends inside the window.           *)
HeapState ==
    /\ kheap \in [is_initialized : 0 .. 1, start : Nat, current : Nat,
                  end_exclusive : Nat, mapped_end_exclusive : Nat]
    /\ h_pc \in {"idle", "reuse", "grow", "free"} /\ h_arg \in Nat
    /\ kheap.is_initialized = 0 => h_pc = "idle" /\ kheap.mapped_end_exclusive = 0
    /\ kheap.is_initialized = 1 =>
        /\ paging = "on" /\ kheap.end_exclusive = HEAP_END
        /\ \E n \in 0 .. HeapPageCount : kheap.mapped_end_exclusive = HeapPage(n)
    /\ h_pc = "grow" => BumpEnd <= HEAP_END

(* A frame that a growth step has taken is below 4 GiB and nobody else's,  *)
(* and the call of map_page that runs, or has returned 1, maps it at the   *)
(* heap's limit.  Other calls are of other callers, for their pages.       *)
Growth ==
    IF growing = NoFrame
    THEN v_pc # "idle" => h_pc = "idle" /\ v_call.page \in CallerPages
    ELSE /\ h_pc = "grow" /\ GrowPending
         /\ growing \in held \ owned /\ ~ TooHigh(growing)
         /\ IF v_pc = "idle"
            THEN /\ answer.value = 1
                 /\ Entry(kheap.mapped_end_exclusive) = MakeEntry(Address(growing))
            ELSE v_call = [op |-> "map", page |-> kheap.mapped_end_exclusive,
                           frame |-> Address(growing)]

(* The frames that were issued to the heap and are not being mapped.       *)
HeapFrames == held \ (owned \cup {growing})

(* The entries of the heap's pages and the frames of the heap, both ways.  *)
Backed ==
    /\ \A v \in BackedPages : \E f \in HeapFrames :
            ~ TooHigh(f) /\ Entry(v) = MakeEntry(Address(f))
    /\ \A v, w \in BackedPages : Entry(v) = Entry(w) => v = w
    /\ \A v \in HeapPages \ BackedPages :
            Entry(v) # 0 => growing # NoFrame /\ v = kheap.mapped_end_exclusive
    /\ \A f \in HeapFrames :
            TooHigh(f) \/ \E v \in BackedPages : Entry(v) = MakeEntry(Address(f))

StackState ==
    /\ ExactIfAscending /\ Served
    /\ VmmInv
    /\ HeapState /\ Growth /\ owned \subseteq held
    /\ Backed

StackInv == frames \in FrameMaps /\ StackState

-----------------------------------------------------------------------------
(* Frames and their addresses.                                             *)
LEMMA FrameAddress ==
    ASSUME NEW f \in 0 .. MAX_FRAME
    PROVE  /\ Address(f) \in Nat /\ Address(f) \in Word /\ is_page_aligned(Address(f))
           /\ Address(f) \div PAGE_SIZE = f /\ Address(f) \div FRAME_SIZE = f
<1>1. MAX_FRAME \in Nat /\ f \in Nat /\ f <= MAX_FRAME
  BY MaxFrame
<1>2. Address(f) \in Nat /\ is_page_aligned(Address(f)) /\ Address(f) \div PAGE_SIZE = f
  BY <1>1, MultipleAligned DEF Address
<1>3. Address(f) <= UINT64_MAX
  <2>1. UINT64_MAX \in Nat /\ MAX_FRAME = UINT64_MAX \div PAGE_SIZE
    BY WordAssumption, PageSize DEF MAX_FRAME
  <2>2. UINT64_MAX = (PAGE_SIZE * MAX_FRAME) + (UINT64_MAX % PAGE_SIZE)
        /\ UINT64_MAX % PAGE_SIZE \in Nat
    BY <2>1, PageSize, DivMod
  <2>3. f * PAGE_SIZE <= MAX_FRAME * PAGE_SIZE
    BY <1>1, PageSize, MultMonotone
  <2>4. MAX_FRAME * PAGE_SIZE <= UINT64_MAX
    BY <1>1, <2>1, <2>2, PageSize
  <2>5. f * PAGE_SIZE \in Nat /\ MAX_FRAME * PAGE_SIZE \in Nat
    BY <1>1, MultipleAligned
  <2> QED BY <2>1, <2>3, <2>4, <2>5 DEF Address
<1> QED BY <1>2, <1>3, PageSize DEF Word

(* A frame of the map below 4 GiB can be mapped.                           *)
LEMMA MapFrameAddress ==
    ASSUME frames \in FrameMaps, NEW f \in MapFrames(frames)
    PROVE  /\ f \in 0 .. MAX_FRAME
           /\ ~ TooHigh(f) => /\ Address(f) <= UINT32_MAX /\ Address(f) \in PAddrs
                              /\ Address(f) \in Frames
<1>1. f \in 0 .. MAX_FRAME
  BY FrameMapsAssumption, EligibleIsMap DEF Eligible
<1>2. UINT32_MAX \in Nat /\ Address(f) \in Nat /\ is_page_aligned(Address(f))
  BY <1>1, FrameAddress, ConstantFacts
<1>3. ~ TooHigh(f) => Address(f) <= UINT32_MAX
  BY <1>2 DEF TooHigh
<1>4. ~ TooHigh(f) => Address(f) \in PAddrs
  BY <1>3, StackAssumption
<1> QED BY <1>1, <1>2, <1>3, <1>4 DEF Frames

(* Different frames make different entries.                                *)
LEMMA EntryOfFrame ==
    ASSUME frames \in FrameMaps,
           NEW f \in MapFrames(frames), NEW g \in MapFrames(frames),
           ~ TooHigh(f), ~ TooHigh(g), MakeEntry(Address(f)) = MakeEntry(Address(g))
    PROVE  f = g
<1>1. Address(f) \in Frames /\ Address(g) \in Frames
  BY MapFrameAddress
<1>2. Address(f) = Address(g)
  BY <1>1, MadeEntry
<1> QED BY <1>2, MapFrameAddress, FrameAddress

(* What lies above 4 GiB by its address does so by its number.             *)
LEMMA TooHighIsHigh ==
    ASSUME NEW f \in Nat, TooHigh(f)
    PROVE  \A g \in Nat : f <= g => IsHigh(g)
<1> SUFFICES ASSUME NEW g \in Nat, f <= g, g \in LowFrames PROVE FALSE
  BY DEF IsHigh
<1> DEFINE q == (UINT32_MAX + 1) \div PAGE_SIZE
<1>1. UINT32_MAX + 1 \in Nat
  BY ConstantFacts
<1>2. q \in Nat /\ q * PAGE_SIZE <= UINT32_MAX + 1
  <2>1. /\ q \in Nat /\ (UINT32_MAX + 1) % PAGE_SIZE \in Nat
        /\ UINT32_MAX + 1 = (PAGE_SIZE * q) + ((UINT32_MAX + 1) % PAGE_SIZE)
    <3>1. PICK u \in Nat : u = UINT32_MAX + 1
      BY <1>1
    <3>2. /\ u \div PAGE_SIZE \in Nat /\ u % PAGE_SIZE \in Nat
          /\ u = (PAGE_SIZE * (u \div PAGE_SIZE)) + (u % PAGE_SIZE)
      BY PageSize, DivMod
    <3> QED BY <3>1, <3>2
  <2> HIDE DEF q
  <2> QED BY <1>1, <2>1, PageSize
<1>3. g <= q - 1
  BY DEF LowFrames
<1> HIDE DEF q
<1>4. (f + 1) * PAGE_SIZE <= q * PAGE_SIZE
  <2>1. f + 1 <= q /\ f + 1 \in Nat
    BY <1>2, <1>3
  <2> QED BY <1>2, <2>1, PageSize, MultMonotone
<1>5. (f + 1) * PAGE_SIZE = (f * PAGE_SIZE) + PAGE_SIZE /\ f * PAGE_SIZE \in Nat
  BY PageSize
<1> QED BY <1>1, <1>2, <1>4, <1>5, PageSize, ConstantFacts DEF TooHigh, Address

-----------------------------------------------------------------------------
(* align_up, and the limit of the growth loop.                             *)
LEMMA AlignUpNat ==
    ASSUME NEW x \in Nat, NEW a \in Nat \ {0}
    PROVE  AlignUp(x, a) \in Nat
<1>1. x + (a - 1) \in Nat
  OBVIOUS
<1>2. (x + (a - 1)) \div a \in Nat
  BY <1>1, DivMod
<1> QED BY <1>2 DEF AlignUp

LEMMA AlignUpInWindow ==
    ASSUME NEW x \in Nat, x <= HEAP_END
    PROVE  AlignUp(x, PAGE_SIZE) <= HEAP_END
<1> DEFINE b == HEAP_END \div PAGE_SIZE
           y == x + (PAGE_SIZE - 1)
           q == y \div PAGE_SIZE
<1>1. HEAP_END \in Nat /\ y \in Nat
  BY Layout, PageSize
<1>2. b \in Nat /\ HEAP_END = PAGE_SIZE * b
  BY <1>1, WindowAligned, AlignedIs
<1> HIDE DEF b
<1>3. y < (b + 1) * PAGE_SIZE
  BY <1>1, <1>2, PageSize
<1>4. q \in Nat /\ q < b + 1
  <2>1. PICK z \in Nat : z = y /\ z < (b + 1) * PAGE_SIZE
    BY <1>1, <1>3
  <2> HIDE DEF y
  <2>2. z \div PAGE_SIZE \in Nat /\ b + 1 \in Nat
    BY <1>2, PageSize, DivMod
  <2>3. z \div PAGE_SIZE < b + 1
    BY <2>1, <2>2, PageSize, DivBounds
  <2> QED BY <2>1, <2>2, <2>3
<1>5. AlignUp(x, PAGE_SIZE) = q * PAGE_SIZE
  BY DEF AlignUp
<1> HIDE DEF q
<1>6. q * PAGE_SIZE <= b * PAGE_SIZE
  BY <1>2, <1>4, PageSize, MultMonotone
<1> QED BY <1>2, <1>5, <1>6, PageSize

LEMMA BumpEndNat == HeapState => AlignedSize \in Nat /\ BumpEnd \in Nat
<1> SUFFICES ASSUME HeapState PROVE AlignedSize \in Nat /\ BumpEnd \in Nat
  OBVIOUS
<1>1. /\ h_arg \in Nat /\ kheap.current \in Nat
      /\ MIN_ALIGNMENT \in Nat \ {0} /\ HEADER_SIZE \in Nat
  BY ConstantFacts DEF HeapState
<1>2. AlignedSize \in Nat
  BY <1>1, AlignUpNat DEF AlignedSize
<1> QED BY <1>1, <1>2 DEF BumpEnd, PayloadStart

(* The page a growth step is about to map is one of the window.            *)
LEMMA GrowthInWindow ==
    ASSUME HeapState, h_pc = "grow", GrowPending
    PROVE  \E n \in 0 .. HeapPageCount - 1 :
                /\ kheap.mapped_end_exclusive = HeapPage(n)
                /\ kheap.is_initialized = 1 /\ paging = "on"
                /\ kheap.mapped_end_exclusive < kheap.end_exclusive
                /\ kheap.mapped_end_exclusive \in HeapPages \ BackedPages
<1>1. kheap.is_initialized = 1
  BY DEF HeapState
<1>2. PICK n \in 0 .. HeapPageCount : kheap.mapped_end_exclusive = HeapPage(n)
  BY <1>1 DEF HeapState
<1>3. kheap.mapped_end_exclusive < AlignUp(BumpEnd, PAGE_SIZE)
  BY DEF GrowPending
<1>4. BumpEnd \in Nat /\ BumpEnd <= HEAP_END
  BY BumpEndNat DEF HeapState
<1>5. AlignUp(BumpEnd, PAGE_SIZE) \in Nat /\ AlignUp(BumpEnd, PAGE_SIZE) <= HEAP_END
  BY <1>4, PageSize, AlignUpNat, AlignUpInWindow
<1>6. kheap.mapped_end_exclusive \in Nat /\ kheap.end_exclusive = HEAP_END
  BY <1>1 DEF HeapState
<1>7. kheap.mapped_end_exclusive < HEAP_END
  BY <1>3, <1>5, <1>6, Layout
<1>8. n \in Nat /\ HeapPageCount \in Nat /\ HeapPage(n) < HeapPage(HeapPageCount)
  BY <1>2, <1>7, WholePages
<1>9. n < HeapPageCount
  BY <1>8, HeapPageOrder
<1>10. n \in 0 .. HeapPageCount - 1
  BY <1>8, <1>9
<1>11. kheap.mapped_end_exclusive \in HeapPages \ BackedPages
  BY <1>2, <1>6, <1>10, WholePages DEF BackedPages
<1> QED BY <1>1, <1>2, <1>6, <1>7, <1>10, <1>11 DEF HeapState

-----------------------------------------------------------------------------
(* What a step that does not concern a component leaves to be shown.       *)
LEMMA PmmKept ==
    ASSUME ExactIfAscending, Served, UNCHANGED pmm_vars
    PROVE  /\ ExactIfAscending' /\ Served'
           /\ held' = held /\ PendingFrames' = PendingFrames
<1>1. UNCHANGED <<frames, pmm, pending, held>>
  BY DEF pmm_vars
<1>2. Served' /\ PendingFrames' = PendingFrames
  BY <1>1 DEF Served, PendingFrames
<1> QED BY <1>1, <1>2, NextExactIfAscending

LEMMA VmmKept ==
    ASSUME VmmInv, UNCHANGED vmm_vars
    PROVE  /\ VmmInv' /\ UNCHANGED <<paging, v_pc, v_call, answer>>
           /\ \A v : Entry(v)' = Entry(v)
<1>1. UNCHANGED <<paging, pts, v_pc, v_call, answer>>
  BY DEF vmm_vars, software
<1>2. \A v : Entry(v)' = Entry(v)
  BY <1>1 DEF Entry
<1> QED BY <1>1, <1>2, VmmNextInv

LEMMA HeapKept ==
    ASSUME HeapState, UNCHANGED heap_vars, paging = "on" => paging' = "on"
    PROVE  /\ HeapState' /\ UNCHANGED <<kheap, h_pc, h_arg>>
           /\ GrowPending' <=> GrowPending
<1>1. UNCHANGED <<kheap, h_pc, h_arg>>
  BY DEF heap_vars
<1>2. BumpEnd' = BumpEnd
  BY <1>1 DEF BumpEnd, PayloadStart, AlignedSize, AlignUp
<1>3. GrowPending' <=> GrowPending
  BY <1>1, <1>2 DEF GrowPending, AlignUp
<1> QED BY <1>1, <1>2, <1>3 DEF HeapState

(* When no call runs, no frame is on its way to the heap.                  *)
LEMMA IdleGrowsNothing ==
    ASSUME Growth, h_pc # "grow"
    PROVE  growing = NoFrame
BY DEF Growth

(* The heap's pages and frames stay as they are, but for frames above 4    *)
(* GiB that are lost and for the page of the running growth step.          *)
LEMMA BackedKept ==
    ASSUME Backed,
           kheap'.mapped_end_exclusive = kheap.mapped_end_exclusive,
           growing' = growing \/ growing = NoFrame,
           HeapFrames \subseteq HeapFrames',
           \A f \in HeapFrames' : f \in HeapFrames \/ TooHigh(f),
           \A v \in BackedPages : Entry(v)' = Entry(v),
           \A v \in HeapPages \ BackedPages :
                \/ Entry(v)' = Entry(v)
                \/ growing' # NoFrame /\ v = kheap.mapped_end_exclusive
    PROVE  Backed'
<1>1. BackedPages' = BackedPages
  BY DEF BackedPages
<1>2. \A v \in BackedPages : \E f \in HeapFrames' :
            ~ TooHigh(f) /\ Entry(v)' = MakeEntry(Address(f))
  BY DEF Backed
<1>3. \A v, w \in BackedPages : Entry(v)' = Entry(w)' => v = w
  BY DEF Backed
<1>4. \A v \in HeapPages \ BackedPages :
            Entry(v)' # 0 => growing' # NoFrame /\ v = kheap.mapped_end_exclusive
  BY DEF Backed
<1>5. \A f \in HeapFrames' :
            TooHigh(f) \/ \E v \in BackedPages : Entry(v)' = MakeEntry(Address(f))
  BY DEF Backed
<1> QED BY <1>1, <1>2, <1>3, <1>4, <1>5 DEF Backed

-----------------------------------------------------------------------------
LEMMA StackInitInv == StackInit => StackInv
<1> SUFFICES ASSUME StackInit PROVE StackInv
  OBVIOUS
<1>1. ExactIfAscending /\ Served /\ VmmInv
  BY InitExactIfAscending, ServedInit, VmmInitInv DEF StackInit
<1>2. /\ kheap = [is_initialized |-> 0, start |-> 0, current |-> 0,
                  end_exclusive |-> 0, mapped_end_exclusive |-> 0]
      /\ h_pc = "idle" /\ h_arg = 0
  BY DEF StackInit, HeapInit
<1>3. held = {} /\ v_pc = "idle" /\ pts = [t \in Tables |-> Empty]
      /\ growing = NoFrame /\ owned = {} /\ paging = "off"
  BY DEF StackInit, PmmInit, PmmReset, VmmInit
<1>4. HeapState
  BY <1>2 DEF HeapState
<1>5. Growth /\ owned \subseteq held
  BY <1>3 DEF Growth
<1>6. ASSUME NEW v \in HeapPages PROVE Entry(v) = 0 /\ v \notin BackedPages
  <2>1. v \in Pages /\ HasSlot(v) /\ v \in Nat /\ HEAP_START \in Nat /\ HEAP_START <= v
    BY HeapPageFacts, Layout
  <2>2. pdx(v) \in Index /\ ptx(v) \in Index /\ Tab(pdx(v)) \in Tables
    BY <2>1, SlotPage
  <2> QED BY <1>2, <1>3, <2>1, <2>2 DEF Entry, Empty, BackedPages
<1>7. HeapFrames = {} /\ BackedPages = {}
  BY <1>3, <1>6 DEF HeapFrames, BackedPages
<1>8. Backed
  BY <1>6, <1>7 DEF Backed
<1> QED BY <1>1, <1>4, <1>5, <1>8 DEF StackInv, StackState, StackInit, PmmInit

(* Seeding the frame allocator.                                            *)
LEMMA SeedFramesInv ==
    ASSUME StackInv, SeedFrames
    PROVE  StackState'
<1>1. /\ StackIdle /\ BootSeed /\ UNCHANGED <<vmm_vars, heap_vars, growing, owned>>
  BY DEF SeedFrames
<1>2. PmmNext
  BY <1>1 DEF PmmNext
<1>3. ExactIfAscending'
  BY <1>2, NextExactIfAscending DEF StackInv, StackState
<1>4. /\ frames' = frames /\ held' = held /\ pending' = pending /\ pending = <<>>
  BY <1>1 DEF BootSeed, StackInv, StackState, ExactIfAscending, PmmInv, Unseeded
<1>5. Served'
  <2>1. pmm'.remaining_frame_count \in Nat
    BY <1>3 DEF ExactIfAscending, PmmInv, PmmTypeOK, PmmState, Word
  <2>2. PendingFrames' = PendingFrames /\ Len(pending') = 0
    BY <1>4 DEF PendingFrames
  <2> QED BY <1>4, <2>1, <2>2 DEF StackInv, StackState, Served
<1>6. VmmInv' /\ UNCHANGED <<paging, v_pc, v_call, answer>> /\ \A v : Entry(v)' = Entry(v)
  BY <1>1, VmmKept DEF StackInv, StackState
<1>7. HeapState' /\ UNCHANGED <<kheap, h_pc, h_arg>>
  BY <1>1, <1>6, HeapKept DEF StackInv, StackState
<1>8. growing = NoFrame /\ v_pc = "idle"
  BY <1>1, IdleGrowsNothing DEF StackInv, StackState, StackIdle
<1>9. Growth' /\ (owned \subseteq held)'
  BY <1>1, <1>4, <1>6, <1>8 DEF StackInv, StackState, Growth
<1>10. HeapFrames' = HeapFrames
  BY <1>1, <1>4 DEF HeapFrames
<1>11. Backed'
  BY <1>1, <1>6, <1>7, <1>10, BackedKept DEF StackInv, StackState
<1> QED BY <1>3, <1>5, <1>6, <1>7, <1>9, <1>11 DEF StackInv, StackState

(* Before Stage 7C has run, no page of the heap has an entry.              *)
LEMMA UnbuiltEmpty ==
    VmmInv /\ paging # "on" => \A v \in HeapPages : Entry(v) = 0
<1> SUFFICES ASSUME VmmInv, paging # "on", NEW v \in HeapPages PROVE Entry(v) = 0
  OBVIOUS
<1>1. v \in Pages /\ HasSlot(v)
  BY HeapPageFacts
<1>2. pdx(v) \in Index /\ pdx(v) # 0
  BY <1>1, SlotPage
<1>3. pd[pdx(v)] = 0
  BY <1>2 DEF VmmInv, SoftInv, SoftTyped, IdentityOK, Empty
<1> QED BY <1>1, <1>3, WalkGuard DEF VmmInv

(* Building the identity map touches no page of the heap.                  *)
LEMMA SetupPagingInv ==
    ASSUME StackInv, SetupPaging
    PROVE  StackState'
<1>1. /\ StackIdle /\ stage7b_setup_early_identity_paging
      /\ UNCHANGED <<pmm_vars, heap_vars, growing, owned>>
  BY DEF SetupPaging
<1>2. VmmInv' /\ paging = "off" /\ paging' = "built" /\ UNCHANGED <<v_pc, answer>>
  BY <1>1, SetupStep DEF StackInv, StackState
<1>3. ExactIfAscending' /\ Served' /\ held' = held
  BY <1>1, PmmKept DEF StackInv, StackState
<1>4. HeapState' /\ UNCHANGED <<kheap, h_pc, h_arg>>
  BY <1>1, <1>2, HeapKept DEF StackInv, StackState
<1>5. growing = NoFrame /\ v_pc = "idle"
  BY <1>1, IdleGrowsNothing DEF StackInv, StackState, StackIdle
<1>6. Growth' /\ (owned \subseteq held)'
  BY <1>1, <1>2, <1>3, <1>5 DEF StackInv, StackState, Growth
<1>7. HeapFrames' = HeapFrames
  BY <1>1, <1>3 DEF HeapFrames
<1>8. \A v \in HeapPages : Entry(v) = 0
  BY <1>2, UnbuiltEmpty DEF StackInv, StackState
<1>9. \A v \in HeapPages : Entry(v)' = 0
  <2>1. (VmmInv /\ paging # "on" => \A v \in HeapPages : Entry(v) = 0)'
    BY UnbuiltEmpty, PTL
  <2> QED BY <1>2, <2>1
<1>10. Backed'
  BY <1>1, <1>4, <1>7, <1>8, <1>9, BackedKept DEF StackInv, StackState, BackedPages
<1> QED BY <1>2, <1>3, <1>4, <1>6, <1>10 DEF StackInv, StackState

(* Switching paging on changes no table.                                   *)
LEMMA ActivatePagingInv ==
    ASSUME StackInv, ActivatePaging
    PROVE  StackState'
<1>1. /\ StackIdle /\ stage7c_activate
      /\ UNCHANGED <<pmm_vars, heap_vars, growing, owned>>
  BY DEF ActivatePaging
<1>2. VmmInv' /\ paging' = "on" /\ UNCHANGED <<v_pc, answer, pts>>
  BY <1>1, ActivateStep DEF StackInv, StackState
<1>3. ExactIfAscending' /\ Served' /\ held' = held
  BY <1>1, PmmKept DEF StackInv, StackState
<1>4. HeapState' /\ UNCHANGED <<kheap, h_pc, h_arg>>
  BY <1>1, <1>2, HeapKept DEF StackInv, StackState
<1>5. growing = NoFrame /\ v_pc = "idle"
  BY <1>1, IdleGrowsNothing DEF StackInv, StackState, StackIdle
<1>6. Growth' /\ (owned \subseteq held)'
  BY <1>1, <1>2, <1>3, <1>5 DEF StackInv, StackState, Growth
<1>7. HeapFrames' = HeapFrames
  BY <1>1, <1>3 DEF HeapFrames
<1>8. \A v : Entry(v)' = Entry(v)
  BY <1>2 DEF Entry
<1>9. Backed'
  BY <1>1, <1>4, <1>7, <1>8, BackedKept DEF StackInv, StackState
<1> QED BY <1>2, <1>3, <1>4, <1>6, <1>9 DEF StackInv, StackState

(* A step that changes only the heap, not its limits, and does not enter   *)
(* the growth loop without the check against the window.                   *)
LEMMA HeapOnly ==
    ASSUME StackInv, growing = NoFrame, v_pc = "idle",
           UNCHANGED <<pmm_vars, vmm_vars, growing, owned>>,
           HeapState',
           kheap'.mapped_end_exclusive = kheap.mapped_end_exclusive
    PROVE  StackState'
<1>1. ExactIfAscending' /\ Served' /\ held' = held
  BY PmmKept DEF StackInv, StackState
<1>2. VmmInv' /\ UNCHANGED <<paging, v_pc, v_call, answer>> /\ \A v : Entry(v)' = Entry(v)
  BY VmmKept DEF StackInv, StackState
<1>3. Growth' /\ (owned \subseteq held)'
  BY <1>1, <1>2 DEF StackInv, StackState, Growth
<1>4. HeapFrames' = HeapFrames
  BY <1>1 DEF HeapFrames
<1>5. Backed'
  BY <1>2, <1>4, BackedKept DEF StackInv, StackState
<1> QED BY <1>1, <1>2, <1>3, <1>5 DEF StackInv, StackState

(* The heap starts with no page.                                           *)
LEMMA InitHeapInv ==
    ASSUME StackInv, InitHeap
    PROVE  StackState'
<1>1. /\ StackIdle /\ paging = "on" /\ stage8c_kheap_bootstrap_init
      /\ UNCHANGED <<pmm_vars, vmm_vars, growing, owned>>
  BY DEF InitHeap
<1>2. /\ kheap.is_initialized = 0 /\ UNCHANGED <<h_pc, h_arg>>
      /\ kheap' = [is_initialized |-> 1, start |-> HEAP_START,
                   current |-> HEAP_START, end_exclusive |-> HEAP_END,
                   mapped_end_exclusive |-> HEAP_START]
  BY <1>1 DEF stage8c_kheap_bootstrap_init
<1>3. ExactIfAscending' /\ Served' /\ held' = held
  BY <1>1, PmmKept DEF StackInv, StackState
<1>4. VmmInv' /\ UNCHANGED <<paging, v_pc, v_call, answer>> /\ \A v : Entry(v)' = Entry(v)
  BY <1>1, VmmKept DEF StackInv, StackState
<1>5. growing = NoFrame /\ v_pc = "idle" /\ h_pc = "idle"
  BY <1>1, IdleGrowsNothing DEF StackInv, StackState, StackIdle
<1>6. Growth' /\ (owned \subseteq held)'
  BY <1>1, <1>3, <1>4, <1>5 DEF StackInv, StackState, Growth
<1>7. HeapState'
  <2>1. HEAP_START \in Nat /\ HEAP_END \in Nat
    BY Layout
  <2>2. 0 \in 0 .. HeapPageCount /\ HEAP_START = HeapPage(0)
    BY WholePages, PageSize DEF HeapPage
  <2>3. h_arg \in Nat
    BY DEF StackInv, StackState, HeapState
  <2> QED BY <1>1, <1>2, <1>4, <1>5, <2>1, <2>2, <2>3 DEF HeapState
<1>8. BackedPages = {} /\ BackedPages' = {}
  <2>1. kheap.mapped_end_exclusive = 0 /\ kheap'.mapped_end_exclusive = HEAP_START
    BY <1>2 DEF StackInv, StackState, HeapState
  <2>2. \A v \in HeapPages : v \in Nat /\ HEAP_START \in Nat /\ HEAP_START <= v
    BY HeapPageFacts, Layout
  <2> QED BY <2>1, <2>2 DEF BackedPages
<1>9. HeapFrames' = HeapFrames
  BY <1>1, <1>3 DEF HeapFrames
<1>10. Backed'
  BY <1>1, <1>4, <1>5, <1>8, <1>9 DEF StackInv, StackState, Backed
<1> QED BY <1>3, <1>4, <1>6, <1>7, <1>10 DEF StackInv, StackState

(* kmalloc and kfree up to their walks.                                    *)
LEMMA KmallocInv ==
    ASSUME StackInv, NEW size \in Sizes, Kmalloc(size)
    PROVE  StackState'
<1>1. /\ StackIdle /\ AllocCall(size) /\ UNCHANGED <<pmm_vars, vmm_vars, growing, owned>>
  BY DEF Kmalloc
<1>2. growing = NoFrame /\ v_pc = "idle" /\ h_pc = "idle"
  BY <1>1, IdleGrowsNothing DEF StackInv, StackState, StackIdle
<1>3. kheap' = kheap /\ size \in Nat /\ UNCHANGED paging
  BY <1>1, KHeapAssumption DEF AllocCall, vmm_vars, software
<1>4. CASE UNCHANGED <<h_pc, h_arg>>
  BY <1>1, <1>2, <1>3, <1>4, HeapOnly DEF StackInv, StackState, HeapState
<1>5. CASE kheap.is_initialized # 0 /\ h_pc' = "reuse" /\ h_arg' = size
  BY <1>1, <1>2, <1>3, <1>5, HeapOnly DEF StackInv, StackState, HeapState
<1> QED BY <1>1, <1>4, <1>5 DEF AllocCall

LEMMA KfreeInv ==
    ASSUME StackInv, NEW p \in Pointers, Kfree(p)
    PROVE  StackState'
<1>1. /\ StackIdle /\ FreeCall(p) /\ UNCHANGED <<pmm_vars, vmm_vars, growing, owned>>
  BY DEF Kfree
<1>2. growing = NoFrame /\ v_pc = "idle" /\ h_pc = "idle"
  BY <1>1, IdleGrowsNothing DEF StackInv, StackState, StackIdle
<1>3. kheap' = kheap /\ p \in Nat /\ UNCHANGED paging
  BY <1>1, KHeapAssumption DEF FreeCall, vmm_vars, software
<1>4. CASE UNCHANGED <<h_pc, h_arg>>
  BY <1>1, <1>2, <1>3, <1>4, HeapOnly DEF StackInv, StackState, HeapState
<1>5. CASE kheap.is_initialized # 0 /\ h_pc' = "free" /\ h_arg' = p
  BY <1>1, <1>2, <1>3, <1>5, HeapOnly DEF StackInv, StackState, HeapState
<1> QED BY <1>1, <1>4, <1>5 DEF FreeCall

(* A step of the frame allocator alone, which moves no frame of the heap.  *)
LEMMA FramesOnly ==
    ASSUME StackInv, growing = NoFrame, v_pc = "idle",
           UNCHANGED <<vmm_vars, heap_vars, growing>>,
           ExactIfAscending', Served', (owned \subseteq held)', HeapFrames' = HeapFrames
    PROVE  StackState'
<1>1. VmmInv' /\ UNCHANGED <<paging, v_pc, v_call, answer>> /\ \A v : Entry(v)' = Entry(v)
  BY VmmKept DEF StackInv, StackState
<1>2. HeapState' /\ UNCHANGED <<kheap, h_pc, h_arg>>
  BY <1>1, HeapKept DEF StackInv, StackState
<1>3. Growth'
  BY <1>1 DEF Growth
<1>4. Backed'
  BY <1>1, <1>2, BackedKept DEF StackInv, StackState
<1> QED BY <1>1, <1>2, <1>3, <1>4 DEF StackInv, StackState

(* Another caller takes a frame, or gives one back.                        *)
LEMMA TakeFrameInv ==
    ASSUME StackInv, TakeFrame
    PROVE  StackState'
<1>1. /\ StackIdle /\ stage6b_pmm_alloc_frame
      /\ owned' = owned \cup ({last_alloc'} \ {NoFrame})
      /\ UNCHANGED <<vmm_vars, heap_vars, growing>>
  BY DEF TakeFrame
<1>2. growing = NoFrame /\ v_pc = "idle" /\ owned \subseteq held /\ PmmInv
  BY <1>1, IdleGrowsNothing DEF StackInv, StackState, StackIdle, ExactIfAscending
<1>3. ExactIfAscending'
  <2>1. PmmNext
    BY <1>1 DEF PmmNext
  <2> QED BY <2>1, NextExactIfAscending DEF StackInv, StackState
<1>4. /\ Served'
      /\ \/ last_alloc' = NoFrame /\ held' = held
         \/ /\ last_alloc' \in 0 .. MAX_FRAME
            /\ last_alloc' \notin held /\ held' = held \cup {last_alloc'}
  BY <1>1, <1>2, AllocEffect DEF StackInv, StackState
<1>5. (owned \subseteq held)' /\ HeapFrames' = HeapFrames
  BY <1>1, <1>2, <1>4 DEF HeapFrames
<1> QED BY <1>1, <1>2, <1>3, <1>4, <1>5, FramesOnly

LEMMA GiveFrameInv ==
    ASSUME StackInv, NEW f \in owned, GiveFrame(Address(f))
    PROVE  StackState'
<1>1. /\ StackIdle /\ UNCHANGED <<vmm_vars, heap_vars, growing>>
      /\ \/ /\ stage6c_pmm_free_frame(Address(f))
            /\ owned' = owned \ {Address(f) \div PAGE_SIZE}
         \/ FreeRejected(Address(f)) /\ UNCHANGED owned
  BY DEF GiveFrame
<1>2. growing = NoFrame /\ v_pc = "idle" /\ owned \subseteq held /\ PmmInv
  BY <1>1, IdleGrowsNothing DEF StackInv, StackState, StackIdle, ExactIfAscending
<1>3. f \in 0 .. MAX_FRAME
  BY <1>2 DEF PmmInv, PmmTypeOK
<1>4. /\ Address(f) \in Word
      /\ Address(f) \div PAGE_SIZE = f /\ Address(f) \div FRAME_SIZE = f
  BY <1>3, FrameAddress
<1>5. ExactIfAscending'
  <2>1. PmmNext
    BY <1>1, <1>4 DEF PmmNext
  <2> QED BY <2>1, NextExactIfAscending DEF StackInv, StackState
<1>6. CASE stage6c_pmm_free_frame(Address(f)) /\ owned' = owned \ {f}
  <2>1. Served' /\ held' = held \ {f}
    BY <1>2, <1>4, <1>6, FreeServed DEF StackInv, StackState
  <2>2. (owned \subseteq held)' /\ HeapFrames' = HeapFrames
    BY <1>1, <1>2, <1>6, <2>1 DEF HeapFrames
  <2> QED BY <1>1, <1>2, <1>5, <2>1, <2>2, FramesOnly
<1>7. CASE FreeRejected(Address(f)) /\ UNCHANGED owned
  <2>1. UNCHANGED <<frames, pmm, pending, held>>
    BY <1>7 DEF FreeRejected
  <2>2. Served' /\ (owned \subseteq held)' /\ HeapFrames' = HeapFrames
    BY <1>1, <1>2, <1>7, <2>1 DEF HeapFrames, StackInv, StackState, Served, PendingFrames
  <2> QED BY <1>1, <1>2, <1>5, <2>2, FramesOnly
<1> QED BY <1>1, <1>4, <1>6, <1>7

(* Another caller maps or unmaps a page of the mapping window, up to the   *)
(* first store.                                                            *)
LEMMA CallerCall ==
    ASSUME StackInv, StackIdle, UNCHANGED <<pmm_vars, heap_vars, growing, owned>>,
           VmmInv', paging' = paging, \A w \in Pages : Entry(w)' = Entry(w),
           v_pc' = "idle" \/ v_call'.page \in CallerPages
    PROVE  StackState'
<1>1. growing = NoFrame /\ h_pc = "idle"
  BY IdleGrowsNothing DEF StackInv, StackState, StackIdle
<1>2. ExactIfAscending' /\ Served' /\ held' = held
  BY PmmKept DEF StackInv, StackState
<1>3. HeapState' /\ UNCHANGED <<kheap, h_pc, h_arg>>
  BY HeapKept DEF StackInv, StackState
<1>4. Growth' /\ (owned \subseteq held)'
  BY <1>1, <1>2, <1>3 DEF Growth, StackInv, StackState
<1>5. HeapFrames' = HeapFrames
  BY <1>2 DEF HeapFrames
<1>6. \A v \in HeapPages : Entry(v)' = Entry(v)
  BY HeapPageFacts
<1>7. Backed'
  BY <1>3, <1>5, <1>6, BackedKept DEF StackInv, StackState, BackedPages
<1> QED BY <1>2, <1>3, <1>4, <1>7 DEF StackInv, StackState

LEMMA MapPageInv ==
    ASSUME StackInv, NEW v \in CallerPages, NEW f \in CallerFrames, MapPage(v, f)
    PROVE  StackState'
<1>1. StackIdle /\ MapCall(v, f) /\ UNCHANGED <<pmm_vars, heap_vars, growing, owned>>
  BY DEF MapPage
<1>2. v \in VAddrs /\ f \in PAddrs /\ v_pc = "idle"
  BY <1>1, StackAssumption DEF StackIdle
<1>3. /\ VmmInv' /\ paging' = paging /\ \A w \in Pages : Entry(w)' = Entry(w)
      /\ v_pc' = v_pc \/ v_call'.page = v
  BY <1>1, <1>2, MapCallStep DEF StackInv, StackState
<1> QED BY <1>1, <1>2, <1>3, CallerCall

LEMMA UnmapPageInv ==
    ASSUME StackInv, NEW v \in CallerPages, UnmapPage(v)
    PROVE  StackState'
<1>1. StackIdle /\ UnmapCall(v) /\ UNCHANGED <<pmm_vars, heap_vars, growing, owned>>
  BY DEF UnmapPage
<1>2. v \in VAddrs /\ v_pc = "idle"
  BY <1>1, StackAssumption DEF StackIdle
<1>3. /\ VmmInv' /\ paging' = paging /\ \A w \in Pages : Entry(w)' = Entry(w)
      /\ v_pc' = v_pc \/ v_call'.page = v
  BY <1>1, <1>2, UnmapCallStep DEF StackInv, StackState
<1> QED BY <1>1, <1>2, <1>3, CallerCall

(* The stores of map_page and unmap_page: those of other callers touch no  *)
(* page of the heap, that of a growth step touches the page at the limit.  *)
LEMMA MapStepInv ==
    ASSUME StackInv, MapStep
    PROVE  StackState'
<1>1. CallStep /\ UNCHANGED <<pmm_vars, heap_vars, growing, owned>>
  BY DEF MapStep
<1>2. /\ VmmInv' /\ v_pc # "idle" /\ UNCHANGED paging
      /\ \A w \in Pages : w # v_call.page => Entry(w)' = Entry(w)
      /\ v_pc' # "idle" => v_call' = v_call
      /\ v_call.op = "map" /\ v_pc' = "idle" =>
            /\ answer' = Answer("map", v_call.page, 1)
            /\ Entry(v_call.page) = MakeEntry(v_call.frame)
            /\ \A w \in Pages : Entry(w)' = Entry(w)
  BY <1>1, CallStepEffect DEF StackInv, StackState
<1>3. ExactIfAscending' /\ Served' /\ held' = held
  BY <1>1, PmmKept DEF StackInv, StackState
<1>4. HeapState' /\ UNCHANGED <<kheap, h_pc, h_arg>> /\ (GrowPending' <=> GrowPending)
  BY <1>1, <1>2, HeapKept DEF StackInv, StackState
<1>5. HeapFrames' = HeapFrames
  BY <1>1, <1>3 DEF HeapFrames
<1>6. CASE growing = NoFrame
  <2>1. h_pc = "idle" /\ v_call.page \in CallerPages
    BY <1>2, <1>6 DEF StackInv, StackState, Growth
  <2>2. Growth'
    BY <1>1, <1>2, <1>4, <1>6, <2>1 DEF Growth
  <2>3. \A v \in HeapPages : Entry(v)' = Entry(v)
    BY <1>2, <2>1, HeapPageFacts
  <2>4. Backed'
    BY <1>1, <1>4, <1>5, <2>3, BackedKept DEF StackInv, StackState, BackedPages
  <2> QED BY <1>1, <1>2, <1>3, <1>4, <2>2, <2>4 DEF StackInv, StackState
<1>7. CASE growing # NoFrame
  <2>1. /\ h_pc = "grow" /\ GrowPending /\ growing \in held \ owned /\ ~ TooHigh(growing)
        /\ v_call = [op |-> "map", page |-> kheap.mapped_end_exclusive,
                     frame |-> Address(growing)]
    BY <1>2, <1>7 DEF StackInv, StackState, Growth
  <2>2. PICK m \in HeapPages \ BackedPages : m = kheap.mapped_end_exclusive
    BY <2>1, GrowthInWindow DEF StackInv, StackState
  <2>3. v_pc' = "idle" => answer'.value = 1 /\ Entry(m)' = MakeEntry(Address(growing))
    BY <1>2, <2>1, <2>2, HeapPageFacts DEF Answer
  <2>4. Growth'
    <3>1. /\ h_pc' = "grow" /\ GrowPending' /\ growing' \in held' \ owned'
          /\ growing' = growing /\ ~ TooHigh(growing') /\ kheap' = kheap
      BY <1>1, <1>3, <1>4, <2>1
    <3>2. kheap'.mapped_end_exclusive = m
      BY <2>2, <3>1
    <3>3. Entry(kheap.mapped_end_exclusive)' = Entry(m)'
      BY <3>2 DEF Entry
    <3> QED BY <1>2, <1>7, <2>1, <2>2, <2>3, <3>1, <3>2, <3>3 DEF Growth
  <2>5. \A v \in BackedPages : Entry(v)' = Entry(v)
    BY <1>2, <2>1, <2>2, HeapPageFacts DEF BackedPages
  <2>6. \A v \in HeapPages \ BackedPages : Entry(v)' = Entry(v) \/ v = m
    BY <2>2, <1>2, <2>1, HeapPageFacts
  <2>7. Backed'
    BY <1>1, <1>4, <1>5, <1>7, <2>2, <2>5, <2>6, BackedKept DEF StackInv, StackState
  <2> QED BY <1>1, <1>2, <1>3, <1>4, <2>4, <2>7 DEF StackInv, StackState
<1> QED BY <1>6, <1>7

(* The steps of a heap call that stay inside the heap: the block that is   *)
(* wanted passes the check against the window before the growth loop.      *)
LEMMA HeapStepInv ==
    ASSUME StackInv, HeapStep
    PROVE  StackState'
<1>1. /\ ReuseHit \/ ReuseNext \/ ReuseMiss \/ BumpAlloc \/ FreeStep
      /\ UNCHANGED <<pmm_vars, vmm_vars, growing, owned>>
  BY DEF HeapStep
<1>2. h_pc # "idle" /\ (h_pc = "grow" => ~ GrowPending)
  BY <1>1 DEF ReuseHit, ReuseNext, ReuseMiss, BumpAlloc, FreeStep,
              FreeHit, FreeInterior, FreeNext, FreeMiss
<1>3. growing = NoFrame /\ v_pc = "idle"
  BY <1>2 DEF StackInv, StackState, Growth
<1>4. kheap.is_initialized = 1 /\ paging' = paging /\ HeapState
  BY <1>1, <1>2 DEF StackInv, StackState, HeapState, vmm_vars, software
<1>5. CASE kheap' = kheap /\ UNCHANGED <<h_pc, h_arg>> /\ h_pc # "grow"
  BY <1>1, <1>3, <1>4, <1>5, HeapOnly DEF HeapState
<1>6. CASE kheap' = kheap /\ h_pc' = "idle" /\ h_arg' = 0
  BY <1>1, <1>3, <1>4, <1>6, HeapOnly DEF HeapState
<1>7. CASE ReuseMiss /\ BumpFits /\ h_pc' = "grow"
  <2>1. kheap' = kheap /\ h_arg' = h_arg
    BY <1>7 DEF ReuseMiss, HeapReturn
  <2>2. BumpEnd' = BumpEnd
    BY <2>1 DEF BumpEnd, PayloadStart, AlignedSize, AlignUp
  <2>3. BumpEnd <= HEAP_END
    <3>1. /\ AlignedSize \in Nat /\ kheap.current + HEADER_SIZE \in Nat
          /\ kheap.end_exclusive = HEAP_END /\ HEAP_END \in Nat
      BY <1>4, BumpEndNat, ConstantFacts, Layout DEF HeapState
    <3> QED BY <1>7, <3>1 DEF BumpFits, BumpEnd, PayloadStart
  <2>4. HeapState'
    BY <1>4, <1>7, <2>1, <2>2, <2>3 DEF HeapState
  <2> QED BY <1>1, <1>3, <2>1, <2>4, HeapOnly
<1>8. CASE BumpAlloc
  <2>1. /\ kheap' = [kheap EXCEPT !.current = BumpEnd]
        /\ h_pc' = "idle" /\ h_arg' = 0
    BY <1>8 DEF BumpAlloc, HeapReturn
  <2>2. HeapState'
    BY <1>4, <2>1, BumpEndNat DEF HeapState
  <2>3. kheap'.mapped_end_exclusive = kheap.mapped_end_exclusive
    BY <1>4, <2>1 DEF HeapState
  <2> QED BY <1>1, <1>3, <2>2, <2>3, HeapOnly
<1>9. CASE ReuseHit \/ ReuseNext
  BY <1>5, <1>6, <1>9 DEF ReuseHit, ReuseNext, HeapReturn
<1>10. CASE ReuseMiss
  BY <1>6, <1>7, <1>10 DEF ReuseMiss, HeapReturn
<1>11. CASE FreeStep
  BY <1>5, <1>6, <1>11 DEF FreeStep, FreeHit, FreeInterior, FreeNext,
                           FreeMiss, HeapReturn
<1> QED BY <1>1, <1>8, <1>9, <1>10, <1>11

(* What a growth step finds when it takes a frame.                         *)
LEMMA GrowthStart ==
    ASSUME StackInv, GrowTakeFrame
    PROVE  /\ h_pc = "grow" /\ GrowPending /\ growing = NoFrame /\ v_pc = "idle"
           /\ kheap.mapped_end_exclusive \in HeapPages \ BackedPages
           /\ Entry(kheap.mapped_end_exclusive) = 0
           /\ stage6b_pmm_alloc_frame /\ (NoFrameLeft \/ FrameTooHigh \/ MapFrame)
           /\ UNCHANGED owned
           /\ ExactIfAscending' /\ Served' /\ frames' = frames
           /\ \/ last_alloc' = NoFrame /\ held' = held
              \/ /\ last_alloc' \in MapFrames(frames) /\ last_alloc' \in 0 .. MAX_FRAME
                 /\ last_alloc' \notin held /\ held' = held \cup {last_alloc'}
<1>1. h_pc = "grow" /\ GrowPending /\ growing = NoFrame /\ UNCHANGED owned
  BY DEF GrowTakeFrame
<1>2. v_pc = "idle"
  BY <1>1 DEF StackInv, StackState, Growth
<1>3. /\ kheap.mapped_end_exclusive \in HeapPages \ BackedPages
      /\ kheap.mapped_end_exclusive < kheap.end_exclusive
  BY <1>1, GrowthInWindow DEF StackInv, StackState
<1>4. stage6b_pmm_alloc_frame /\ (NoFrameLeft \/ FrameTooHigh \/ MapFrame)
  <2>1. kheap.mapped_end_exclusive \in Nat /\ kheap.end_exclusive \in Nat
    BY DEF StackInv, StackState, HeapState
  <2> QED BY <1>3, <2>1 DEF GrowTakeFrame
<1>5. Entry(kheap.mapped_end_exclusive) = 0
  BY <1>1, <1>3 DEF StackInv, StackState, Backed
<1>6. ExactIfAscending'
  <2>1. PmmNext
    BY <1>4 DEF PmmNext
  <2> QED BY <2>1, NextExactIfAscending DEF StackInv, StackState
<1>7. PmmInv /\ Served
  BY DEF StackInv, StackState, ExactIfAscending
<1> QED BY <1>1, <1>2, <1>3, <1>4, <1>5, <1>6, <1>7, AllocEffect

(* The growth step ends here: nothing is mapped, and a frame that was      *)
(* taken is lost above 4 GiB.                                              *)
LEMMA GrowFailsInv ==
    ASSUME StackInv, GrowTakeFrame, NoFrameLeft \/ FrameTooHigh
    PROVE  StackState' /\ h_pc' = "idle" /\ h_result'.value = Null
<1>1. /\ h_pc = "grow" /\ growing = NoFrame /\ v_pc = "idle" /\ UNCHANGED owned
      /\ ExactIfAscending' /\ Served'
      /\ \/ last_alloc' = NoFrame /\ held' = held
         \/ last_alloc' \notin held /\ held' = held \cup {last_alloc'}
  BY GrowthStart
<1>2. /\ GrowStep("no_frame") \/ GrowStep("high_frame")
      /\ UNCHANGED <<vmm_vars, growing>>
      /\ last_alloc' # NoFrame => TooHigh(last_alloc')
  BY DEF NoFrameLeft, FrameTooHigh
<1>3. kheap' = kheap /\ h_pc' = "idle" /\ h_arg' = 0 /\ h_result'.value = Null
  BY <1>2 DEF GrowStep, HeapReturn
<1>4. VmmInv' /\ UNCHANGED <<paging, v_pc, v_call, answer>> /\ \A v : Entry(v)' = Entry(v)
  BY <1>2, VmmKept DEF StackInv, StackState
<1>5. HeapState'
  BY <1>3, <1>4 DEF StackInv, StackState, HeapState
<1>6. Growth' /\ (owned \subseteq held)'
  BY <1>1, <1>2, <1>4 DEF StackInv, StackState, Growth
<1>7. /\ HeapFrames \subseteq HeapFrames'
      /\ \A f \in HeapFrames' : f \in HeapFrames \/ TooHigh(f)
  BY <1>1, <1>2 DEF HeapFrames
<1>8. Backed'
  BY <1>2, <1>3, <1>4, <1>7, BackedKept DEF StackInv, StackState
<1> QED BY <1>1, <1>3, <1>4, <1>5, <1>6, <1>8 DEF StackInv, StackState

(* The growth step has a frame l below 4 GiB and calls map_page for it and *)
(* the page m at the limit.                                                *)
MapsAtLimit(m, l) ==
    /\ m = kheap.mapped_end_exclusive /\ m \in VAddrs
    /\ l = last_alloc' /\ l \in 0 .. MAX_FRAME /\ ~ TooHigh(l)
    /\ l \notin held /\ held' = held \cup {l}
    /\ Address(l) \in PAddrs /\ is_page_aligned(Address(l))
    /\ MapCall(m, Address(l))
    /\ growing' = l /\ UNCHANGED heap_vars

LEMMA GrowMapsCall ==
    ASSUME StackInv, GrowTakeFrame, MapFrame
    PROVE  \E m \in HeapPages \ BackedPages, l \in MapFrames(frames) : MapsAtLimit(m, l)
<1>1. PICK m \in HeapPages \ BackedPages : m = kheap.mapped_end_exclusive
  BY GrowthStart
<1>2. PICK l \in MapFrames(frames) :
            /\ l = last_alloc' /\ l \in 0 .. MAX_FRAME
            /\ l \notin held /\ held' = held \cup {l}
  BY GrowthStart DEF MapFrame
<1>3. /\ ~ TooHigh(l) /\ growing' = l /\ UNCHANGED heap_vars
      /\ MapCall(m, stage7a_paging_frame_addr(Address(l)))
  BY <1>1, <1>2 DEF MapFrame
<1>4. frames \in FrameMaps /\ Address(l) \in Nat /\ is_page_aligned(Address(l))
  BY <1>2, FrameAddress DEF StackInv, StackState, ExactIfAscending, PmmInv, PmmTypeOK
<1>5. stage7a_paging_frame_addr(Address(l)) = Address(l)
  BY <1>4 DEF is_page_aligned, stage7a_paging_page_offset, stage7a_paging_frame_addr
<1>6. Address(l) \in PAddrs /\ m \in VAddrs
  BY <1>3, <1>4, MapFrameAddress, HeapPageFacts
<1> QED BY <1>1, <1>2, <1>3, <1>4, <1>5, <1>6 DEF MapsAtLimit

(* map_page does not refuse that page.                                     *)
LEMMA GrowMapsInv ==
    ASSUME StackInv, GrowTakeFrame, MapFrame
    PROVE  StackState' /\ h_pc' = "grow"
<1>1. /\ h_pc = "grow" /\ GrowPending /\ growing = NoFrame /\ v_pc = "idle"
      /\ UNCHANGED owned /\ ExactIfAscending' /\ Served'
      /\ Entry(kheap.mapped_end_exclusive) = 0
  BY GrowthStart
<1>2. PICK m \in HeapPages \ BackedPages, l \in MapFrames(frames) : MapsAtLimit(m, l)
  BY GrowMapsCall
<1>3. /\ m = kheap.mapped_end_exclusive /\ l \in 0 .. MAX_FRAME /\ ~ TooHigh(l)
      /\ l \notin held /\ held' = held \cup {l}
  BY <1>2 DEF MapsAtLimit
<1>4. growing' = l /\ UNCHANGED heap_vars
  BY <1>2 DEF MapsAtLimit
<1>5. m \in Pages /\ is_page_aligned(m) /\ Reserved(m)
  BY HeapPageFacts
<1>6. /\ VmmInv' /\ paging' = paging /\ \A w \in Pages : Entry(w)' = Entry(w)
      /\ v_pc' \in {"map_clear", "map_pte"}
      /\ v_call' = [op |-> "map", page |-> m, frame |-> Address(l)]
  BY <1>1, <1>2, <1>3, <1>5, MapCallStep DEF StackInv, StackState, MapsAtLimit
<1>7. HeapState' /\ UNCHANGED <<kheap, h_pc, h_arg>> /\ (GrowPending' <=> GrowPending)
  BY <1>4, <1>6, HeapKept DEF StackInv, StackState
<1>8. owned \subseteq held /\ NoFrame \notin held /\ l # NoFrame
  BY <1>3 DEF StackInv, StackState, ExactIfAscending, PmmInv, PmmTypeOK, NoFrame
<1>9. Growth' /\ (owned \subseteq held)'
  BY <1>1, <1>2, <1>3, <1>4, <1>6, <1>7, <1>8 DEF Growth
<1>10. HeapFrames' = HeapFrames
  BY <1>1, <1>3, <1>4, <1>8 DEF HeapFrames
<1>11. \A v \in HeapPages : Entry(v)' = Entry(v)
  BY <1>6, HeapPageFacts
<1>12. Backed'
  BY <1>1, <1>7, <1>10, <1>11, BackedKept DEF StackInv, StackState, BackedPages
<1> QED BY <1>1, <1>6, <1>7, <1>9, <1>12 DEF StackInv, StackState

(* map_page has returned 1: the limit moves past the page, whose frame is  *)
(* now the heap's.                                                         *)
LEMMA GrowMappedInv ==
    ASSUME StackInv, GrowMapped
    PROVE  StackState' /\ h_pc' = "grow"
<1>1. /\ growing # NoFrame /\ v_pc = "idle" /\ growing' = NoFrame
      /\ GrowStep(IF answer.value = 1 THEN "mapped" ELSE "not_mapped")
      /\ UNCHANGED <<pmm_vars, vmm_vars, owned>>
  BY DEF GrowMapped
<1>2. /\ h_pc = "grow" /\ GrowPending /\ growing \in held \ owned /\ ~ TooHigh(growing)
      /\ answer.value = 1
      /\ Entry(kheap.mapped_end_exclusive) = MakeEntry(Address(growing))
  BY <1>1 DEF StackInv, StackState, Growth
<1>3. PICK n \in 0 .. HeapPageCount - 1 :
            /\ kheap.mapped_end_exclusive = HeapPage(n) /\ HeapPage(n) \in HeapPages
            /\ HeapPage(n) \notin BackedPages /\ kheap.is_initialized = 1
            /\ kheap.mapped_end_exclusive < kheap.end_exclusive
  BY <1>2, GrowthInWindow DEF StackInv, StackState
<1>4. /\ n \in Nat /\ n + 1 \in 0 .. HeapPageCount /\ HeapPage(n + 1) = HeapPage(n) + PAGE_SIZE
  <2>1. n \in Nat /\ n + 1 \in 0 .. HeapPageCount
    BY <1>3, WholePages
  <2> QED BY <2>1, HeapPageOrder
<1>5. /\ kheap' = [kheap EXCEPT !.mapped_end_exclusive = @ + PAGE_SIZE]
      /\ UNCHANGED <<h_pc, h_arg>>
  <2>1. kheap.mapped_end_exclusive \in Nat /\ kheap.end_exclusive \in Nat
    BY DEF StackInv, StackState, HeapState
  <2>2. GrowStep("mapped")
    BY <1>1, <1>2
  <2> QED BY <1>3, <2>1, <2>2 DEF GrowStep
<1>6. ExactIfAscending' /\ Served' /\ held' = held
  BY <1>1, PmmKept DEF StackInv, StackState
<1>7. VmmInv' /\ UNCHANGED <<paging, v_pc, v_call, answer>> /\ \A v : Entry(v)' = Entry(v)
  BY <1>1, VmmKept DEF StackInv, StackState
<1>8. kheap'.mapped_end_exclusive = HeapPage(n + 1) /\ HeapState'
  <2>1. HeapState
    BY DEF StackInv, StackState
  <2>2. kheap'.mapped_end_exclusive = HeapPage(n + 1) /\ HeapPage(n + 1) \in Nat
    BY <1>3, <1>4, <1>5, <2>1, HeapPageOrder DEF HeapState
  <2>3. kheap'.current = kheap.current /\ h_arg' = h_arg
    BY <1>5, <2>1 DEF HeapState
  <2>4. BumpEnd' = BumpEnd
    BY <2>3 DEF BumpEnd, PayloadStart, AlignedSize, AlignUp
  <2> QED BY <1>2, <1>3, <1>4, <1>5, <1>7, <2>1, <2>2, <2>4 DEF HeapState
<1>9. Growth' /\ (owned \subseteq held)'
  BY <1>1, <1>6, <1>7 DEF StackInv, StackState, Growth
<1>10. HeapFrames' = HeapFrames \cup {growing} /\ growing \notin HeapFrames
  <2>1. NoFrame \notin held
    BY DEF StackInv, StackState, ExactIfAscending, PmmInv, PmmTypeOK, NoFrame
  <2> QED BY <1>1, <1>2, <1>6, <2>1 DEF HeapFrames
<1>11. BackedPages' = BackedPages \cup {HeapPage(n)}
  <2>1. ASSUME NEW v \in HeapPages
        PROVE  v < HeapPage(n + 1) <=> v < HeapPage(n) \/ v = HeapPage(n)
    <3>1. PICK k \in 0 .. HeapPageCount - 1 : v = HeapPage(k)
      BY WholePages
    <3>2. k \in Nat /\ n \in Nat /\ n + 1 \in Nat
      BY <1>4, <3>1, WholePages
    <3>3. v < HeapPage(n + 1) <=> k < n + 1
      BY <3>1, <3>2, HeapPageOrder
    <3>4. v < HeapPage(n) <=> k < n
      BY <3>1, <3>2, HeapPageOrder
    <3>5. v = HeapPage(n) <=> k = n
      BY <3>1, <3>2, HeapPageOrder
    <3> QED BY <3>2, <3>3, <3>4, <3>5
  <2> QED BY <1>3, <1>8, <2>1 DEF BackedPages
<1>12. \A v \in BackedPages : Entry(v) # Entry(HeapPage(n))
  <2> SUFFICES ASSUME NEW v \in BackedPages, Entry(v) = Entry(HeapPage(n)) PROVE FALSE
    OBVIOUS
  <2>1. PICK f \in HeapFrames : ~ TooHigh(f) /\ Entry(v) = MakeEntry(Address(f))
    BY DEF StackInv, StackState, Backed
  <2>2. f \in MapFrames(frames) /\ growing \in MapFrames(frames) /\ frames \in FrameMaps
    BY <1>2, <2>1 DEF HeapFrames, StackInv, StackState, Served, ExactIfAscending, PmmInv, PmmTypeOK
  <2>3. f = growing
    BY <1>2, <1>3, <2>1, <2>2, EntryOfFrame
  <2> QED BY <1>10, <2>3
<1>13. Backed'
  <2>1. \A v \in BackedPages' : \E f \in HeapFrames' :
            ~ TooHigh(f) /\ Entry(v)' = MakeEntry(Address(f))
    BY <1>2, <1>3, <1>7, <1>10, <1>11 DEF StackInv, StackState, Backed
  <2>2. \A v, w \in BackedPages' : Entry(v)' = Entry(w)' => v = w
    BY <1>7, <1>11, <1>12 DEF StackInv, StackState, Backed
  <2>3. \A v \in HeapPages \ BackedPages' : Entry(v)' = 0
    BY <1>3, <1>7, <1>11 DEF StackInv, StackState, Backed
  <2>4. \A f \in HeapFrames' :
            TooHigh(f) \/ \E v \in BackedPages' : Entry(v)' = MakeEntry(Address(f))
    BY <1>2, <1>3, <1>7, <1>10, <1>11 DEF StackInv, StackState, Backed
  <2> QED BY <2>1, <2>2, <2>3, <2>4 DEF Backed
<1> QED BY <1>2, <1>5, <1>6, <1>7, <1>8, <1>9, <1>13 DEF StackInv, StackState

LEMMA StackStutter ==
    ASSUME StackInv, UNCHANGED stack_vars
    PROVE  StackState'
<1>1. UNCHANGED <<pmm_vars, vmm_vars, heap_vars, growing, owned>>
  BY DEF stack_vars
<1>2. ExactIfAscending' /\ Served' /\ held' = held
  BY <1>1, PmmKept DEF StackInv, StackState
<1>3. VmmInv' /\ UNCHANGED <<paging, v_pc, v_call, answer>> /\ \A v : Entry(v)' = Entry(v)
  BY <1>1, VmmKept DEF StackInv, StackState
<1>4. HeapState' /\ UNCHANGED <<kheap, h_pc, h_arg>> /\ (GrowPending' <=> GrowPending)
  BY <1>1, <1>3, HeapKept DEF StackInv, StackState
<1>5. Growth' /\ (owned \subseteq held)'
  <2>1. Entry(kheap.mapped_end_exclusive)' = Entry(kheap.mapped_end_exclusive)
    BY <1>1, <1>4 DEF Entry, vmm_vars, software
  <2> QED BY <1>1, <1>2, <1>3, <1>4, <2>1 DEF StackInv, StackState, Growth
<1>6. HeapFrames' = HeapFrames
  BY <1>1, <1>2 DEF HeapFrames
<1>7. Backed'
  BY <1>1, <1>3, <1>4, <1>6, BackedKept DEF StackInv, StackState
<1> QED BY <1>2, <1>3, <1>4, <1>5, <1>7 DEF StackInv, StackState

(* The frame allocator seen alone; in particular its table stays.          *)
LEMMA PmmSteps == StackInv /\ [StackNext]_stack_vars => [PmmNext]_pmm_vars
<1> SUFFICES ASSUME StackInv, [StackNext]_stack_vars PROVE [PmmNext]_pmm_vars
  OBVIOUS
<1>1. CASE SeedFrames \/ TakeFrame
  BY <1>1 DEF SeedFrames, TakeFrame, PmmNext
<1>2. ASSUME NEW f \in owned, GiveFrame(Address(f)) PROVE PmmNext
  <2>1. f \in 0 .. MAX_FRAME
    BY DEF StackInv, StackState, ExactIfAscending, PmmInv, PmmTypeOK
  <2>2. Address(f) \in Word
    BY <2>1, FrameAddress
  <2> QED BY <1>2, <2>2 DEF GiveFrame, PmmNext
<1>3. CASE GrowTakeFrame
  BY <1>3, GrowthStart DEF PmmNext
<1>4. CASE UNCHANGED pmm_vars
  BY <1>4
<1> QED BY <1>1, <1>2, <1>3, <1>4
      DEF StackNext, RunningStep, stack_vars, SetupPaging, ActivatePaging, InitHeap,
          Kmalloc, Kfree, MapPage, UnmapPage, GrowMapped, MapStep, HeapStep

LEMMA StackFrames == StackInv /\ [StackNext]_stack_vars => frames' = frames
BY PmmSteps, FramesFixed

(* Every step keeps the invariant.                                         *)
LEMMA StackNextInv == StackInv /\ [StackNext]_stack_vars => StackInv'
<1> SUFFICES ASSUME StackInv, [StackNext]_stack_vars PROVE StackState'
  BY StackFrames DEF StackInv
<1>1. CASE SeedFrames
  BY <1>1, SeedFramesInv
<1>2. CASE SetupPaging
  BY <1>2, SetupPagingInv
<1>3. CASE ActivatePaging
  BY <1>3, ActivatePagingInv
<1>4. CASE InitHeap
  BY <1>4, InitHeapInv
<1>5. CASE \E size \in Sizes : Kmalloc(size)
  BY <1>5, KmallocInv
<1>6. CASE \E p \in Pointers : Kfree(p)
  BY <1>6, KfreeInv
<1>7. CASE TakeFrame
  BY <1>7, TakeFrameInv
<1>8. CASE \E f \in owned : GiveFrame(Address(f))
  BY <1>8, GiveFrameInv
<1>9. CASE \E v \in CallerPages : UnmapPage(v) \/ \E f \in CallerFrames : MapPage(v, f)
  BY <1>9, UnmapPageInv, MapPageInv
<1>10. CASE GrowTakeFrame
  <2>1. NoFrameLeft \/ FrameTooHigh \/ MapFrame
    BY <1>10, GrowthStart
  <2> QED BY <1>10, <2>1, GrowFailsInv, GrowMapsInv
<1>11. CASE GrowMapped
  BY <1>11, GrowMappedInv
<1>12. CASE MapStep
  BY <1>12, MapStepInv
<1>13. CASE HeapStep
  BY <1>13, HeapStepInv
<1>14. CASE UNCHANGED stack_vars
  BY <1>14, StackStutter
<1> QED BY <1>1, <1>2, <1>3, <1>4, <1>5, <1>6, <1>7, <1>8, <1>9, <1>10, <1>11,
           <1>12, <1>13, <1>14 DEF StackNext, RunningStep

(* The frame allocator, the page mapper and the heap keep the invariants   *)
(* of each through every interleaving of their calls, and the frames that  *)
(* the heap was issued stay tied to the entries of its pages.              *)
THEOREM StackInvariant == StackSpec => []StackInv
BY StackInitInv, StackNextInv, PTL DEF StackSpec

-----------------------------------------------------------------------------
(* What a page of the heap that is backed translates to.                   *)
LEMMA BackedTranslation ==
    ASSUME StackInv, NEW v \in HeapPages, NEW f \in held, ~ TooHigh(f),
           Entry(v) = MakeEntry(Address(f))
    PROVE  /\ Translate(v) = Address(f) /\ Translate(v) # NotMapped
           /\ Translate(v) <= UINT32_MAX /\ Backing(v) = f
<1>1. frames \in FrameMaps /\ f \in MapFrames(frames)
  BY DEF StackInv, StackState, Served, ExactIfAscending, PmmInv, PmmTypeOK
<1>2. f \in 0 .. MAX_FRAME /\ Address(f) <= UINT32_MAX /\ Address(f) \in Frames
  BY <1>1, MapFrameAddress
<1>3. Address(f) \in Nat /\ Address(f) \div PAGE_SIZE = f
  BY <1>2, FrameAddress
<1>4. v \in Pages
  BY HeapPageFacts
<1>5. Translate(v) = Address(f)
  BY <1>2, <1>4, TranslateIs, MadeEntry DEF StackInv, StackState, VmmInv, SoftInv
<1> QED BY <1>2, <1>3, <1>5 DEF Backing, NotMapped

LEMMA InvBacks == StackInv => HeapPagesBacked
<1> SUFFICES ASSUME StackInv PROVE HeapPagesBacked
  OBVIOUS
<1>1. ASSUME NEW v \in BackedPages
      PROVE  \E f \in HeapFrames : /\ Entry(v) = MakeEntry(Address(f))
                                   /\ Translate(v) # NotMapped
                                   /\ Translate(v) <= UINT32_MAX /\ Backing(v) = f
  <2>1. PICK f \in HeapFrames : ~ TooHigh(f) /\ Entry(v) = MakeEntry(Address(f))
    BY DEF StackInv, StackState, Backed
  <2>2. v \in HeapPages /\ f \in held
    BY DEF BackedPages, HeapFrames
  <2> QED BY <2>1, <2>2, BackedTranslation
<1>2. HeapFrames \subseteq held \ (owned \cup PendingFrames \cup {growing})
  BY DEF HeapFrames, StackInv, StackState, ExactIfAscending, PmmInv, OneOwner
<1>3. \A v, w \in BackedPages : Backing(v) = Backing(w) => v = w
  BY <1>1 DEF StackInv, StackState, Backed
<1>4. ASSUME NEW v \in HeapPages \ BackedPages, Translate(v) # NotMapped
      PROVE  growing # NoFrame /\ v = kheap.mapped_end_exclusive
  <2>1. Entry(v) # 0
    BY <1>4, HeapPageFacts, TranslateIs DEF StackInv, StackState, VmmInv, SoftInv
  <2> QED BY <2>1 DEF StackInv, StackState, Backed
<1> QED BY <1>1, <1>2, <1>3, <1>4 DEF HeapPagesBacked

(* Every page below the heap's mapped limit is mapped to a frame of its    *)
(* own, below 4 GiB, issued to the heap and to nobody else, whatever the   *)
(* memory map and whatever failed half-way: no access to a block faults or *)
(* reaches another owner's memory.                                         *)
THEOREM HeapStaysBacked == StackSpec => []HeapPagesBacked
BY StackInvariant, InvBacks, PTL

LEMMA InvLosesHigh == StackInv => LostFramesAreHigh
<1> SUFFICES ASSUME StackInv,
                    NEW f \in held \ (owned \cup {growing} \cup {Backing(v) : v \in BackedPages})
             PROVE  IsHigh(f)
  BY DEF LostFramesAreHigh
<1>1. f \in HeapFrames /\ f \in Nat
  BY MaxFrame DEF HeapFrames, StackInv, StackState, ExactIfAscending, PmmInv, PmmTypeOK
<1>2. TooHigh(f)
  <2> SUFFICES ASSUME ~ TooHigh(f) PROVE FALSE
    OBVIOUS
  <2>1. PICK v \in BackedPages : Entry(v) = MakeEntry(Address(f))
    BY <1>1 DEF StackInv, StackState, Backed
  <2>2. Backing(v) = f
    BY <2>1, BackedTranslation DEF BackedPages
  <2> QED BY <2>1, <2>2
<1> QED BY <1>1, <1>2, TooHighIsHigh

(* A growth that fails loses no frame that the heap could have used: what  *)
(* was issued and backs nothing lies above 4 GiB.                          *)
THEOREM OnlyHighFramesAreLost == StackSpec => []LostFramesAreHigh
BY StackInvariant, InvLosesHigh, PTL

-----------------------------------------------------------------------------
(* When kmalloc fails.                                                     *)
NoLowFrame ==
    IF pending # <<>>
    THEN IsHigh(Head(pending))
    ELSE Ascending(frames) => \A f \in Unissued : IsHigh(f)

(* The only step of the growth loop that returns Null is one that was      *)
(* given no frame, or a frame above 4 GiB.                                 *)
LEMMA FailingStep ==
    ASSUME StackInv, StackNext, h_pc = "grow", h_pc' = "idle", h_result'.value = Null
    PROVE  /\ GrowTakeFrame /\ stage6b_pmm_alloc_frame
           /\ last_alloc' # NoFrame => TooHigh(last_alloc')
<1>1. ~ StackIdle
  BY DEF StackIdle
<1>2. ~ MapStep
  BY DEF MapStep, heap_vars
<1>3. ~ GrowMapped
  BY GrowMappedInv
<1>4. ~ HeapStep
  <2> SUFFICES ASSUME HeapStep PROVE FALSE
    OBVIOUS
  <2>1. BumpAlloc
    BY DEF HeapStep, ReuseHit, ReuseNext, ReuseMiss, FreeStep,
           FreeHit, FreeInterior, FreeNext, FreeMiss
  <2>2. h_result'.value = kheap.current + HEADER_SIZE
    BY <2>1 DEF BumpAlloc, HeapReturn, PayloadStart
  <2>3. kheap.current \in Nat /\ HEADER_SIZE \in Nat \ {0}
    BY ConstantFacts DEF StackInv, StackState, HeapState
  <2> QED BY <2>2, <2>3 DEF Null
<1>5. GrowTakeFrame
  BY <1>1, <1>2, <1>3, <1>4
     DEF StackNext, RunningStep, SeedFrames, SetupPaging, ActivatePaging, InitHeap,
         Kmalloc, Kfree, TakeFrame, GiveFrame, MapPage, UnmapPage
<1>6. stage6b_pmm_alloc_frame /\ (NoFrameLeft \/ FrameTooHigh)
  BY <1>5, GrowthStart, GrowMapsInv
<1> QED BY <1>5, <1>6 DEF NoFrameLeft, FrameTooHigh

(* A kmalloc that fits the window fails only when the frame allocator has  *)
(* no frame below 4 GiB to give next.                                      *)
THEOREM KmallocFailsOnlyWithoutFrames == StackSpec => FailsOnlyWithoutLowFrame
<1>1. StackInv /\ [StackNext]_stack_vars =>
        [h_pc = "grow" /\ h_pc' = "idle" /\ h_result'.value = Null => NoLowFrame]_stack_vars
  <2> SUFFICES ASSUME StackInv, StackNext, h_pc = "grow", h_pc' = "idle",
                      h_result'.value = Null
               PROVE  NoLowFrame
    OBVIOUS
  <2>1. stage6b_pmm_alloc_frame /\ (last_alloc' # NoFrame => TooHigh(last_alloc'))
    BY FailingStep
  <2>2. ExactIfAscending /\ PmmInv /\ Served
    BY DEF StackInv, StackState, ExactIfAscending
  <2>3. last_alloc' \in 0 .. MAX_FRAME => /\ last_alloc' \in Nat /\ last_alloc' # NoFrame
    BY MaxFrame DEF NoFrame
  <2>4. CASE pending # <<>>
    <3>1. last_alloc' = Head(pending) /\ last_alloc' \in 0 .. MAX_FRAME
      BY <2>1, <2>2, <2>4, AllocEffect
    <3> QED BY <2>1, <2>3, <2>4, <3>1, TooHighIsHigh DEF NoLowFrame
  <2>5. CASE pending = <<>>
    <3> SUFFICES ASSUME Ascending(frames), NEW f \in Unissued PROVE IsHigh(f)
      BY <2>5 DEF NoLowFrame
    <3>1. Ordered
      BY <2>1, <2>2, AllocOrdered
    <3>2. last_alloc' \in Unissued /\ last_alloc' <= f
      BY <2>5, <3>1 DEF Ordered
    <3>3. last_alloc' \in 0 .. MAX_FRAME /\ f \in Nat
      BY <3>2, MaxFrame DEF Unissued
    <3> QED BY <2>1, <2>3, <3>2, <3>3, TooHighIsHigh
  <2> QED BY <2>4, <2>5
<1> QED BY <1>1, StackInvariant, PTL DEF StackSpec, FailsOnlyWithoutLowFrame, NoLowFrame


-----------------------------------------------------------------------------
(* The stack seen by each of its components: the other callers and the     *)
(* growth loop use the frame allocator and the page mapper within what     *)
(* their specifications allow, and a growth step has one of the outcomes   *)
(* that KHeap provides for.                                                *)
LEMMA VmmSteps == StackInv /\ [StackNext]_stack_vars => [VmmNext]_vmm_vars
<1> SUFFICES ASSUME StackInv, [StackNext]_stack_vars PROVE [VmmNext]_vmm_vars
  OBVIOUS
<1>1. CASE SetupPaging \/ ActivatePaging \/ MapStep
  BY <1>1 DEF SetupPaging, ActivatePaging, MapStep, VmmNext, Software
<1>2. ASSUME NEW v \in CallerPages, UnmapPage(v) \/ \E f \in CallerFrames : MapPage(v, f)
      PROVE  VmmNext
  <2>1. v \in VAddrs /\ CallerFrames \subseteq PAddrs
    BY StackAssumption
  <2> QED BY <1>2, <2>1 DEF UnmapPage, MapPage, VmmNext, Software
<1>3. CASE GrowTakeFrame
  <2>1. NoFrameLeft \/ FrameTooHigh \/ MapFrame
    BY <1>3, GrowthStart
  <2>2. CASE MapFrame
    <3>1. PICK v \in VAddrs, f \in PAddrs : MapCall(v, f)
      BY <1>3, <2>2, GrowMapsCall DEF MapsAtLimit
    <3> QED BY <3>1 DEF VmmNext, Software
  <2> QED BY <2>1, <2>2 DEF NoFrameLeft, FrameTooHigh
<1>4. CASE UNCHANGED vmm_vars
  BY <1>4
<1> QED BY <1>1, <1>2, <1>3, <1>4
      DEF StackNext, RunningStep, stack_vars, SeedFrames, TakeFrame, GiveFrame, InitHeap,
          Kmalloc, Kfree, GrowMapped, HeapStep

LEMMA HeapSteps == StackInv /\ [StackNext]_stack_vars => [HeapNext]_heap_vars
<1> SUFFICES ASSUME StackInv, [StackNext]_stack_vars PROVE [HeapNext]_heap_vars
  OBVIOUS
<1>1. CASE InitHeap \/ (\E size \in Sizes : Kmalloc(size)) \/ (\E p \in Pointers : Kfree(p))
  BY <1>1 DEF InitHeap, Kmalloc, Kfree, HeapNext
<1>2. CASE HeapStep
  BY <1>2 DEF HeapStep, HeapNext, AllocStep
<1>3. CASE GrowMapped
  <2>1. \E outcome \in GrowOutcomes : GrowStep(outcome)
    BY <1>3 DEF GrowMapped, GrowOutcomes
  <2> QED BY <2>1 DEF HeapNext, AllocStep
<1>4. CASE GrowTakeFrame
  <2>1. NoFrameLeft \/ FrameTooHigh \/ MapFrame
    BY <1>4, GrowthStart
  <2>2. \/ \E outcome \in GrowOutcomes : GrowStep(outcome)
        \/ UNCHANGED heap_vars
    BY <2>1 DEF NoFrameLeft, FrameTooHigh, MapFrame, GrowOutcomes
  <2> QED BY <2>2 DEF HeapNext, AllocStep
<1>5. CASE UNCHANGED heap_vars
  BY <1>5
<1> QED BY <1>1, <1>2, <1>3, <1>4, <1>5
      DEF StackNext, RunningStep, stack_vars, SeedFrames, TakeFrame, GiveFrame,
          SetupPaging, ActivatePaging, MapPage, UnmapPage, MapStep

(* Composition loses nothing: whatever the heap and the other callers do,  *)
(* the frame allocator and the page mapper behave as their specifications  *)
(* say, and the heap as KHeap does with its free choice of outcomes.  So   *)
(* what is proved of each of them holds in the running kernel.             *)
THEOREM ComponentsBehave ==
    StackSpec => PmmSpec /\ VmmSpec /\ HeapBehaviour
<1>1. StackInit => PmmInit /\ VmmInit /\ HeapInit
  BY DEF StackInit
<1> QED BY <1>1, StackInvariant, PmmSteps, VmmSteps, HeapSteps, PTL
      DEF StackSpec, PmmSpec, VmmSpec, HeapBehaviour

(* In particular no frame is issued twice and the map stays a function of  *)
(* pages, however heap growth and the other callers interleave.            *)
THEOREM StackKeepsPromises ==
    StackSpec => []OneOwner /\ NeverIssueHeldFrame /\ []TablesIntact /\ ImplementsPageMap
BY ComponentsBehave, OwnershipIsUnique, NoDoubleIssue, TablesStayIntact, PagingMeetsContract, PTL

(* And kmalloc and kfree keep the contract of HeapContract, and the heap   *)
(* its shape and its first-fit policy, when their pages come from the      *)
(* kernel's own frame allocator and page mapper.                           *)
THEOREM StackMeetsHeapContract ==
    StackSpec => []HeapIntact /\ FirstFit /\ ImplementsContract
BY ComponentsBehave, HeapStaysIntact, ReuseIsFirstFit, HeapMeetsContract, PTL
-----------------------------------------------------------------------------
(* The bytes of the blocks.                                                *)

(* An address is the page it lies in and its offset there.                 *)
LEMMA PageAndOffset ==
    ASSUME NEW a \in Nat
    PROVE  /\ a \div PAGE_SIZE \in Nat /\ PageOf(a) = (a \div PAGE_SIZE) * PAGE_SIZE
           /\ stage7a_paging_page_offset(a) \in 0 .. PAGE_SIZE - 1
           /\ PageOf(a) \in Nat /\ a = PageOf(a) + stage7a_paging_page_offset(a)
<1>1. /\ a \div PAGE_SIZE \in Nat /\ a % PAGE_SIZE \in 0 .. PAGE_SIZE - 1
      /\ a = (PAGE_SIZE * (a \div PAGE_SIZE)) + (a % PAGE_SIZE)
  BY PageSize, DivMod
<1>2. (a \div PAGE_SIZE) * PAGE_SIZE \in Nat
  BY <1>1, MultipleAligned
<1>3. (a \div PAGE_SIZE) * PAGE_SIZE = PAGE_SIZE * (a \div PAGE_SIZE)
  BY <1>1, PageSize
<1> QED BY <1>1, <1>2, <1>3, PageSize
        DEF PageOf, stage7a_paging_frame_addr, stage7a_paging_page_offset

(* An address below the heap's mapped limit lies in a backed page.         *)
LEMMA BackedAddress ==
    ASSUME HeapState, kheap.is_initialized = 1,
           NEW a \in Nat, HEAP_START <= a, a < kheap.mapped_end_exclusive
    PROVE  PageOf(a) \in BackedPages
<1> DEFINE s == HEAP_START \div PAGE_SIZE
           q == a \div PAGE_SIZE
<1>1. HEAP_START \in Nat /\ s \in Nat /\ HEAP_START = PAGE_SIZE * s
  BY WholePages, WindowAligned, AlignedIs
<1>2. q \in Nat /\ PageOf(a) = q * PAGE_SIZE
  BY PageAndOffset
<1>3. PICK n \in 0 .. HeapPageCount : kheap.mapped_end_exclusive = HeapPage(n)
  BY DEF HeapState
<1>4. n \in Nat /\ n <= HeapPageCount /\ HeapPageCount \in Nat
  BY WholePages
<1>5. s <= q /\ q < s + n
  <2>1. s * PAGE_SIZE <= a
    BY <1>1, PageSize
  <2>2. a < (s + n) * PAGE_SIZE
    BY <1>1, <1>3, <1>4, PageSize DEF HeapPage
  <2> HIDE DEF s
  <2>3. s + n \in Nat
    BY <1>1, <1>4
  <2> QED BY <1>1, <2>1, <2>2, <2>3, PageSize, DivBounds
<1> HIDE DEF s, q
<1>6. PICK k \in Nat : q = s + k
  <2>1. q - s \in Nat /\ q = s + (q - s)
    BY <1>1, <1>2, <1>5
  <2> QED BY <2>1
<1>7. PageOf(a) = HeapPage(k)
  BY <1>1, <1>2, <1>6, PageSize DEF HeapPage
<1>8. k < n
  BY <1>1, <1>4, <1>5, <1>6
<1>9. HeapPage(k) < HeapPage(n)
  BY <1>4, <1>8, HeapPageOrder
<1>10. k \in 0 .. HeapPageCount - 1
  BY <1>4, <1>8
<1> QED BY <1>3, <1>7, <1>9, <1>10, WholePages DEF BackedPages

(* Where a byte of a block is.                                             *)
LEMMA ByteIsBacked ==
    ASSUME StackInv, HeapInv, NEW h \in DOMAIN hdr, NEW a \in BlockBytes(h)
    PROVE  /\ a \in Nat /\ h <= a /\ a < PayloadEnd(h)
           /\ h \in Nat /\ PayloadEnd(h) \in Nat
           /\ PageOf(a) \in BackedPages
<1>1. HeapOK /\ HeapState
  BY DEF StackInv, StackState, HeapInv
<1>2. /\ kheap.is_initialized = 1
      /\ h \in Nat /\ HEAP_START <= h
      /\ PayloadEnd(h) \in Nat /\ PayloadEnd(h) <= kheap.current
  BY <1>1, BlockFacts
<1>3. a \in Nat /\ h <= a /\ a < PayloadEnd(h)
  BY <1>2 DEF BlockBytes
<1>4. /\ kheap.current \in Nat /\ kheap.mapped_end_exclusive \in Nat
      /\ kheap.current <= kheap.mapped_end_exclusive
  BY <1>1, WindowFacts
<1>5. HEAP_START <= a /\ a < kheap.mapped_end_exclusive
  BY <1>2, <1>3, <1>4, ConstantFacts
<1> QED BY <1>1, <1>2, <1>3, <1>5, BackedAddress

(* A backed page is the whole of one frame.                                *)
LEMMA BackedFrame ==
    ASSUME StackInv, NEW v \in BackedPages
    PROVE  \E f \in HeapFrames \cap Nat : Translate(v) = Address(f) /\ Backing(v) = f
<1>1. PICK f \in HeapFrames : ~ TooHigh(f) /\ Entry(v) = MakeEntry(Address(f))
  BY DEF StackInv, StackState, Backed
<1>2. v \in HeapPages /\ f \in held /\ f \in Nat
  BY MaxFrame DEF BackedPages, HeapFrames, StackInv, StackState, ExactIfAscending,
                  PmmInv, PmmTypeOK
<1>3. Translate(v) = Address(f) /\ Backing(v) = f
  BY <1>1, <1>2, BackedTranslation
<1> QED BY <1>1, <1>2, <1>3

(* Two addresses in backed pages with the same physical byte are the same. *)
LEMMA ByteIsUnique ==
    ASSUME StackInv, NEW a \in Nat, NEW b \in Nat,
           PageOf(a) \in BackedPages, PageOf(b) \in BackedPages,
           PhysicalByte(a) = PhysicalByte(b)
    PROVE  a = b
<1> DEFINE r == stage7a_paging_page_offset(a)
           t == stage7a_paging_page_offset(b)
<1>1. PICK f \in Nat : Translate(PageOf(a)) = Address(f) /\ Backing(PageOf(a)) = f
  BY BackedFrame
<1>2. PICK g \in Nat : Translate(PageOf(b)) = Address(g) /\ Backing(PageOf(b)) = g
  BY BackedFrame
<1>3. /\ r \in 0 .. PAGE_SIZE - 1 /\ a = PageOf(a) + r
      /\ t \in 0 .. PAGE_SIZE - 1 /\ b = PageOf(b) + t
  BY PageAndOffset
<1>4. (f * PAGE_SIZE) + r = (g * PAGE_SIZE) + t
  BY <1>1, <1>2 DEF PhysicalByte, Address
<1> HIDE DEF r, t
<1>5. f = g /\ r = t
  <2>1. PICK x \in Nat : x = (PAGE_SIZE * f) + r /\ x = (PAGE_SIZE * g) + t
    BY <1>3, <1>4, PageSize
  <2>2. r \in Nat /\ r < PAGE_SIZE /\ t \in Nat /\ t < PAGE_SIZE
    BY <1>3, PageSize
  <2>3. x \div PAGE_SIZE = f /\ x % PAGE_SIZE = r
    BY <2>1, <2>2, PageSize, DivUnique
  <2>4. x \div PAGE_SIZE = g /\ x % PAGE_SIZE = t
    BY <2>1, <2>2, PageSize, DivUnique
  <2> QED BY <2>3, <2>4
<1>6. PageOf(a) = PageOf(b)
  BY <1>1, <1>2, <1>5, InvBacks DEF HeapPagesBacked
<1> QED BY <1>3, <1>5, <1>6

LEMMA InvOwnsBytes == StackInv /\ HeapInv => BlocksOwnTheirBytes
<1> SUFFICES ASSUME StackInv, HeapInv PROVE BlocksOwnTheirBytes
  OBVIOUS
<1>1. ASSUME NEW h \in DOMAIN hdr, NEW a \in BlockBytes(h)
      PROVE  /\ Translate(PageOf(a)) # NotMapped
             /\ Backing(PageOf(a)) \in held \ (owned \cup PendingFrames)
  BY <1>1, ByteIsBacked, InvBacks DEF HeapPagesBacked
<1>2. ASSUME NEW h \in DOMAIN hdr, NEW k \in DOMAIN hdr, h # k,
             NEW x \in PhysicalBytes(h), x \in PhysicalBytes(k)
      PROVE  FALSE
  <2>1. PICK a \in BlockBytes(h) : x = PhysicalByte(a)
    BY <1>2 DEF PhysicalBytes
  <2>2. PICK b \in BlockBytes(k) : x = PhysicalByte(b)
    BY <1>2 DEF PhysicalBytes
  <2>3. /\ a \in Nat /\ h <= a /\ a < PayloadEnd(h) /\ h \in Nat /\ PayloadEnd(h) \in Nat
        /\ PageOf(a) \in BackedPages
    BY ByteIsBacked
  <2>4. /\ b \in Nat /\ k <= b /\ b < PayloadEnd(k) /\ k \in Nat /\ PayloadEnd(k) \in Nat
        /\ PageOf(b) \in BackedPages
    BY ByteIsBacked
  <2>5. a = b
    BY <2>1, <2>2, <2>3, <2>4, ByteIsUnique
  <2>6. (h < k => PayloadEnd(h) <= k) /\ (k < h => PayloadEnd(k) <= h)
    BY DEF HeapInv, HeapOK, BlocksTile
  <2> QED BY <1>2, <2>3, <2>4, <2>5, <2>6
<1> QED BY <1>1, <1>2 DEF BlocksOwnTheirBytes

(* A byte of physical memory belongs to at most one block, and the frame   *)
(* it lies in to the heap alone, for every memory map, layout and sequence *)
(* of calls with every failure on the way.  The block chain is disjoint in *)
(* the window, the window's pages have frames of their own, and no frame   *)
(* is issued twice: none of the three components gives this by itself.     *)
THEOREM BlocksNeverShareMemory == StackSpec => []BlocksOwnTheirBytes
BY StackInvariant, ComponentsBehave, HeapInvariant, InvOwnsBytes, PTL

-----------------------------------------------------------------------------
(* The calls end.                                                          *)
LEMMA MapProgress ==
    ASSUME CallStep
    PROVE  /\ v_pc # "idle" /\ MapStepsLeft \in 0 .. 4 /\ MapStepsLeft' \in 0 .. 4
           /\ MapStepsLeft' < MapStepsLeft
<1>1. \/ v_pc = "map_clear" /\ v_pc' = "map_pde"
      \/ v_pc = "map_pde" /\ v_pc' = "map_pte"
      \/ v_pc = "map_pte" /\ v_pc' = "map_inv"
      \/ v_pc = "map_inv" /\ v_pc' = "idle"
      \/ v_pc = "unmap_pte" /\ v_pc' = "unmap_inv"
      \/ v_pc = "unmap_inv" /\ v_pc' = "unmap_pde"
      \/ v_pc = "unmap_pde" /\ v_pc' = "idle"
  BY DEF CallStep, MapClearTable, MapInstallTable, MapWriteEntry, MapInvalidate,
         UnmapClearEntry, UnmapInvalidate, UnmapDropTable, Goto, Return
<1> QED BY <1>1 DEF MapStepsLeft

LEMMA StepsDecrease ==
    ASSUME NEW a \in Nat, NEW b \in Nat, NEW r \in 0 .. 5, NEW s \in 0 .. 5,
           b < a \/ (b = a /\ s < r)
    PROVE  (6 * b) + s \in 0 .. ((6 * a) + r) - 1
OBVIOUS

LEMMA StackProgress ==
    ASSUME StackInv, HeapInv, StackNext, ~ StackIdle
    PROVE  StackStepsLeft' \in 0 .. StackStepsLeft - 1
<1> DEFINE rest == IF h_pc = "grow" /\ growing = NoFrame THEN 5 ELSE MapStepsLeft
<1>1. rest \in 0 .. 5 /\ rest' \in 0 .. 5
  BY DEF MapStepsLeft
<1>2. HeapStepsLeft \in Nat
  BY StepsLeftNat
<1>3. /\ StackStepsLeft = (6 * HeapStepsLeft) + rest
      /\ StackStepsLeft' = (6 * HeapStepsLeft') + rest'
  BY DEF StackStepsLeft
<1> HIDE DEF rest
<1>4. ASSUME h_pc # "idle", HeapNext PROVE StackStepsLeft' \in 0 .. StackStepsLeft - 1
  <2>1. HeapStepsLeft' \in 0 .. HeapStepsLeft - 1
    BY <1>4, HeapProgress
  <2>2. HeapStepsLeft' \in Nat /\ HeapStepsLeft' < HeapStepsLeft
    BY <1>2, <2>1
  <2>3. (6 * HeapStepsLeft') + rest' \in 0 .. ((6 * HeapStepsLeft) + rest) - 1
    BY <1>1, <1>2, <2>2, StepsDecrease
  <2> QED BY <1>3, <2>3
<1>5. ASSUME UNCHANGED heap_vars, rest' < rest
      PROVE  StackStepsLeft' \in 0 .. StackStepsLeft - 1
  <2>1. HeapStepsLeft' = HeapStepsLeft
    BY <1>5 DEF heap_vars, HeapStepsLeft
  <2>2. (6 * HeapStepsLeft) + rest' \in 0 .. ((6 * HeapStepsLeft) + rest) - 1
    BY <1>1, <1>2, <1>5, StepsDecrease
  <2> QED BY <1>3, <2>1, <2>2
<1>6. CASE HeapStep \/ GrowMapped
  <2>1. h_pc # "idle"
    BY <1>6 DEF HeapStep, GrowMapped, GrowStep, ReuseHit, ReuseNext, ReuseMiss, BumpAlloc,
                FreeStep, FreeHit, FreeInterior, FreeNext, FreeMiss
  <2>2. HeapNext
    BY <1>6 DEF HeapStep, GrowMapped, HeapNext, AllocStep, GrowOutcomes
  <2> QED BY <1>4, <2>1, <2>2
<1>7. CASE MapStep
  <2>1. /\ CallStep /\ UNCHANGED heap_vars /\ UNCHANGED <<h_pc, growing>>
    BY <1>7 DEF MapStep, heap_vars
  <2>2. ~ (h_pc = "grow" /\ growing = NoFrame)
    BY <2>1, MapProgress DEF StackInv, StackState, Growth
  <2>3. rest' < rest
    BY <2>1, <2>2, MapProgress DEF rest
  <2> QED BY <1>5, <2>1, <2>3
<1>8. CASE GrowTakeFrame
  <2>1. h_pc = "grow" /\ growing = NoFrame /\ (NoFrameLeft \/ FrameTooHigh \/ MapFrame)
    BY <1>8, GrowthStart
  <2>2. CASE NoFrameLeft \/ FrameTooHigh
    <3>1. HeapNext
      BY <2>2 DEF NoFrameLeft, FrameTooHigh, HeapNext, AllocStep, GrowOutcomes
    <3> QED BY <1>4, <2>1, <3>1
  <2>3. CASE MapFrame
    <3>1. growing' # NoFrame /\ UNCHANGED heap_vars
      BY <2>3 DEF MapFrame
    <3>2. rest = 5 /\ rest' = MapStepsLeft' /\ MapStepsLeft' \in 0 .. 4
      BY <2>1, <3>1 DEF rest, MapStepsLeft
    <3> QED BY <1>5, <3>1, <3>2
  <2> QED BY <2>1, <2>2, <2>3
<1> QED BY <1>6, <1>7, <1>8
        DEF StackNext, RunningStep, SeedFrames, SetupPaging, ActivatePaging, InitHeap,
            Kmalloc, Kfree, TakeFrame, GiveFrame, MapPage, UnmapPage

(* Every call of the memory stack is bounded: kmalloc and kfree end after  *)
(* at most 6 * (2 + 2 * HEAP_END) + 5 steps, the growth loop, the frame    *)
(* allocator and the page mapper included, whatever memory there is.       *)
THEOREM StackCallsEnd == StackSpec => StackMakesProgress
<1>1. StackInv /\ HeapInv /\ [StackNext]_stack_vars =>
        [~ StackIdle => StackStepsLeft' \in 0 .. StackStepsLeft - 1]_stack_vars
  BY StackProgress
<1> QED BY <1>1, StackInvariant, ComponentsBehave, HeapInvariant, PTL
        DEF StackSpec, StackMakesProgress
=============================================================================
