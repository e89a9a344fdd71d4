---------------------------- MODULE MemoryStack ----------------------------
(***************************************************************************)
(* The frame allocator, the page mapper and the heap of the kernel as they *)
(* call each other: a growth step of the heap takes a frame from Pmm and   *)
(* maps it through Vmm, one store at a time, and the three share nothing   *)
(* else.  The three modules are extended, so that what is proved of each   *)
(* of them holds here.                                                     *)
(*                                                                         *)
(* The kernel is one thread, so no other call starts while one runs; the   *)
(* processor that walks the tables at the same time is the subject of Vmm. *)
(***************************************************************************)
EXTENDS Pmm, Vmm, KHeap

CONSTANTS
    CallerPages, CallerFrames,  \* what callers other than the heap map
    MaxTaken                    \* bound: other callers stop taking frames at this count

VARIABLES
    growing,   \* the frame a growth step has taken and not yet mapped
    owned      \* history: the frames of callers other than the heap

stack_vars == <<pmm_vars, vmm_vars, heap_vars, growing, owned>>

Address(f) == f * PAGE_SIZE

HeapPages ==
    {HEAP_START + k * PAGE_SIZE : k \in 0 .. ((HEAP_END - HEAP_START) \div PAGE_SIZE) - 1}

(* The frame allocator and the paging code agree on 4 KiB; the windows are *)
(* 32-bit addresses; the addresses passed to the page mapper include those *)
(* the heap passes; and no frame that is handed out holds a page table.    *)
ASSUME StackAssumption ==
    /\ FRAME_SIZE = PAGE_SIZE
    /\ MAPPING_END <= UINT32_MAX /\ UINT32_MAX <= UINT64_MAX
    /\ CallerPages \subseteq MAPPING_START .. MAPPING_END - 1
    /\ HeapPages \cup CallerPages \subseteq VAddrs
    /\ CallerFrames \subseteq PAddrs
    /\ \A m \in FrameMaps : \A f \in MapFrames(m) :
        /\ Address(f) <= UINT32_MAX => Address(f) \in PAddrs
        /\ Address(f) \notin Tables

(* Faulty variant: the last page below 4 GiB is refused too.               *)
EndIsHigh(f) == Address(f) + PAGE_SIZE > UINT32_MAX

(* The frame's address is no 32-bit address.                               *)
TooHigh(f) == Address(f) > UINT32_MAX

StackInit ==
    /\ PmmInit /\ VmmInit /\ HeapInit
    /\ growing = NoFrame /\ owned = {}

(* No call is running.                                                     *)
StackIdle == v_pc = "idle" /\ h_pc = "idle"

-----------------------------------------------------------------------------
(* One iteration of the loop of stage8c_kheap_ensure_mapped_until.  It     *)
(* takes a frame first.  Without one, or with one above 4 GiB, the         *)
(* allocation fails, and nobody gives that frame back.  Otherwise it calls *)
(* map_page.                                                               *)
NoFrameLeft ==
    /\ last_alloc' = NoFrame
    /\ GrowStep("no_frame")
    /\ UNCHANGED <<vmm_vars, growing>>

FrameTooHigh ==
    /\ last_alloc' # NoFrame /\ TooHigh(last_alloc')
    /\ GrowStep("high_frame")
    /\ UNCHANGED <<vmm_vars, growing>>

(* Faulty variant: the page after the limit is mapped.                     *)
MapNextPage ==
    /\ last_alloc' # NoFrame /\ ~ TooHigh(last_alloc')
    /\ growing' = last_alloc'
    /\ MapCall(kheap.mapped_end_exclusive + PAGE_SIZE, Address(last_alloc'))
    /\ UNCHANGED heap_vars

MapFrame ==
    /\ last_alloc' # NoFrame /\ ~ TooHigh(last_alloc')
    /\ growing' = last_alloc'
    /\ MapCall(kheap.mapped_end_exclusive,
                 stage7a_paging_frame_addr(Address(last_alloc')))
    /\ UNCHANGED heap_vars

GrowTakeFrame ==
    /\ h_pc = "grow" /\ GrowPending
    /\ growing = NoFrame
    /\ IF kheap.mapped_end_exclusive >= kheap.end_exclusive
        THEN GrowStep("no_frame") /\ UNCHANGED <<pmm_vars, vmm_vars, growing>>
        ELSE stage6b_pmm_alloc_frame /\ (NoFrameLeft \/ FrameTooHigh \/ MapFrame)
    /\ UNCHANGED owned

(* map_page has returned: the mapped limit moves, or the allocation fails. *)
GrowMapped ==
    /\ growing # NoFrame /\ v_pc = "idle"
    /\ GrowStep(IF answer.value = 1 THEN "mapped" ELSE "not_mapped")
    /\ growing' = NoFrame
    /\ UNCHANGED <<pmm_vars, vmm_vars, owned>>

MapStep ==
    /\ CallStep
    /\ UNCHANGED <<pmm_vars, heap_vars, growing, owned>>

(* The steps of a heap call that stay inside the heap.                     *)
HeapStep ==
    /\ ReuseHit \/ ReuseNext \/ ReuseMiss \/ BumpAlloc \/ FreeStep
    /\ UNCHANGED <<pmm_vars, vmm_vars, growing, owned>>

RunningStep == GrowTakeFrame \/ GrowMapped \/ MapStep \/ HeapStep

-----------------------------------------------------------------------------
(* The calls, which start when no call is running.                         *)
SeedFrames ==
    /\ StackIdle
    /\ BootSeed
    /\ UNCHANGED <<vmm_vars, heap_vars, growing, owned>>

SetupPaging ==
    /\ StackIdle
    /\ stage7b_setup_early_identity_paging
    /\ UNCHANGED <<pmm_vars, heap_vars, growing, owned>>

ActivatePaging ==
    /\ StackIdle
    /\ stage7c_activate
    /\ UNCHANGED <<pmm_vars, heap_vars, growing, owned>>

InitHeap ==
    /\ StackIdle /\ paging = "on"
    /\ stage8c_kheap_bootstrap_init
    /\ UNCHANGED <<pmm_vars, vmm_vars, growing, owned>>

Kmalloc(size) ==
    /\ StackIdle
    /\ AllocCall(size)
    /\ UNCHANGED <<pmm_vars, vmm_vars, growing, owned>>

Kfree(p) ==
    /\ StackIdle
    /\ FreeCall(p)
    /\ UNCHANGED <<pmm_vars, vmm_vars, growing, owned>>

TakeFrame ==
    /\ StackIdle
    /\ stage6b_pmm_alloc_frame
    /\ owned' = owned \cup ({last_alloc'} \ {NoFrame})
    /\ UNCHANGED <<vmm_vars, heap_vars, growing>>

GiveFrame(a) ==
    /\ StackIdle
    /\ \/ stage6c_pmm_free_frame(a) /\ owned' = owned \ {a \div PAGE_SIZE}
       \/ FreeRejected(a) /\ UNCHANGED owned
    /\ UNCHANGED <<vmm_vars, heap_vars, growing>>

MapPage(v, f) ==
    /\ StackIdle
    /\ MapCall(v, f)
    /\ UNCHANGED <<pmm_vars, heap_vars, growing, owned>>

UnmapPage(v) ==
    /\ StackIdle
    /\ UnmapCall(v)
    /\ UNCHANGED <<pmm_vars, heap_vars, growing, owned>>

(* Callers give back frames they own, and map pages of the mapping window. *)
StackNext ==
    \/ SeedFrames \/ SetupPaging \/ ActivatePaging \/ InitHeap
    \/ \E size \in Sizes : Kmalloc(size)
    \/ \E p \in Pointers : Kfree(p)
    \/ pmm.allocation_count < MaxTaken /\ TakeFrame
    \/ \E f \in owned : GiveFrame(Address(f))
    \/ \E v \in CallerPages : UnmapPage(v) \/ \E f \in CallerFrames : MapPage(v, f)
    \/ RunningStep

StackSpec == StackInit /\ [][StackNext]_stack_vars

-----------------------------------------------------------------------------
LowFrames == 0 .. ((UINT32_MAX + 1) \div PAGE_SIZE) - 1

IsHigh(f) == f \notin LowFrames

BackedPages == {v \in HeapPages : v < kheap.mapped_end_exclusive}

Backing(v) == Translate(v) \div PAGE_SIZE

(* The pages below the heap's mapped limit are mapped, each to a frame of  *)
(* its own that lies below 4 GiB, was issued to the heap and is neither    *)
(* free nor owned by another caller; above the limit nothing is mapped but *)
(* the page a running growth step is mapping.  So an access to any block   *)
(* neither faults nor reaches memory of another owner.                     *)
HeapPagesBacked ==
    /\ \A v \in BackedPages :
        /\ Translate(v) # NotMapped
        /\ Translate(v) <= UINT32_MAX
        /\ Backing(v) \in held \ (owned \cup PendingFrames \cup {growing})
    /\ \A v, w \in BackedPages : Backing(v) = Backing(w) => v = w
    /\ \A v \in HeapPages \ BackedPages :
        Translate(v) # NotMapped =>
            growing # NoFrame /\ v = kheap.mapped_end_exclusive

PageOf(a) == stage7a_paging_frame_addr(a)

PhysicalByte(a) == Translate(PageOf(a)) + stage7a_paging_page_offset(a)

(* A block is its header and its payload.                                  *)
BlockBytes(h) == h .. PayloadEnd(h) - 1

PhysicalBytes(h) == {PhysicalByte(a) : a \in BlockBytes(h)}

(* Every byte of every block is a byte of a frame that belongs to the heap *)
(* alone, and no two blocks have a byte of physical memory in common: what *)
(* is written through one pointer of kmalloc is read through no other, and *)
(* no header is overwritten.  It takes the block chain, the page tables    *)
(* and the frame allocator together.                                       *)
BlocksOwnTheirBytes ==
    /\ \A h \in DOMAIN hdr : \A a \in BlockBytes(h) :
        /\ Translate(PageOf(a)) # NotMapped
        /\ Backing(PageOf(a)) \in held \ (owned \cup PendingFrames)
    /\ \A h, k \in DOMAIN hdr :
        h # k => PhysicalBytes(h) \cap PhysicalBytes(k) = {}

(* Growth loses no frame that could be used: an issued frame that backs no *)
(* page, is not being mapped and has no other owner lies above 4 GiB.  In  *)
(* particular map_page never refuses a page of the heap.                   *)
LostFramesAreHigh ==
    \A f \in held \ (owned \cup {growing} \cup {Backing(v) : v \in BackedPages}) :
        IsHigh(f)

(* A kmalloc that found room in the window fails only when allocation has  *)
(* no frame below 4 GiB to return: the frame freed longest ago is above,   *)
(* or none was freed and, with ascending ranges, every eligible frame that *)
(* was never issued is above.                                              *)
FailsOnlyWithoutLowFrame ==
    [][h_pc = "grow" /\ h_pc' = "idle" /\ h_result'.value = Null =>
        IF pending # <<>>
        THEN IsHigh(Head(pending))
        ELSE Ascending(frames) => \A f \in Unissued : IsHigh(f)]_stack_vars

(* The steps that a running call of the page mapper still takes, at most.  *)
MapStepsLeft ==
    CASE v_pc = "map_clear" -> 4
      [] v_pc \in {"map_pde", "unmap_pte"} -> 3
      [] v_pc \in {"map_pte", "unmap_inv"} -> 2
      [] v_pc \in {"map_inv", "unmap_pde"} -> 1
      [] OTHER -> 0

(* Of each step of the heap, taking the frame and the steps of map_page.   *)
StackStepsLeft ==
    6 * HeapStepsLeft + (IF h_pc = "grow" /\ growing = NoFrame THEN 5 ELSE MapStepsLeft)

(* Every call of kmalloc, kfree, map_page and unmap_page ends: whatever    *)
(* the frame allocator returns in a growth loop and whatever map_page has  *)
(* to store, each step brings the end of the call closer.  In particular   *)
(* the growth loop never waits for a frame.                                *)
StackMakesProgress ==
    [][~ StackIdle => StackStepsLeft' \in 0 .. StackStepsLeft - 1]_stack_vars
=============================================================================
