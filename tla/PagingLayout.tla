---------------------------- MODULE PagingLayout ----------------------------
(***************************************************************************)
(* Address arithmetic of kernel/mm/paging.c and the virtual layout of      *)
(* kernel/mm/vmm_layout.c.  The page size and the entries per table are    *)
(* parameters; a page-table entry is a number, the frame address plus the  *)
(* flag bits below the page size.                                          *)
(***************************************************************************)
EXTENDS HeapWindow

CONSTANTS
    ENTRIES,                     \* STAGE7A_PAGING_ENTRIES_PER_TABLE
    IDENTITY_END,                \* the active identity range is 0 .. IDENTITY_END - 1
    MAPPING_START, MAPPING_END   \* the mapping window

FLAG_PRESENT == 1
FLAG_WRITABLE == 2

TABLE_SPAN == ENTRIES * PAGE_SIZE

stage7a_paging_pd_index(v) == (v \div TABLE_SPAN) % ENTRIES

stage7a_paging_pt_index(v) == (v \div PAGE_SIZE) % ENTRIES

stage7a_paging_page_offset(v) == v % PAGE_SIZE

stage7a_paging_frame_addr(a) == a - (a % PAGE_SIZE)

stage7a_paging_identity_map_addr(a) == stage7a_paging_frame_addr(a)

stage7a_paging_make_entry(frame, flags) ==
    stage7a_paging_frame_addr(frame) + (flags % PAGE_SIZE)

Present(entry) == entry % 2 = FLAG_PRESENT

is_page_aligned(a) == stage7a_paging_page_offset(a) = 0

in_active_identity(v) == v >= 0 /\ v < IDENTITY_END

in_heap_reserved(v) == v >= HEAP_START /\ v < HEAP_END

in_mapping_reserved(v) == v >= MAPPING_START /\ v < MAPPING_END

(* The classes of stage8a_vmm_layout_classify_addr, in its order.          *)
classify_addr(v) ==
    IF in_active_identity(v) THEN "active-identity"
    ELSE IF in_heap_reserved(v) THEN "future-heap-reserved"
    ELSE IF in_mapping_reserved(v) THEN "future-mapping-reserved"
    ELSE "unclassified"

(* stage8a_vmm_layout_compute_region_end refuses a region that is empty or *)
(* ends above the last 32-bit address.                                     *)
HasRegionEnd(start, length) == length # 0 /\ start + length <= UINT32_MAX

region_in_half_open_range(start, length, range_start, range_end) ==
    /\ HasRegionEnd(start, length)
    /\ start >= range_start
    /\ start + length <= range_end

is_region_in_active_identity(start, length) ==
    region_in_half_open_range(start, length, 0, IDENTITY_END)

is_region_in_heap_reserved(start, length) ==
    region_in_half_open_range(start, length, HEAP_START, HEAP_END)

is_region_in_mapping_reserved(start, length) ==
    region_in_half_open_range(start, length, MAPPING_START, MAPPING_END)

(* stage8a_vmm_layout_validate_policy and the static assertions of         *)
(* vmm_layout.c and vmm.c: aligned, non-empty, ordered windows, and one    *)
(* page table for each table span of the mutable windows.                  *)
stage8a_vmm_layout_validate_policy ==
    /\ PAGE_SIZE > FLAG_PRESENT + FLAG_WRITABLE /\ ENTRIES > 0
    /\ \A a \in {IDENTITY_END, HEAP_START, HEAP_END, MAPPING_START, MAPPING_END} :
            is_page_aligned(a)
    /\ IDENTITY_END = TABLE_SPAN
    /\ HEAP_START < HEAP_END /\ MAPPING_START < MAPPING_END
    /\ IDENTITY_END <= HEAP_START /\ HEAP_END <= MAPPING_START
    /\ (MAPPING_END - HEAP_START) % TABLE_SPAN = 0
    /\ HEAP_START % TABLE_SPAN = 0

(* The policy holds, the page size is even (the present bit is one of the  *)
(* offset bits), and the directory reaches every window.                   *)
ASSUME LayoutAssumption ==
    /\ {PAGE_SIZE, ENTRIES, IDENTITY_END, HEAP_START, HEAP_END, MAPPING_START, MAPPING_END}
            \subseteq Nat
    /\ PAGE_SIZE % 2 = 0
    /\ MAPPING_END \div TABLE_SPAN <= ENTRIES
    /\ stage8a_vmm_layout_validate_policy

TABLE_COUNT == (MAPPING_END - HEAP_START) \div TABLE_SPAN
=============================================================================
