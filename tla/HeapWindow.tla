----------------------------- MODULE HeapWindow -----------------------------
(* The numbers that the paging code and the heap share: the 32-bit word,   *)
(* the page size, and the heap window of the virtual layout.               *)
EXTENDS Integers

CONSTANTS
    UINT32_MAX,
    PAGE_SIZE,              \* STAGE7A_PAGING_PAGE_SIZE
    HEAP_START, HEAP_END    \* STAGE8A_VMM_LAYOUT_FUTURE_HEAP_RESERVED_START / _END_EXCLUSIVE
=============================================================================
