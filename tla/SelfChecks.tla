---------------------------- MODULE SelfChecks ----------------------------
(***************************************************************************)
(* The self-checks of kernel/init/stage0_main.c (Stages 5D to 11E and the  *)
(* optional 6D), which are the kernel's first callers and its own tests.   *)
(* A stage is the sequence of calls it makes, whose arguments depend on    *)
(* the results so far, and the verdict it reaches from all results.  A     *)
(* stage goes on after a failed check, so the calls do not depend on the   *)
(* verdict, but a call behind && or || may be skipped: Only(...) is that.  *)
(* A lookup that would be skipped changes nothing, and is made anyway.     *)
(*                                                                         *)
(* The entries "state", "look" and "bytes" of a sequence are the places    *)
(* where the stage reads the heap's state, its list and nodes, and its     *)
(* buffers.                                                                *)
(***************************************************************************)
EXTENDS MemoryStack

VARIABLE res   \* the results of the calls the running stage has made

(* The i-th result of the stage; locals are zero before they are assigned. *)
R(i) == IF i <= Len(res) THEN res[i] ELSE 0

Call(op, args) == [op |-> op, args |-> args]
Do(op) == Call(op, <<>>)
Only(condition, call) == IF condition THEN call ELSE Do("skip")

Alloc(size) == Call("alloc", <<size>>)
Free(p) == Call("free", <<p>>)
State == Do("state")
Frame == Do("frame")
Give(a) == Call("give", <<a>>)

Aligned(p) == p % MIN_ALIGNMENT = 0

Flags == FLAG_PRESENT + FLAG_WRITABLE

-----------------------------------------------------------------------------
(* Frames and paging.                                                      *)
STAGE5D_TEST_ALLOC_COUNT == 4

stage5d_calls ==
    <<Do("seed"), Frame, Only(R(2) # 0, Frame), Only(R(3) # 0, Frame),
      Only(R(4) # 0, Frame)>>

stage7a_passed ==
    LET sample == \H12345000
        unaligned == \H12345ABC
    IN  /\ stage7a_paging_pd_index(sample) = \H48
        /\ stage7a_paging_pt_index(sample) = \H345
        /\ stage7a_paging_page_offset(sample) = 0
        /\ stage7a_paging_identity_map_addr(unaligned) = sample
        /\ stage7a_paging_make_entry(unaligned, Flags) = \H12345003

stage7b_calls == <<Do("setup_paging")>>

stage7b_passed ==
    /\ 4 * ENTRIES = PAGE_SIZE
    /\ pts[IDENTITY_TABLE][0] = \H3
    /\ pts[IDENTITY_TABLE][ENTRIES - 1] = \H3FF003
    /\ pd[0] = stage7a_paging_make_entry(IDENTITY_TABLE, Flags)

stage7c_calls == <<Do("activate_paging")>>

stage7c_passed == paging = "on"

STAGE7D_PROBE_ADDRS == {\H1000, \HB8000}
STAGE7D_PF_AWARE_ADDR == \H400000

stage7d_passed ==
    /\ paging = "on"
    /\ pd[0] # 0
    /\ \A a \in STAGE7D_PROBE_ADDRS :
        /\ stage7a_paging_pd_index(a) = 0
        /\ Pte(IDENTITY_TABLE, a) = stage7a_paging_make_entry(a, Flags)
    /\ stage7a_paging_pd_index(STAGE7D_PF_AWARE_ADDR) = 1
    /\ STAGE7D_PF_AWARE_ADDR > \H3FFFFF
    /\ pd[1] = 0

stage8a_passed ==
    /\ stage8a_vmm_layout_validate_policy
    /\ is_region_in_active_identity(0, IDENTITY_END)
    /\ is_region_in_heap_reserved(HEAP_START, HEAP_END - HEAP_START)
    /\ is_region_in_mapping_reserved(MAPPING_START, MAPPING_END - MAPPING_START)
    /\ ~ is_region_in_active_identity(HEAP_START, PAGE_SIZE)
    /\ classify_addr(\H1000) = "active-identity"
    /\ classify_addr(\H400000) = "future-heap-reserved"
    /\ classify_addr(\H800000) = "future-mapping-reserved"
    /\ classify_addr(\H1000000) = "unclassified"

STAGE8B_TEST_VIRTUAL_PAGE == MAPPING_START
STAGE8B_TEST_PHYSICAL_FRAME == \H300000

stage8b_calls ==
    LET page == STAGE8B_TEST_VIRTUAL_PAGE
        frame == stage7a_paging_frame_addr(STAGE8B_TEST_PHYSICAL_FRAME)
    IN  <<Call("resolve", <<page>>), Call("map", <<page, frame>>),
          Call("resolve", <<page>>), Call("unmap", <<page>>), Call("resolve", <<page>>)>>

stage8b_passed ==
    /\ R(1) = NotMapped /\ R(2) = 1
    /\ R(3) = stage7a_paging_frame_addr(STAGE8B_TEST_PHYSICAL_FRAME)
    /\ R(4) = 1 /\ R(5) = NotMapped

-----------------------------------------------------------------------------
(* The heap.                                                               *)
InHeap(p) == p >= HEAP_START /\ p < HEAP_END

StateInBounds(s) ==
    /\ s.is_initialized = 1
    /\ s.start = HEAP_START /\ s.end_exclusive = HEAP_END
    /\ s.start <= s.current /\ s.current <= s.mapped_end_exclusive
    /\ s.mapped_end_exclusive <= s.end_exclusive
    /\ s.mapped_end_exclusive % PAGE_SIZE = 0

stage8c_calls == <<Do("init_heap"), State, Alloc(24), Alloc(40), State>>

stage8c_passed ==
    /\ R(1) = 1 /\ R(2).is_initialized = 1
    /\ R(3) # 0 /\ R(4) # 0 /\ R(3) < R(4)
    /\ \A i \in {3, 4} : Aligned(R(i)) /\ InHeap(R(i))
    /\ StateInBounds(R(5))

stage8d_calls ==
    <<State, Alloc(\H80), Alloc(\H180), Alloc(\H300), Alloc(\H1000), State>>

stage8d_passed ==
    /\ R(1).is_initialized = 1
    /\ \A i \in 2 .. 5 : R(i) # 0 /\ Aligned(R(i)) /\ InHeap(R(i))
    /\ \A i \in 3 .. 5 : R(i) > R(i - 1)
    /\ R(6).mapped_end_exclusive > R(1).mapped_end_exclusive
    /\ R(6).mapped_end_exclusive >= R(6).start + 2 * PAGE_SIZE
    /\ StateInBounds(R(6))

(* The current and, in 9A, the mapped limit of the two reads are equal.    *)
SameCurrent(s, t) ==
    s.is_initialized = 1 /\ t.is_initialized = 1 /\ s.current = t.current

stage9a_calls ==
    <<Alloc(32), Alloc(48), State, Free(R(1)), Free(R(1)),
      Free(kheap.start + 4), Free(Null), State, Alloc(64)>>

stage9a_passed ==
    /\ R(1) # 0 /\ R(2) > R(1)
    /\ R(4) = 1 /\ R(5) = 0 /\ R(6) = 0 /\ R(7) = 0
    /\ SameCurrent(R(3), R(8))
    /\ R(3).mapped_end_exclusive = R(8).mapped_end_exclusive
    /\ R(9) > R(2)

stage9b_calls == <<Alloc(56), Alloc(88), State, Free(R(1)), Alloc(56), State>>

stage9b_passed ==
    /\ R(1) # 0 /\ R(2) > R(1)
    /\ R(4) = 1 /\ R(5) = R(1)
    /\ SameCurrent(R(3), R(6))

(* The second block of a split, behind the first and a header of 16 bytes. *)
Leftover(p, size) == p + size + 16

stage9c_calls == <<Alloc(96), State, Free(R(1)), Alloc(40), Alloc(40), State>>

stage9c_passed ==
    /\ R(1) # 0 /\ R(3) = 1
    /\ R(4) = R(1) /\ R(5) = Leftover(R(1), 40)
    /\ SameCurrent(R(2), R(6))

stage9d_calls ==
    <<Alloc(32), Alloc(64), Alloc(96), State, Free(R(2)), Alloc(64),
      Free(R(3)), Alloc(40), Alloc(40), Free(kheap.start + 4),
      Free(R(6)), Free(R(6)), State>>

stage9d_passed ==
    /\ R(1) # 0 /\ R(1) < R(2) /\ R(2) < R(3)
    /\ R(5) = 1 /\ R(6) = R(2)
    /\ R(7) = 1 /\ R(8) = R(3) /\ R(9) = Leftover(R(3), 40)
    /\ R(10) = 0 /\ R(11) = 1 /\ R(12) = 0
    /\ SameCurrent(R(4), R(13))

stage10a_calls ==
    <<Alloc(1536), Free(R(1)), Alloc(1536), Free(R(3) + 4), Free(R(3)), Free(R(3))>>

stage10a_passed ==
    /\ R(1) # 0 /\ R(2) = 1 /\ R(3) = R(1)
    /\ R(4) = 0 /\ R(5) = 1 /\ R(6) = 0

stage10b_calls ==
    <<Alloc(0), Free(Null), Alloc(128), Free(R(3)), Free(R(3) + 4)>>

stage10b_passed ==
    R(1) = Null /\ R(2) = 0 /\ R(3) # 0 /\ R(4) = 1 /\ R(5) = 0

(* What Stages 10D and 10E both do: three blocks, exact reuse of the       *)
(* second, a page that is split on reuse, and the frees to be rejected.    *)
LifecycleCalls(a, b, c) ==
    <<Alloc(a), Alloc(b), Alloc(c), Free(R(2)), Alloc(b),
      Alloc(4096), Free(R(6)), Alloc(2048), Alloc(1800),
      Free(R(5) + 4), Free(R(5)), Free(R(5))>>

LifecyclePassed ==
    /\ R(1) # 0 /\ R(1) < R(2) /\ R(2) < R(3)
    /\ \A i \in 1 .. 3 : Aligned(R(i))
    /\ R(4) = 1 /\ R(5) = R(2)
    /\ R(6) # 0 /\ R(7) = 1 /\ R(8) = R(6) /\ R(9) = Leftover(R(6), 2048)
    /\ R(10) = 0 /\ R(11) = 1 /\ R(12) = 0

stage10d_calls == LifecycleCalls(32, 64, 96)

stage10d_passed == LifecyclePassed

-----------------------------------------------------------------------------
(* The byte primitives, on the buffers of a stage laid out in one array.   *)
MemsetBuffer == 0
Source == 16
Target == 32
MoveBuffer == 48
BUFFERS_SIZE == 56

Buffer(start, size) == start .. start + size - 1

(* The stores of the stages' own loops: the source counts up from `first`, *)
(* the target is cleared, the move buffer counts up from 0.                *)
FillCopy(first) ==
    Call("store", <<[a \in Buffer(Source, 16) \cup Buffer(Target, 16) |->
                        IF a < Target THEN a - Source + first ELSE 0]>>)

FillMove == Call("store", <<[a \in Buffer(MoveBuffer, 8) |-> a - MoveBuffer]>>)

Memset(value) == Call("kmemset", <<MemsetBuffer, value, 16>>)
Memcpy == Call("kmemcpy", <<Target, Source, 16>>)
Memmove == Call("kmemmove", <<MoveBuffer + 2, MoveBuffer, 6>>)
Memcmp == Call("kmemcmp", <<Source, Target, 16>>)
FlipBit(i) == Call("flip", <<Target + i>>)

SetTo(b, value) == \A a \in Buffer(MemsetBuffer, 16) : b[a] = value

MovedByTwo(b) ==
    \A i \in 0 .. 7 : b[MoveBuffer + i] = IF i < 2 THEN i ELSE i - 2

stage10c_calls ==
    <<Memset(\HA5), Do("bytes"), FillCopy(1), Memcpy, Do("bytes"),
      FillMove, Memmove, Do("bytes"), Memcmp, FlipBit(7), Memcmp>>

stage10c_passed ==
    /\ SetTo(R(2), \HA5)
    /\ \A i \in 0 .. 15 : R(5)[Target + i] = R(5)[Source + i]
    /\ MovedByTwo(R(8))
    /\ R(9) = 0 /\ R(11) # 0

(* Stage 10E: the lifecycle (results 1 to 12), the wrappers (13, 14), the  *)
(* primitives (15 to 24) and one more block (25, 26).                      *)
stage10e_calls ==
    LifecycleCalls(48, 80, 112)
    \o <<Alloc(0), Only(R(13) = Null, Free(Null))>>
    \o <<Memset(\H5A), Do("bytes"), FillCopy(3), Memcpy, Memcmp,
         FillMove, Memmove, Do("bytes"), FlipBit(5), Memcmp>>
    \o <<Alloc(72), Only(R(25) # 0, Free(R(25)))>>

stage10e_passed ==
    /\ LifecyclePassed
    /\ R(13) = Null /\ R(14) = 0
    /\ SetTo(R(16), \H5A) /\ R(19) = 0 /\ MovedByTwo(R(22)) /\ R(24) # 0
    /\ R(25) # 0 /\ R(26) = 1

-----------------------------------------------------------------------------
(* Kernel objects.                                                         *)
Create(id) == Call("create", <<id>>)
Destroy(n) == Call("destroy", <<n>>)
InitList == Do("init_list")
Add(n) == Call("append", <<n>>)
Find(id) == Call("find", <<id>>)
Remove(id) == Call("remove", <<id>>)
Count == Do("count")
Look == Do("look")

ListIs(look, head, tail, count) ==
    look.list = [head |-> head, tail |-> tail, count |-> count]

NextOf(look, n) == look.nodes[n].next

stage11a_calls == <<Create(\H11A00001), Look, Destroy(R(1))>>

stage11a_passed ==
    /\ R(1) # 0
    /\ R(2).nodes[R(1)] = [id |-> \H11A00001, next |-> 0]
    /\ R(3) = 1

stage11b_calls ==
    <<InitList, Look,
      Create(\H11B00001), Add(R(3)), Look,
      Create(\H11B00002), Add(R(6)), Look,
      Only(R(6) # 0, Destroy(R(6))), Only(R(3) # 0, Destroy(R(3)))>>

stage11b_passed ==
    /\ ListIs(R(2), 0, 0, 0)
    /\ R(4) = 1 /\ ListIs(R(5), R(3), R(3), 1)
    /\ R(3) # 0 /\ NextOf(R(5), R(3)) = 0
    /\ R(7) = 1 /\ ListIs(R(8), R(3), R(6), 2)
    /\ R(6) # 0 /\ NextOf(R(8), R(6)) = 0
    /\ NextOf(R(8), R(3)) = R(6)
    /\ R(9) = 1 /\ R(10) = 1

stage11c_calls ==
    <<InitList, Create(\H11C00001), Create(\H11C00002),
      Add(R(2)), Only(R(4) = 1, Add(R(3))),
      Find(\H11C00001), Find(\H11C00002), Find(\H11C0FFFF), Count,
      Only(R(3) # 0, Destroy(R(3))), Only(R(2) # 0, Destroy(R(2)))>>

stage11c_passed ==
    /\ R(4) = 1 /\ R(5) = 1
    /\ R(6) = R(2) /\ R(7) = R(3) /\ R(8) = 0
    /\ R(9) = 2
    /\ R(3) # 0 => R(10) = 1
    /\ R(2) # 0 => R(11) = 1

stage11d_calls ==
    <<InitList, Create(\H11D00001), Create(\H11D00002),
      Create(\H11D00003), Create(\H11D00004),
      Add(R(2)), Only(R(6) = 1, Add(R(3))),
      Only(R(7) = 1, Add(R(4))), Only(R(8) = 1, Add(R(5))),
      Remove(\H11D00001), Only(R(10) = 1, Destroy(R(2))), Look,
      Remove(\H11D00003), Only(R(13) = 1, Destroy(R(4))), Look,
      Remove(\H11D00004), Only(R(16) = 1, Destroy(R(5))), Look,
      Find(\H11D00001), Find(\H11D00003), Find(\H11D00004),
      Find(\H11D00002), Count, Look,
      Remove(\H11D00002), Only(R(25) = 1, Destroy(R(3))),
      Count, Look, Find(\H11D00002)>>

stage11d_passed ==
    /\ \A i \in 6 .. 9 : R(i) = 1
    /\ R(10) = 1 /\ R(11) = 1 /\ ListIs(R(12), R(3), R(5), 3)
    /\ R(13) = 1 /\ R(14) = 1 /\ ListIs(R(15), R(3), R(5), 2)
    /\ R(3) # 0 /\ NextOf(R(15), R(3)) = R(5)
    /\ R(16) = 1 /\ R(17) = 1 /\ ListIs(R(18), R(3), R(3), 1)
    /\ NextOf(R(18), R(3)) = 0
    /\ R(19) = 0 /\ R(20) = 0 /\ R(21) = 0 /\ R(22) = R(3) /\ R(23) = 1
    /\ ListIs(R(24), R(3), R(3), 1)
    /\ R(25) = 1 /\ R(26) = 1
    /\ R(27) = 0 /\ ListIs(R(28), 0, 0, 0) /\ R(29) = 0

(* The three nodes of Stage 11E; the last calls destroy those whose        *)
(* pointer is not NULL yet.                                                *)
stage11e_calls ==
    <<InitList, Create(\H11E00001), Create(\H11E00002), Create(\H11E00003),
      Only(R(2) # 0 /\ R(3) # 0 /\ R(4) # 0, Add(R(2))),
      Only(R(5) = 1, Add(R(3))), Only(R(6) = 1, Add(R(4))), Look,
      Find(\H11E00001), Find(\H11E00002), Find(\H11E00003), Count,
      Remove(\H11E00002), Only(R(13) = 1, Destroy(R(3))),
      Find(\H11E00002), Find(\H11E00001), Find(\H11E00003), Count,
      Remove(\H11E00001), Only(R(19) = 1, Destroy(R(2))),
      Remove(\H11E00003), Only(R(21) = 1, Destroy(R(4))),
      Count, Look, Find(\H11E00001), Find(\H11E00002), Find(\H11E00003),
      Only(R(2) # 0 /\ R(20) # 1, Destroy(R(2))),
      Only(R(3) # 0 /\ R(14) # 1, Destroy(R(3))),
      Only(R(4) # 0 /\ R(22) # 1, Destroy(R(4)))>>

stage11e_passed ==
    /\ R(2) # 0 /\ R(3) # 0 /\ R(4) # 0
    /\ R(5) = 1 /\ R(6) = 1 /\ R(7) = 1 /\ ListIs(R(8), R(2), R(4), 3)
    /\ NextOf(R(8), R(2)) = R(3) /\ NextOf(R(8), R(3)) = R(4) /\ NextOf(R(8), R(4)) = 0
    /\ R(9) = R(2) /\ R(10) = R(3) /\ R(11) = R(4) /\ R(12) = 3
    /\ R(13) = 1 /\ R(14) = 1
    /\ R(15) = 0 /\ R(16) = R(2) /\ R(17) = R(4) /\ R(18) = 2
    /\ R(19) = 1 /\ R(20) = 1 /\ R(21) = 1 /\ R(22) = 1
    /\ R(23) = 0 /\ ListIs(R(24), 0, 0, 0)
    /\ R(25) = 0 /\ R(26) = 0 /\ R(27) = 0

-----------------------------------------------------------------------------
(* Stage 6D, in builds with STAGE6D_FORCE_REUSE_TEST.  "next_frame" moves  *)
(* the allocator's cursor to the next eligible frame and reads it.         *)
stage6d_calls ==
    <<Frame, Only(R(1) # 0, Frame), Give(R(1)), Give(R(2)), Give(R(1)),
      Do("next_frame"), Only(R(6) # 0, Give(R(6))), Do("pending"),
      Frame, Only(R(9) # 0, Frame), Do("pending")>>

stage6d_passed ==
    /\ R(1) # 0 /\ R(2) # 0 /\ R(1) # R(2)
    /\ R(3) = 1 /\ R(4) = 1 /\ R(5) = 0
    /\ R(6) # 0 /\ R(7) = 0
    /\ R(8) = 2
    /\ R(9) = R(1) /\ R(10) = R(2)
    /\ R(11) = 0
=============================================================================
