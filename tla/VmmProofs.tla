----------------------------- MODULE VmmProofs -----------------------------
(***************************************************************************)
(* Proofs about the mapping interface for every page size, number of       *)
(* entries, placement of the windows and of the tables, and every set of   *)
(* caller addresses.                                                       *)
(*                                                                         *)
(* The inductive invariant says that a directory index leads to one table  *)
(* only, whether the entry is read from memory or from the processor's     *)
(* cache, and that a table without a present directory entry is empty.  So *)
(* what a page translates to depends on its entry alone (Entry).           *)
(***************************************************************************)
EXTENDS Vmm, TLAPS

(* A quotient is determined by the remainder's range.                      *)
LEMMA DivUnique ==
    ASSUME NEW x \in Nat, NEW d \in Nat \ {0}, NEW q \in Nat, NEW r \in Nat,
           x = (d * q) + r, r < d
    PROVE  x \div d = q /\ x % d = r
OBVIOUS

(* Division with remainder.                                                *)
LEMMA DivMod ==
    ASSUME NEW x \in Nat, NEW d \in Nat \ {0}
    PROVE  /\ x \div d \in Nat /\ x % d \in 0 .. d - 1
           /\ x = (d * (x \div d)) + (x % d)
OBVIOUS

LEMMA MultOrder ==
    ASSUME NEW a \in Nat, NEW b \in Nat, NEW d \in Nat \ {0}
    PROVE  a * d < b * d <=> a < b
<1>1. a < b => a * d < b * d
  OBVIOUS
<1>2. b <= a => b * d <= a * d
  OBVIOUS
<1> QED BY <1>1, <1>2

LEMMA MultMonotone ==
    ASSUME NEW a \in Nat, NEW b \in Nat, NEW d \in Nat, a <= b
    PROVE  a * d <= b * d
OBVIOUS

(* The quotient of a number between two multiples lies between them.       *)
LEMMA DivBounds ==
    ASSUME NEW x \in Nat, NEW d \in Nat \ {0}, NEW lo \in Nat, NEW hi \in Nat
    PROVE  /\ lo * d <= x => lo <= x \div d
           /\ x < hi * d => x \div d < hi
<1> DEFINE q == x \div d
           r == x % d
<1>1. q \in Nat /\ r \in 0 .. d - 1 /\ x = (d * q) + r
  BY DivMod
<1> HIDE DEF q, r
<1>2. ASSUME lo * d <= x PROVE lo <= q
  <2>1. CASE q < lo
    <3>1. (q + 1) * d <= lo * d
      <4>1. q + 1 <= lo
        BY <1>1, <2>1
      <4> QED BY <1>1, <4>1
    <3>2. (q + 1) * d = (d * q) + d
      BY <1>1
    <3> QED BY <1>1, <1>2, <3>1, <3>2
  <2> QED BY <1>1, <2>1
<1>3. ASSUME x < hi * d PROVE q < hi
  <2>1. CASE hi <= q
    <3>1. hi * d <= q * d
      BY <1>1, <2>1
    <3> QED BY <1>1, <1>3, <3>1
  <2> QED BY <1>1, <2>1
<1> QED BY <1>2, <1>3 DEF q

(* The constants of the layout.                                            *)
LEMMA Layout ==
    /\ PAGE_SIZE \in Nat /\ PAGE_SIZE > 3 /\ PAGE_SIZE % 2 = 0
    /\ ENTRIES \in Nat \ {0}
    /\ TABLE_SPAN \in Nat \ {0} /\ TABLE_SPAN = ENTRIES * PAGE_SIZE
    /\ HEAP_START \in Nat /\ HEAP_END \in Nat /\ MAPPING_START \in Nat /\ MAPPING_END \in Nat
    /\ IDENTITY_END = TABLE_SPAN
    /\ HEAP_START < HEAP_END /\ HEAP_END <= MAPPING_START /\ MAPPING_START < MAPPING_END
    /\ TABLE_SPAN <= HEAP_START
    /\ HEAP_START % TABLE_SPAN = 0 /\ (MAPPING_END - HEAP_START) % TABLE_SPAN = 0
    /\ MAPPING_END <= ENTRIES * TABLE_SPAN
<1>1. /\ PAGE_SIZE \in Nat /\ PAGE_SIZE > 3 /\ PAGE_SIZE % 2 = 0
      /\ ENTRIES \in Nat \ {0}
      /\ HEAP_START \in Nat /\ HEAP_END \in Nat /\ MAPPING_START \in Nat /\ MAPPING_END \in Nat
  BY LayoutAssumption
  DEF stage8a_vmm_layout_validate_policy, FLAG_PRESENT, FLAG_WRITABLE
<1>2. TABLE_SPAN \in Nat \ {0} /\ TABLE_SPAN = ENTRIES * PAGE_SIZE
  BY <1>1 DEF TABLE_SPAN
<1>3. /\ IDENTITY_END = TABLE_SPAN
      /\ HEAP_START < HEAP_END /\ HEAP_END <= MAPPING_START /\ MAPPING_START < MAPPING_END
      /\ TABLE_SPAN <= HEAP_START
      /\ HEAP_START % TABLE_SPAN = 0 /\ (MAPPING_END - HEAP_START) % TABLE_SPAN = 0
      /\ MAPPING_END \div TABLE_SPAN <= ENTRIES
  BY <1>1, <1>2, LayoutAssumption DEF stage8a_vmm_layout_validate_policy
<1>4. MAPPING_END <= ENTRIES * TABLE_SPAN
  <2> DEFINE a == HEAP_START \div TABLE_SPAN
             b == (MAPPING_END - HEAP_START) \div TABLE_SPAN
  <2>1. MAPPING_END - HEAP_START \in Nat
    BY <1>1, <1>3
  <2>2. a \in Nat /\ HEAP_START = (TABLE_SPAN * a) + 0
    <3>1. HEAP_START \in Nat /\ TABLE_SPAN \in Nat \ {0} /\ HEAP_START % TABLE_SPAN = 0
      BY <1>1, <1>2, <1>3
    <3> QED BY <3>1, DivMod
  <2>3. b \in Nat /\ MAPPING_END - HEAP_START = (TABLE_SPAN * b) + 0
    BY <1>2, <1>3, <2>1, DivMod
  <2> HIDE DEF a, b
  <2>4. MAPPING_END = (TABLE_SPAN * (a + b)) + 0
    BY <1>1, <1>2, <2>2, <2>3
  <2>5. MAPPING_END \div TABLE_SPAN = a + b
    BY <1>1, <1>2, <2>2, <2>3, <2>4, DivUnique
  <2>6. a + b <= ENTRIES
    BY <1>3, <2>5
  <2>7. (a + b) * TABLE_SPAN <= ENTRIES * TABLE_SPAN
    <3>1. a + b \in Nat /\ ENTRIES \in Nat /\ TABLE_SPAN \in Nat
      BY <1>1, <1>2, <2>2, <2>3
    <3> QED BY <3>1, <2>6, MultMonotone
  <2> QED BY <1>1, <1>2, <2>2, <2>3, <2>4, <2>7
<1> QED BY <1>1, <1>2, <1>3, <1>4

Addr == 0 .. ENTRIES * TABLE_SPAN - 1

(* The directory reaches every address that callers pass.                  *)
LEMMA CallerAddr == VAddrs \subseteq Addr
<1> SUFFICES ASSUME NEW v \in VAddrs PROVE v \in Addr
  OBVIOUS
<1> DEFINE q == v \div TABLE_SPAN
           r == v % TABLE_SPAN
<1>1. v \in Nat /\ q < ENTRIES
  BY VmmAssumption
<1>2. TABLE_SPAN \in Nat \ {0} /\ ENTRIES \in Nat \ {0}
  BY Layout
<1>3. q \in Nat /\ r \in 0 .. TABLE_SPAN - 1 /\ v = (TABLE_SPAN * q) + r
  BY <1>1, <1>2, DivMod
<1> HIDE DEF q, r
<1>4. (q + 1) * TABLE_SPAN <= ENTRIES * TABLE_SPAN
  <2>1. q + 1 <= ENTRIES
    BY <1>1, <1>2, <1>3
  <2> QED BY <1>2, <1>3, <2>1
<1>5. (q + 1) * TABLE_SPAN = (TABLE_SPAN * q) + TABLE_SPAN
  BY <1>2, <1>3
<1> QED BY <1>1, <1>2, <1>3, <1>4, <1>5 DEF Addr

pdx(v) == stage7a_paging_pd_index(v)
ptx(v) == stage7a_paging_pt_index(v)

(* Every virtual address has its own directory index.                      *)
LEMMA PdIndex ==
    ASSUME NEW v \in Addr
    PROVE  v \in Nat /\ pdx(v) = v \div TABLE_SPAN /\ pdx(v) \in Index /\ ptx(v) \in Index
<1>1. v \in Nat /\ ENTRIES \in Nat \ {0} /\ TABLE_SPAN \in Nat \ {0} /\ v < ENTRIES * TABLE_SPAN
      /\ PAGE_SIZE \in Nat \ {0}
  BY Layout DEF Addr
<1>2. v \div TABLE_SPAN \in Nat /\ v \div TABLE_SPAN < ENTRIES
  BY <1>1, DivMod, DivBounds
<1>3. (v \div TABLE_SPAN) % ENTRIES = v \div TABLE_SPAN
  BY <1>1, <1>2
<1>4. (v \div PAGE_SIZE) % ENTRIES \in 0 .. ENTRIES - 1
  BY <1>1, DivMod
<1> QED BY <1>1, <1>2, <1>3, <1>4
    DEF pdx, ptx, stage7a_paging_pd_index, stage7a_paging_pt_index, Index

(* A page's indices determine its address.                                 *)
LEMMA PageOfIndices ==
    ASSUME NEW u \in Addr, is_page_aligned(u)
    PROVE  u = PAGE_SIZE * ((ENTRIES * pdx(u)) + ptx(u))
<1>1. ENTRIES \in Nat \ {0} /\ PAGE_SIZE \in Nat \ {0} /\ TABLE_SPAN = ENTRIES * PAGE_SIZE
      /\ TABLE_SPAN \in Nat \ {0}
  BY Layout
<1> DEFINE a == u \div PAGE_SIZE
           q == a \div ENTRIES
           r == a % ENTRIES
<1>2. u \in Nat /\ pdx(u) = u \div TABLE_SPAN
  BY PdIndex
<1>3. a \in Nat /\ u = PAGE_SIZE * a
  <2>1. u % PAGE_SIZE = 0
    BY DEF is_page_aligned, stage7a_paging_page_offset
  <2>2. a \in Nat /\ u = (PAGE_SIZE * a) + (u % PAGE_SIZE)
    BY <1>1, <1>2, DivMod
  <2> HIDE DEF a
  <2> QED BY <1>1, <2>1, <2>2
<1>4. q \in Nat /\ r \in 0 .. ENTRIES - 1 /\ a = (ENTRIES * q) + r
  BY <1>1, <1>3, DivMod
<1>5. ptx(u) = r
  BY DEF ptx, stage7a_paging_pt_index
<1> HIDE DEF a, q, r
<1>6. u = (TABLE_SPAN * q) + (PAGE_SIZE * r)
  BY <1>1, <1>3, <1>4
<1>7. PAGE_SIZE * r \in Nat /\ PAGE_SIZE * r < TABLE_SPAN
  <2>1. r * PAGE_SIZE < ENTRIES * PAGE_SIZE
    BY <1>1, <1>4, MultOrder
  <2> QED BY <1>1, <1>4, <2>1
<1>8. u \div TABLE_SPAN = q
  BY <1>1, <1>2, <1>4, <1>6, <1>7, DivUnique
<1> QED BY <1>2, <1>3, <1>4, <1>5, <1>8

(* Two pages with the same indices are the same page.                      *)
LEMMA IndexInjective ==
    ASSUME NEW v \in Addr, NEW w \in Addr, is_page_aligned(v), is_page_aligned(w),
           pdx(v) = pdx(w), ptx(v) = ptx(w)
    PROVE  v = w
BY PageOfIndices

(* A page of the identity table is the one its index names.                *)
LEMMA IdentityPage ==
    ASSUME NEW v \in Addr, is_page_aligned(v), pdx(v) = 0
    PROVE  v = ptx(v) * PAGE_SIZE
<1>1. ptx(v) \in Nat /\ ENTRIES \in Nat /\ PAGE_SIZE \in Nat
  BY PdIndex, Layout DEF Index
<1>2. v = PAGE_SIZE * ((ENTRIES * 0) + ptx(v))
  BY PageOfIndices
<1>3. (ENTRIES * 0) + ptx(v) = ptx(v)
  BY <1>1
<1>4. PAGE_SIZE * ptx(v) = ptx(v) * PAGE_SIZE
  BY <1>1
<1> QED BY <1>2, <1>3, <1>4

Slot0 == pdx(HEAP_START)
Slots == 0 .. TABLE_COUNT - 1

(* The windows lie behind the identity range, in the directory too.        *)
LEMMA SlotFacts ==
    /\ HEAP_START = Slot0 * TABLE_SPAN /\ Slot0 \in Nat /\ Slot0 > 0
    /\ TABLE_COUNT \in Nat /\ MAPPING_END = (Slot0 + TABLE_COUNT) * TABLE_SPAN
    /\ Slot0 + TABLE_COUNT <= ENTRIES
    /\ \A s \in Slots : s \in Nat /\ Slot0 + s \in Index
<1>1. /\ TABLE_SPAN \in Nat \ {0} /\ ENTRIES \in Nat \ {0}
      /\ HEAP_START \in Nat /\ MAPPING_END \in Nat /\ HEAP_START < MAPPING_END
      /\ HEAP_START % TABLE_SPAN = 0 /\ (MAPPING_END - HEAP_START) % TABLE_SPAN = 0
      /\ TABLE_SPAN <= HEAP_START /\ MAPPING_END <= ENTRIES * TABLE_SPAN
      /\ MAPPING_END - HEAP_START \in Nat
  BY Layout
<1>2. HEAP_START \in Addr
  BY <1>1 DEF Addr
<1>3. Slot0 = HEAP_START \div TABLE_SPAN /\ Slot0 \in Nat
  BY <1>1, <1>2, PdIndex, DivMod DEF Slot0
<1>4. HEAP_START = Slot0 * TABLE_SPAN
  BY <1>1, <1>3, DivMod
<1>5. Slot0 > 0
  BY <1>1, <1>3, DivBounds
<1>6. TABLE_COUNT \in Nat /\ MAPPING_END - HEAP_START = TABLE_COUNT * TABLE_SPAN
  BY <1>1, DivMod DEF TABLE_COUNT
<1>7. MAPPING_END = (Slot0 + TABLE_COUNT) * TABLE_SPAN
  BY <1>1, <1>3, <1>4, <1>6
<1>8. Slot0 + TABLE_COUNT <= ENTRIES
  <2>1. ~ (ENTRIES * TABLE_SPAN < (Slot0 + TABLE_COUNT) * TABLE_SPAN)
    BY <1>1, <1>3, <1>6, <1>7
  <2>2. ~ (ENTRIES < Slot0 + TABLE_COUNT)
    BY <1>1, <1>3, <1>6, <2>1, MultOrder
  <2> QED BY <1>1, <1>3, <1>6, <2>2
<1>9. \A s \in Slots : s \in Nat /\ Slot0 + s \in Index
  BY <1>1, <1>3, <1>6, <1>8 DEF Slots, Index
<1> QED BY <1>3, <1>4, <1>5, <1>6, <1>7, <1>8, <1>9

(* Every page of a window has a table of its own slot, so the slot check   *)
(* of stage8b_vmm_get_reserved_mapping_slot never refuses one; pages of    *)
(* the identity range have directory index 0.                              *)
LEMMA WindowSlots ==
    ASSUME NEW v \in Addr
    PROVE  /\ Reserved(v) => HasSlot(v)
           /\ in_active_identity(v) <=> pdx(v) = 0
           /\ TableSlot(v) = pdx(v) - Slot0 /\ pdx(v) \in Nat /\ TableSlot(v) \in Int
           /\ HasSlot(v) => /\ TableSlot(v) \in Slots /\ pdx(v) = Slot0 + TableSlot(v)
                            /\ pdx(v) # 0
<1>1. v \in Nat /\ pdx(v) = v \div TABLE_SPAN /\ pdx(v) \in Nat
      /\ TABLE_SPAN \in Nat \ {0} /\ Slot0 \in Nat /\ Slot0 > 0 /\ TABLE_COUNT \in Nat
  BY PdIndex, Layout, SlotFacts DEF Index
<1>2. TableSlot(v) = pdx(v) - Slot0
  BY DEF TableSlot, pdx, Slot0
<1>3. ASSUME Reserved(v) PROVE HasSlot(v)
  <2>1. HEAP_START <= v /\ v < MAPPING_END
    BY <1>1, <1>3, Layout DEF Reserved, in_heap_reserved, in_mapping_reserved
  <2>2. PICK hi \in Nat : hi = Slot0 + TABLE_COUNT
    BY <1>1
  <2>3. Slot0 * TABLE_SPAN <= v /\ v < hi * TABLE_SPAN
    BY <2>1, <2>2, SlotFacts
  <2>4. Slot0 <= pdx(v) /\ pdx(v) < hi
    BY <1>1, <2>3, DivBounds
  <2>5. TableSlot(v) \in 0 .. TABLE_COUNT - 1
    BY <1>1, <1>2, <2>2, <2>4
  <2> QED BY <1>3, <2>5 DEF HasSlot, Reserved
<1>4. in_active_identity(v) <=> pdx(v) = 0
  <2> DEFINE q == v \div TABLE_SPAN
             r == v % TABLE_SPAN
  <2>1. q \in Nat /\ r \in 0 .. TABLE_SPAN - 1 /\ v = (TABLE_SPAN * q) + r
    BY <1>1, DivMod
  <2> HIDE DEF q, r
  <2>2. v < TABLE_SPAN <=> q = 0
    <3>1. q = 0 => v = r
      BY <1>1, <2>1
    <3>2. q > 0 => TABLE_SPAN * q >= TABLE_SPAN
      BY <1>1, <2>1
    <3> QED BY <1>1, <2>1, <3>1, <3>2
  <2>3. in_active_identity(v) <=> v < TABLE_SPAN
    BY <1>1, Layout DEF in_active_identity
  <2> QED BY <1>1, <2>2, <2>3 DEF q
<1>5. HasSlot(v) => TableSlot(v) \in Slots
  BY DEF HasSlot, Slots
<1> QED BY <1>1, <1>2, <1>3, <1>4, <1>5 DEF Slots

(* An entry made of a page-aligned frame is present and leads back to the  *)
(* frame.                                                                  *)
MakeEntry(f) == stage7a_paging_make_entry(f, MAPPING_FLAGS)

LEMMA EntryFacts ==
    ASSUME NEW f \in Nat, is_page_aligned(f)
    PROVE  /\ MakeEntry(f) = f + 3
           /\ Present(MakeEntry(f))
           /\ stage7a_paging_frame_addr(MakeEntry(f)) = f
<1>1. PAGE_SIZE \in Nat \ {0} /\ PAGE_SIZE > 3 /\ f % PAGE_SIZE = 0
  BY Layout DEF is_page_aligned, stage7a_paging_page_offset
<1>2. MAPPING_FLAGS % PAGE_SIZE = 3
  BY <1>1 DEF MAPPING_FLAGS, FLAG_PRESENT, FLAG_WRITABLE
<1>3. MakeEntry(f) = f + 3
  BY <1>1, <1>2 DEF MakeEntry, stage7a_paging_make_entry, stage7a_paging_frame_addr
<1>4. f = PAGE_SIZE * (f \div PAGE_SIZE) /\ f \div PAGE_SIZE \in Nat
  BY <1>1, DivMod
<1>5. (f + 3) % PAGE_SIZE = 3
  BY <1>1, <1>4, DivUnique
<1>6. stage7a_paging_frame_addr(f + 3) = f
  BY <1>1, <1>5 DEF stage7a_paging_frame_addr
<1>7. (f + 3) % 2 = 1
  <2>1. PICK k \in Nat : PAGE_SIZE = 2 * k
    BY <1>1, Layout, DivMod
  <2>2. f = 2 * (k * (f \div PAGE_SIZE)) /\ k * (f \div PAGE_SIZE) \in Nat
    BY <1>4, <2>1
  <2> QED BY <2>2
<1> QED BY <1>3, <1>6, <1>7 DEF Present, FLAG_PRESENT

LEMMA ZeroEntry == ~ Present(0)
BY DEF Present, FLAG_PRESENT

-----------------------------------------------------------------------------
(* The table a directory index leads to, the identity table or one of the  *)
(* mutable tables, and the entry of a page in it.                          *)
HasTab(i) == i = 0 \/ i - Slot0 \in Slots

Tab(i) == IF i = 0 THEN IDENTITY_TABLE ELSE MUTABLE_TABLES[i - Slot0]

Entry(v) == IF HasTab(pdx(v)) THEN pts[Tab(pdx(v))][ptx(v)] ELSE 0

SoftTyped ==
    /\ paging \in {"off", "built", "on"}
    /\ pd \in [Index -> Entries]
    /\ pts \in [Tables -> [Index -> Entries]]
    /\ v_pc \in {"idle", "map_clear", "map_pde", "map_pte", "map_inv",
               "unmap_pte", "unmap_inv", "unmap_pde"}

(* A directory entry is zero or leads to the table of its index, and a     *)
(* table that is not installed is empty.                                   *)
DirectoryOK ==
    /\ \A i \in Index : pd[i] = 0 \/ (HasTab(i) /\ pd[i] = MakeEntry(Tab(i)))
    /\ \A i \in Index : HasTab(i) /\ pd[i] = 0 => pts[Tab(i)] = Empty

(* The identity map is in place from stage7b on, and nothing before.       *)
IdentityOK ==
    IF paging = "off"
    THEN pd = Empty
    ELSE /\ pd[0] = MakeEntry(IDENTITY_TABLE)
         /\ \A i \in Index : pts[IDENTITY_TABLE][i] = MakeEntry(i * PAGE_SIZE)
         /\ paging = "built" => \A i \in Index : i # 0 => pd[i] = 0

(* An installed table of a window is in use, but for the one a call is     *)
(* about to fill or has just emptied.                                      *)
UsedOK ==
    \A i \in Index :
        /\ i # 0 /\ pd[i] # 0
        /\ ~ (v_pc \in {"map_pte", "unmap_inv", "unmap_pde"} /\ pdx(v_call.page) = i)
        => \E j \in Index : pts[Tab(i)][j] # 0

(* What the running call has done so far.                                  *)
CallOK ==
    IF v_pc = "idle" THEN v_call = NoCall
    ELSE /\ paging = "on"
         /\ v_call \in [op : {"map", "unmap"}, page : Pages, frame : Frames]
         /\ HasSlot(v_call.page)
         /\ v_call.op = "map" <=> v_pc \in {"map_clear", "map_pde", "map_pte", "map_inv"}
         /\ v_call.op = "map" => v_call.frame \in PAddrs
         /\ pd[pdx(v_call.page)] = 0 <=> v_pc \in {"map_clear", "map_pde"}
         /\ Entry(v_call.page) =
                IF v_pc \in {"map_inv", "unmap_pte"} THEN MakeEntry(v_call.frame) ELSE 0

SoftInv == SoftTyped /\ DirectoryOK /\ IdentityOK /\ UsedOK /\ CallOK

(* The processor's caches: the directory cache holds the table of the      *)
(* index, and the TLB agrees with the entries, but for the page between    *)
(* the store of its empty entry and the invlpg.                            *)
HardInv ==
    /\ paging # "on" => DOMAIN tlb = {} /\ DOMAIN pde_cache = {}
    /\ DOMAIN tlb \subseteq Pages /\ \A v \in DOMAIN tlb : tlb[v] \in Frames
    /\ DOMAIN pde_cache \subseteq Index
    /\ \A i \in DOMAIN pde_cache : HasTab(i) /\ pde_cache[i] = Tab(i)
    /\ \A v \in DOMAIN tlb :
            Entry(v) = MakeEntry(tlb[v]) \/ (v_pc = "unmap_inv" /\ v = v_call.page)

VmmInv == SoftInv /\ HardInv

-----------------------------------------------------------------------------
LEMMA PageFacts ==
    ASSUME NEW v \in Pages
    PROVE  v \in Addr /\ v \in VAddrs /\ v \in Nat /\ is_page_aligned(v)
BY CallerAddr DEF Pages, Addr

LEMMA FrameFacts ==
    ASSUME NEW f \in Frames
    PROVE  f \in Nat /\ is_page_aligned(f) /\ f # NotMapped
<1>1. PAGE_SIZE \in Nat \ {0} /\ ENTRIES \in Nat \ {0}
  BY Layout
<1>2. CASE f \in PAddrs /\ is_page_aligned(f)
  BY <1>2, VmmAssumption DEF NotMapped
<1>3. CASE f \in Tables
  BY <1>3, VmmAssumption DEF Tables, NotMapped
<1>4. ASSUME NEW i \in Index, f = i * PAGE_SIZE PROVE f \in Nat /\ is_page_aligned(f) /\ f # NotMapped
  <2>1. i \in Nat /\ f \in Nat
    BY <1>1, <1>4 DEF Index
  <2>2. f = (PAGE_SIZE * i) + 0
    BY <1>1, <1>4, <2>1
  <2>3. f % PAGE_SIZE = 0
    BY <1>1, <2>1, <2>2, DivUnique
  <2> QED BY <2>1, <2>3 DEF is_page_aligned, stage7a_paging_page_offset, NotMapped
<1> QED BY <1>2, <1>3, <1>4 DEF Frames

(* An entry of a table is zero, or present and made of its frame.          *)
LEMMA EntriesFacts ==
    ASSUME NEW e \in Entries
    PROVE  /\ Present(e) <=> e # 0
           /\ e # 0 => /\ stage7a_paging_frame_addr(e) \in Frames
                       /\ e = MakeEntry(stage7a_paging_frame_addr(e))
<1>1. CASE e = 0
  BY <1>1, ZeroEntry
<1>2. ASSUME NEW f \in Frames, e = MakeEntry(f)
      PROVE  Present(e) /\ e # 0 /\ stage7a_paging_frame_addr(e) = f
  BY <1>2, FrameFacts, EntryFacts
<1> QED BY <1>1, <1>2 DEF Entries, MakeEntry

LEMMA MadeEntry ==
    ASSUME NEW f \in Frames
    PROVE  /\ MakeEntry(f) \in Entries /\ MakeEntry(f) # 0 /\ Present(MakeEntry(f))
           /\ stage7a_paging_frame_addr(MakeEntry(f)) = f
           /\ 0 \in Entries
BY FrameFacts, EntryFacts DEF Entries, MakeEntry

(* Different indices lead to different tables.                             *)
LEMMA TabFacts ==
    ASSUME NEW i \in Index, HasTab(i)
    PROVE  /\ Tab(i) \in Tables /\ Tab(i) \in Frames
           /\ \A k \in Index : HasTab(k) /\ Tab(k) = Tab(i) => k = i
<1>1. \A k \in Index : k \in Nat
  BY Layout DEF Index
<1>2. DOMAIN MUTABLE_TABLES = Slots
  BY VmmAssumption DEF Slots
<1>3. Slot0 \in Nat
  BY SlotFacts
<1> QED BY <1>1, <1>2, <1>3, VmmAssumption DEF HasTab, Tab, Tables, Frames

(* A page with a slot uses the expected table.                             *)
LEMMA SlotPage ==
    ASSUME NEW v \in Pages, HasSlot(v)
    PROVE  /\ pdx(v) \in Index /\ ptx(v) \in Index /\ pdx(v) # 0 /\ HasTab(pdx(v))
           /\ ExpectedTable(v) = Tab(pdx(v)) /\ ExpectedTable(v) \in Tables
           /\ Entry(v) = Pte(ExpectedTable(v), v)
           /\ Pde(v) = pd[pdx(v)]
<1>1. v \in Addr
  BY PageFacts
<1>2. /\ pdx(v) \in Index /\ ptx(v) \in Index /\ pdx(v) # 0 /\ pdx(v) - Slot0 \in Slots
      /\ TableSlot(v) = pdx(v) - Slot0
  BY <1>1, PdIndex, WindowSlots
<1>3. HasTab(pdx(v)) /\ ExpectedTable(v) = Tab(pdx(v))
  BY <1>2 DEF HasTab, Tab, ExpectedTable
<1>4. ExpectedTable(v) \in Tables
  BY <1>2, <1>3, TabFacts
<1> QED BY <1>2, <1>3, <1>4 DEF Entry, Pte, Pde, pdx, ptx

(* The entry of a page decides its translation.                            *)
LEMMA TranslateIs ==
    SoftTyped /\ DirectoryOK =>
        \A v \in Pages :
            /\ Entry(v) \in Entries
            /\ Translate(v) = IF Entry(v) # 0 THEN stage7a_paging_frame_addr(Entry(v))
                                              ELSE NotMapped
<1> SUFFICES ASSUME SoftTyped, DirectoryOK, NEW v \in Pages
             PROVE  /\ Entry(v) \in Entries
                    /\ Translate(v) = IF Entry(v) # 0 THEN stage7a_paging_frame_addr(Entry(v))
                                                      ELSE NotMapped
  OBVIOUS
<1>1. is_page_aligned(v) /\ pdx(v) \in Index /\ ptx(v) \in Index
  BY PageFacts, PdIndex
<1>2. 0 \in Entries
  BY DEF Entries
<1>3. Entry(v) \in Entries
  BY <1>1, <1>2, TabFacts DEF Entry, SoftTyped
<1>4. Pde(v) = pd[pdx(v)] /\ pd[pdx(v)] \in Entries
  BY <1>1 DEF Pde, pdx, SoftTyped
<1>5. CASE pd[pdx(v)] = 0
  <2>1. Entry(v) = 0
    BY <1>1, <1>5 DEF Entry, DirectoryOK, Empty
  <2> QED BY <1>3, <1>4, <1>5, <2>1, ZeroEntry DEF Translate
<1>6. CASE pd[pdx(v)] # 0
  <2>1. HasTab(pdx(v)) /\ pd[pdx(v)] = MakeEntry(Tab(pdx(v)))
    BY <1>1, <1>6 DEF DirectoryOK
  <2>2. stage7a_paging_frame_addr(Pde(v)) = Tab(pdx(v)) /\ Present(Pde(v))
    BY <1>1, <1>4, <2>1, TabFacts, MadeEntry
  <2>3. Pte(Tab(pdx(v)), v) = Entry(v)
    BY <2>1 DEF Pte, Entry, ptx
  <2> QED BY <1>1, <1>3, <2>2, <2>3, EntriesFacts DEF Translate
<1> QED BY <1>5, <1>6

-----------------------------------------------------------------------------
(* Storing an entry changes the translation of its own page only.          *)
LEMMA StoreEntry ==
    ASSUME SoftTyped, NEW v \in Pages, HasSlot(v), NEW e \in Entries,
           pts' = [pts EXCEPT ![ExpectedTable(v)][stage7a_paging_pt_index(v)] = e]
    PROVE  /\ pts' \in [Tables -> [Index -> Entries]]
           /\ Entry(v)' = e
           /\ \A w \in Pages : w # v => Entry(w)' = Entry(w)
           /\ \A i \in Index : HasTab(i) /\ i # pdx(v) => pts'[Tab(i)] = pts[Tab(i)]
           /\ \A j \in Index : pts'[Tab(pdx(v))][j] = IF j = ptx(v) THEN e
                                                      ELSE pts[Tab(pdx(v))][j]
<1>1. /\ pdx(v) \in Index /\ ptx(v) \in Index /\ HasTab(pdx(v))
      /\ ExpectedTable(v) = Tab(pdx(v)) /\ Tab(pdx(v)) \in Tables
  BY SlotPage
<1>2. PICK t \in Tables : t = Tab(pdx(v))
  BY <1>1
<1>3. PICK j \in Index : j = ptx(v)
  BY <1>1
<1>4. pts' = [pts EXCEPT ![t][j] = e]
  BY <1>1, <1>2, <1>3 DEF ptx
<1>5. pts \in [Tables -> [Index -> Entries]]
  BY DEF SoftTyped
<1>6. /\ pts' \in [Tables -> [Index -> Entries]]
      /\ \A u \in Tables : u # t => pts'[u] = pts[u]
      /\ \A k \in Index : pts'[t][k] = IF k = j THEN e ELSE pts[t][k]
  <2> DEFINE row == [pts[t] EXCEPT ![j] = e]
  <2>1. pts[t] \in [Index -> Entries]
    BY <1>5
  <2>2. row \in [Index -> Entries] /\ \A k \in Index : row[k] = IF k = j THEN e ELSE pts[t][k]
    BY <2>1
  <2>3. pts' = [pts EXCEPT ![t] = row]
    BY <1>4
  <2> HIDE DEF row
  <2> QED BY <1>5, <2>2, <2>3
<1>7. \A i \in Index : HasTab(i) /\ i # pdx(v) => pts'[Tab(i)] = pts[Tab(i)]
  BY <1>1, <1>2, <1>6, TabFacts
<1>8. Entry(v)' = e
  BY <1>1, <1>2, <1>3, <1>6 DEF Entry
<1>9. ASSUME NEW w \in Pages, w # v PROVE Entry(w)' = Entry(w)
  <2>1. w \in Addr /\ v \in Addr /\ is_page_aligned(w) /\ is_page_aligned(v)
    BY PageFacts
  <2>2. pdx(w) \in Index /\ ptx(w) \in Index
    BY <2>1, PdIndex
  <2>3. CASE pdx(w) = pdx(v)
    <3>1. ptx(w) # ptx(v)
      BY <1>9, <2>1, <2>3, IndexInjective
    <3> QED BY <1>1, <1>2, <1>3, <1>6, <2>2, <2>3, <3>1 DEF Entry
  <2>4. CASE pdx(w) # pdx(v)
    BY <1>7, <2>2, <2>4 DEF Entry
  <2> QED BY <2>3, <2>4
<1> QED BY <1>1, <1>2, <1>3, <1>6, <1>7, <1>8, <1>9

(* Nothing the software owns changes.                                      *)
LEMMA SoftUnchanged ==
    ASSUME SoftInv, UNCHANGED software
    PROVE  SoftInv' /\ \A v \in Pages : Entry(v)' = Entry(v)
BY DEF software, SoftInv, SoftTyped, DirectoryOK, IdentityOK, UsedOK, CallOK, Entry

(* A step that only changes where the call is.                             *)
LEMMA TablesUnchanged ==
    ASSUME UNCHANGED <<paging, pd, pts>>, SoftTyped, DirectoryOK, IdentityOK,
           v_pc' \in {"idle", "map_clear", "map_pde", "map_pte", "map_inv",
                    "unmap_pte", "unmap_inv", "unmap_pde"}
    PROVE  /\ SoftTyped' /\ DirectoryOK' /\ IdentityOK'
           /\ \A v \in Pages : Entry(v)' = Entry(v)
BY DEF SoftTyped, DirectoryOK, IdentityOK, Entry

(* The facts about a call that is running.                                 *)
LEMMA Running ==
    ASSUME SoftInv, v_pc # "idle"
    PROVE  /\ paging = "on"
           /\ v_call \in [op : {"map", "unmap"}, page : Pages, frame : Frames]
           /\ v_call.page \in Pages /\ HasSlot(v_call.page) /\ v_call.frame \in Frames
           /\ v_call # NoCall
BY DEF SoftInv, CallOK, NoCall

(* At power-on there is no mapping and the caches are empty.               *)
LEMMA VmmInitInv == VmmInit => VmmInv
<1> SUFFICES ASSUME VmmInit PROVE VmmInv
  OBVIOUS
<1>1. 0 \in Entries
  BY DEF Entries
<1>2. Empty \in [Index -> Entries] /\ \A i \in Index : Empty[i] = 0
  BY <1>1 DEF Empty
<1>3. SoftTyped
  BY <1>2 DEF VmmInit, SoftTyped
<1>4. DirectoryOK /\ UsedOK /\ IdentityOK
  BY <1>2, TabFacts DEF VmmInit, DirectoryOK, UsedOK, IdentityOK
<1>5. CallOK
  BY DEF VmmInit, CallOK
<1>6. HardInv
  BY DEF VmmInit, HardInv, Nothing
<1> QED BY <1>3, <1>4, <1>5, <1>6 DEF VmmInv, SoftInv

(* stage7b builds the identity map and leaves the windows unmapped.        *)
LEMMA SetupStep ==
    ASSUME VmmInv, stage7b_setup_early_identity_paging
    PROVE  /\ VmmInv' /\ v_pc = "idle" /\ paging = "off" /\ paging' = "built"
           /\ UNCHANGED <<v_pc, answer>>
<1>1. /\ paging = "off" /\ paging' = "built" /\ UNCHANGED <<v_pc, v_call, answer, tlb, pde_cache>>
      /\ pd' = [Empty EXCEPT ![0] = MakeEntry(IDENTITY_TABLE)]
      /\ pts' = [pts EXCEPT ![IDENTITY_TABLE] = [i \in Index |-> MakeEntry(i * PAGE_SIZE)]]
  BY DEF stage7b_setup_early_identity_paging, MakeEntry, hardware
<1>2. v_pc = "idle" /\ v_call = NoCall /\ pd = Empty
  BY <1>1 DEF VmmInv, SoftInv, CallOK, IdentityOK
<1>3. 0 \in Index /\ \A i \in Index : i * PAGE_SIZE \in Frames
  BY Layout DEF Index, Frames
<1>4. IDENTITY_TABLE \in Frames /\ IDENTITY_TABLE \in Tables /\ HasTab(0) /\ Tab(0) = IDENTITY_TABLE
  BY DEF Frames, Tables, HasTab, Tab
<1>5. /\ \A i \in Index : pd'[i] = IF i = 0 THEN MakeEntry(IDENTITY_TABLE) ELSE 0
      /\ DOMAIN pd' = Index
  BY <1>1, <1>3 DEF Empty
<1>6. pd' \in [Index -> Entries]
  BY <1>1, <1>3, <1>4, MadeEntry DEF Empty
<1>7. pts \in [Tables -> [Index -> Entries]]
  BY DEF VmmInv, SoftInv, SoftTyped
<1>8. [i \in Index |-> MakeEntry(i * PAGE_SIZE)] \in [Index -> Entries]
  BY <1>3, MadeEntry
<1>9. /\ pts' \in [Tables -> [Index -> Entries]]
      /\ \A i \in Index : pts'[IDENTITY_TABLE][i] = MakeEntry(i * PAGE_SIZE)
      /\ \A t \in Tables : t # IDENTITY_TABLE => pts'[t] = pts[t]
  BY <1>1, <1>4, <1>7, <1>8
<1>10. \A i \in Index : pd[i] = 0
  BY <1>2 DEF Empty
<1>11. DirectoryOK'
  <2>1. MakeEntry(IDENTITY_TABLE) # 0
    BY <1>4, MadeEntry
  <2>2. \A i \in Index : HasTab(i) /\ pd'[i] = 0 => pts'[Tab(i)] = Empty
    BY <1>3, <1>4, <1>5, <1>9, <1>10, <2>1, TabFacts DEF VmmInv, SoftInv, DirectoryOK
  <2>3. \A i \in Index : pd'[i] = 0 \/ (HasTab(i) /\ pd'[i] = MakeEntry(Tab(i)))
    BY <1>4, <1>5
  <2> QED BY <2>2, <2>3 DEF DirectoryOK
<1>12. SoftTyped' /\ IdentityOK'
  BY <1>1, <1>2, <1>3, <1>5, <1>6, <1>9 DEF SoftTyped, IdentityOK
<1>13. UsedOK' /\ CallOK'
  BY <1>1, <1>2, <1>5 DEF UsedOK, CallOK
<1>14. HardInv'
  BY <1>1 DEF VmmInv, HardInv
<1> QED BY <1>1, <1>2, <1>11, <1>12, <1>13, <1>14 DEF VmmInv, SoftInv

(* stage7c starts with empty caches.                                       *)
LEMMA ActivateStep ==
    ASSUME VmmInv, stage7c_activate
    PROVE  VmmInv' /\ v_pc = "idle" /\ paging = "built" /\ paging' = "on" /\ UNCHANGED <<v_pc, answer, pd, pts>>
<1>1. /\ paging = "built" /\ paging' = "on" /\ UNCHANGED <<pd, pts, v_pc, v_call, answer>>
      /\ tlb' = Nothing /\ pde_cache' = Nothing
  BY DEF stage7c_activate
<1>2. v_pc = "idle" /\ v_call = NoCall
  BY <1>1 DEF VmmInv, SoftInv, CallOK
<1>3. SoftInv'
  BY <1>1, <1>2 DEF VmmInv, SoftInv, SoftTyped, DirectoryOK, IdentityOK, UsedOK, CallOK
<1>4. HardInv'
  BY <1>1 DEF HardInv, Nothing
<1> QED BY <1>1, <1>2, <1>3, <1>4 DEF VmmInv

(* The checks at the head of map_page and unmap_page on a page with a      *)
(* slot: its directory entry is never foreign.                             *)
LEMMA WalkGuard ==
    ASSUME SoftInv, NEW v \in Pages, HasSlot(v)
    PROVE  /\ ~ PdeIsForeign(v)
           /\ Present(Pde(v)) <=> pd[pdx(v)] # 0
           /\ Present(Pte(ExpectedTable(v), v)) <=> Entry(v) # 0
           /\ pd[pdx(v)] = 0 => Entry(v) = 0
           /\ Entry(v) \in Entries
<1>1. /\ pdx(v) \in Index /\ ptx(v) \in Index /\ HasTab(pdx(v))
      /\ ExpectedTable(v) = Tab(pdx(v))
      /\ Entry(v) = Pte(ExpectedTable(v), v) /\ Pde(v) = pd[pdx(v)]
  BY SlotPage
<1>2. pd[pdx(v)] \in Entries /\ Entry(v) \in Entries
  BY <1>1, TranslateIs DEF SoftInv, SoftTyped
<1>3. pd[pdx(v)] = 0 \/ pd[pdx(v)] = MakeEntry(Tab(pdx(v)))
  BY <1>1 DEF SoftInv, DirectoryOK
<1>4. ~ PdeIsForeign(v)
  BY <1>1, <1>3, ZeroEntry, TabFacts, MadeEntry DEF PdeIsForeign
<1>5. pd[pdx(v)] = 0 => Entry(v) = 0
  BY <1>1 DEF Entry, SoftInv, DirectoryOK, Empty
<1> QED BY <1>1, <1>2, <1>4, <1>5, EntriesFacts

(* The caches when the entries and the exempted page stay.                 *)
LEMMA CachesUnchanged ==
    ASSUME HardInv, UNCHANGED <<paging, tlb, pde_cache>>,
           \A v \in Pages : Entry(v)' = Entry(v),
           v_pc = "unmap_inv" => v_pc' = "unmap_inv" /\ v_call' = v_call
    PROVE  HardInv'
BY DEF HardInv

(* map_page up to its first store.                                         *)
LEMMA MapCallStep ==
    ASSUME VmmInv, NEW v \in VAddrs, NEW f \in PAddrs, MapCall(v, f)
    PROVE  /\ VmmInv' /\ v_pc = "idle" /\ paging = "on" /\ paging' = "on"
           /\ \A w \in Pages : Entry(w)' = Entry(w)
           /\ \/ /\ UNCHANGED <<v_pc, v_call>> /\ answer' = Answer("map", v, 0)
                 /\ \/ ~ is_page_aligned(v) \/ ~ is_page_aligned(f) \/ ~ Reserved(v)
                    \/ v \in Pages /\ Entry(v) # 0
              \/ /\ UNCHANGED answer /\ v_pc' \in {"map_clear", "map_pte"}
                 /\ v_call' = [op |-> "map", page |-> v, frame |-> f]
<1>1. /\ paging = "on" /\ v_pc = "idle" /\ UNCHANGED <<paging, pd, pts, tlb, pde_cache>>
  BY DEF MapCall, hardware
<1> DEFINE Refused == \/ ~ is_page_aligned(v) \/ ~ is_page_aligned(f)
                      \/ ~ HasSlot(v) \/ PdeIsForeign(v)
                      \/ Present(Pde(v)) /\ Present(Pte(ExpectedTable(v), v))
<1>2. is_page_aligned(v) => v \in Pages
  BY DEF Pages
<1>3. v \in Addr
  BY CallerAddr
<1>4. CASE Refused
  <2>1. UNCHANGED <<v_pc, v_call>> /\ answer' = Answer("map", v, 0)
    BY <1>4 DEF MapCall
  <2>2. SoftInv'
    BY <1>1, <2>1, TablesUnchanged DEF VmmInv, SoftInv, SoftTyped, UsedOK, CallOK
  <2>3. \A w \in Pages : Entry(w)' = Entry(w)
    BY <1>1, <2>1, TablesUnchanged DEF VmmInv, SoftInv, SoftTyped
  <2>4. HardInv'
    BY <1>1, <2>1, <2>3, CachesUnchanged DEF VmmInv
  <2>5. \/ ~ is_page_aligned(v) \/ ~ is_page_aligned(f) \/ ~ Reserved(v)
        \/ v \in Pages /\ Entry(v) # 0
    BY <1>2, <1>3, <1>4, WindowSlots, WalkGuard DEF VmmInv
  <2> QED BY <1>1, <2>1, <2>2, <2>3, <2>4, <2>5 DEF VmmInv
<1>5. CASE ~ Refused
  <2>1. /\ v_pc' = IF Present(Pde(v)) THEN "map_pte" ELSE "map_clear"
        /\ v_call' = [op |-> "map", page |-> v, frame |-> f]
        /\ UNCHANGED answer
    BY <1>5 DEF MapCall
  <2>2. v \in Pages /\ HasSlot(v) /\ f \in Frames
    BY <1>2, <1>5 DEF Frames
  <2>3. Entry(v) = 0 /\ (Present(Pde(v)) <=> pd[pdx(v)] # 0)
    BY <1>5, <2>2, WalkGuard DEF VmmInv
  <2>4. /\ SoftTyped' /\ DirectoryOK' /\ IdentityOK'
        /\ \A w \in Pages : Entry(w)' = Entry(w)
    BY <1>1, <2>1, TablesUnchanged DEF VmmInv, SoftInv
  <2>5. UsedOK'
    BY <1>1 DEF VmmInv, SoftInv, UsedOK
  <2>6. CallOK'
    <3>1. v_call'.page = v /\ v_call'.frame = f /\ v_call'.op = "map"
      BY <2>1
    <3>2. Entry(v_call.page)' = 0 /\ HasSlot(v_call.page)'
      BY <2>2, <2>3, <2>4, <3>1
      DEF Entry, HasSlot, TableSlot, in_heap_reserved, in_mapping_reserved
    <3>3. pd'[pdx(v_call'.page)] = 0 <=> v_pc' \in {"map_clear", "map_pde"}
      BY <1>1, <2>1, <2>3, <3>1
    <3> QED BY <1>1, <2>1, <2>2, <3>1, <3>2, <3>3 DEF CallOK
  <2>7. HardInv'
    BY <1>1, <2>4, CachesUnchanged DEF VmmInv
  <2> QED BY <1>1, <2>1, <2>4, <2>5, <2>6, <2>7 DEF VmmInv, SoftInv
<1> QED BY <1>4, <1>5

(* Clearing the table about to be installed changes nothing: it is empty.  *)
LEMMA MapClearStep ==
    ASSUME VmmInv, MapClearTable
    PROVE  /\ VmmInv' /\ v_pc = "map_clear" /\ v_pc' = "map_pde" /\ UNCHANGED <<paging, v_call, answer>>
           /\ \A w \in Pages : Entry(w)' = Entry(w)
<1>1. /\ v_pc = "map_clear" /\ v_pc' = "map_pde"
      /\ UNCHANGED <<paging, pd, v_call, answer, tlb, pde_cache>>
      /\ pts' = [pts EXCEPT ![ExpectedTable(v_call.page)] = Empty]
  BY DEF MapClearTable, Goto, hardware
<1>2. v_call.page \in Pages /\ HasSlot(v_call.page) /\ pd[pdx(v_call.page)] = 0
  BY <1>1 DEF VmmInv, SoftInv, CallOK
<1>3. pts[ExpectedTable(v_call.page)] = Empty /\ ExpectedTable(v_call.page) \in Tables
  BY <1>2, SlotPage DEF VmmInv, SoftInv, DirectoryOK
<1>4. pts' = pts
  BY <1>1, <1>3 DEF VmmInv, SoftInv, SoftTyped
<1>5. /\ SoftTyped' /\ DirectoryOK' /\ IdentityOK'
      /\ \A w \in Pages : Entry(w)' = Entry(w)
  BY <1>1, <1>4, TablesUnchanged DEF VmmInv, SoftInv
<1>6. UsedOK' /\ CallOK'
  BY <1>1, <1>2, <1>4, <1>5
  DEF VmmInv, SoftInv, UsedOK, CallOK, Entry, HasSlot, TableSlot, in_heap_reserved, in_mapping_reserved
<1>7. HardInv'
  BY <1>1, <1>5, CachesUnchanged DEF VmmInv
<1> QED BY <1>1, <1>5, <1>6, <1>7 DEF VmmInv, SoftInv

(* Installing an empty table changes no translation.                       *)
LEMMA MapInstallStep ==
    ASSUME VmmInv, MapInstallTable
    PROVE  /\ VmmInv' /\ v_pc = "map_pde" /\ v_pc' = "map_pte" /\ UNCHANGED <<paging, v_call, answer>>
           /\ \A w \in Pages : Entry(w)' = Entry(w)
<1>1. /\ v_pc = "map_pde" /\ v_pc' = "map_pte"
      /\ UNCHANGED <<paging, pts, v_call, answer, tlb, pde_cache>>
      /\ pd' = [pd EXCEPT ![pdx(v_call.page)] = MakeEntry(ExpectedTable(v_call.page))]
  BY DEF MapInstallTable, Goto, hardware, SetPde, pdx, MakeEntry
<1>2. /\ v_call.page \in Pages /\ HasSlot(v_call.page) /\ v_call.frame \in Frames
      /\ Entry(v_call.page) = 0 /\ paging = "on"
  BY <1>1, Running DEF VmmInv, SoftInv, CallOK
<1>3. PICK i \in Index : /\ i = pdx(v_call.page) /\ i # 0 /\ HasTab(i)
                         /\ ExpectedTable(v_call.page) = Tab(i)
  BY <1>2, SlotPage
<1>4. MakeEntry(Tab(i)) \in Entries /\ MakeEntry(Tab(i)) # 0
  BY <1>3, TabFacts, MadeEntry
<1>5. /\ pd' \in [Index -> Entries]
      /\ \A k \in Index : pd'[k] = IF k = i THEN MakeEntry(Tab(i)) ELSE pd[k]
  BY <1>1, <1>3, <1>4 DEF VmmInv, SoftInv, SoftTyped
<1>6. \A w \in Pages : Entry(w)' = Entry(w)
  BY <1>1 DEF Entry
<1>7. SoftTyped' /\ DirectoryOK'
  BY <1>1, <1>3, <1>4, <1>5 DEF VmmInv, SoftInv, SoftTyped, DirectoryOK
<1>8. IdentityOK'
  BY <1>1, <1>2, <1>3, <1>5, Layout DEF VmmInv, SoftInv, IdentityOK, Index
<1>9. UsedOK'
  BY <1>1, <1>3, <1>5 DEF VmmInv, SoftInv, UsedOK
<1>10. CallOK'
  BY <1>1, <1>2, <1>3, <1>4, <1>5
  DEF VmmInv, SoftInv, CallOK, Entry, HasSlot, TableSlot, in_heap_reserved, in_mapping_reserved
<1>11. HardInv'
  BY <1>1, <1>6, CachesUnchanged DEF VmmInv
<1> QED BY <1>1, <1>6, <1>7, <1>8, <1>9, <1>10, <1>11 DEF VmmInv, SoftInv

(* A store to the page entry of the running call, other tables untouched.  *)
LEMMA EntryStep ==
    ASSUME VmmInv, v_pc # "idle", pd[pdx(v_call.page)] # 0, NEW e \in Entries,
           SetPte(v_call.page, e), UNCHANGED <<paging, pd, v_call>>,
           v_pc' \in {"map_inv", "unmap_inv"}
    PROVE  /\ SoftTyped' /\ DirectoryOK' /\ IdentityOK'
           /\ Entry(v_call.page)' = e
           /\ \A w \in Pages : w # v_call.page => Entry(w)' = Entry(w)
           /\ \A i \in Index : HasTab(i) /\ i # pdx(v_call.page) => pts'[Tab(i)] = pts[Tab(i)]
           /\ \A j \in Index : pts'[Tab(pdx(v_call.page))][j] =
                    IF j = ptx(v_call.page) THEN e ELSE pts[Tab(pdx(v_call.page))][j]
<1>1. PICK v \in Pages : v = v_call.page
  BY Running DEF VmmInv
<1>2. HasSlot(v) /\ SoftTyped /\ paging = "on"
  BY <1>1, Running DEF VmmInv, SoftInv
<1>3. pts' = [pts EXCEPT ![ExpectedTable(v)][stage7a_paging_pt_index(v)] = e]
  BY <1>1 DEF SetPte
<1>4. /\ pts' \in [Tables -> [Index -> Entries]]
      /\ Entry(v)' = e
      /\ \A w \in Pages : w # v => Entry(w)' = Entry(w)
      /\ \A i \in Index : HasTab(i) /\ i # pdx(v) => pts'[Tab(i)] = pts[Tab(i)]
      /\ \A j \in Index : pts'[Tab(pdx(v))][j] = IF j = ptx(v) THEN e ELSE pts[Tab(pdx(v))][j]
  BY <1>2, <1>3, StoreEntry
<1>5. Entry(v_call.page)' = e
  BY <1>1, <1>4 DEF Entry
<1>6. SoftTyped'
  BY <1>4 DEF VmmInv, SoftInv, SoftTyped
<1>7. DirectoryOK'
  BY <1>1, <1>4 DEF VmmInv, SoftInv, DirectoryOK
<1>8. IdentityOK'
  <2>1. pdx(v) # 0 /\ 0 \in Index /\ HasTab(0) /\ Tab(0) = IDENTITY_TABLE
    BY <1>2, SlotPage, Layout DEF Index, HasTab, Tab
  <2>2. pts'[IDENTITY_TABLE] = pts[IDENTITY_TABLE]
    BY <1>4, <2>1
  <2> QED BY <1>2, <2>2 DEF VmmInv, SoftInv, IdentityOK
<1> QED BY <1>1, <1>4, <1>5, <1>6, <1>7, <1>8

(* map_page stores the entry.                                              *)
LEMMA MapWriteStep ==
    ASSUME VmmInv, MapWriteEntry
    PROVE  /\ VmmInv' /\ v_pc = "map_pte" /\ v_pc' = "map_inv" /\ UNCHANGED <<paging, v_call, answer>>
           /\ \A w \in Pages : w # v_call.page => Entry(w)' = Entry(w)
           /\ Entry(v_call.page) = 0
<1>1. /\ v_pc = "map_pte" /\ v_pc' = "map_inv"
      /\ UNCHANGED <<paging, pd, v_call, answer, tlb, pde_cache>>
      /\ SetPte(v_call.page, MakeEntry(v_call.frame))
  BY DEF MapWriteEntry, Goto, hardware, MakeEntry
<1>2. /\ v_call.page \in Pages /\ HasSlot(v_call.page) /\ v_call.frame \in Frames
      /\ Entry(v_call.page) = 0 /\ pd[pdx(v_call.page)] # 0
  BY <1>1, Running DEF VmmInv, SoftInv, CallOK
<1>3. PICK e \in Entries : e = MakeEntry(v_call.frame) /\ e # 0
  BY <1>2, MadeEntry
<1>4. /\ SoftTyped' /\ DirectoryOK' /\ IdentityOK'
      /\ Entry(v_call.page)' = e
      /\ \A w \in Pages : w # v_call.page => Entry(w)' = Entry(w)
      /\ \A i \in Index : HasTab(i) /\ i # pdx(v_call.page) => pts'[Tab(i)] = pts[Tab(i)]
      /\ \A j \in Index : pts'[Tab(pdx(v_call.page))][j] =
                IF j = ptx(v_call.page) THEN e ELSE pts[Tab(pdx(v_call.page))][j]
  BY <1>1, <1>2, <1>3, EntryStep
<1>5. pdx(v_call.page) \in Index /\ ptx(v_call.page) \in Index
  BY <1>2, SlotPage
<1>6. UsedOK'
  <2> SUFFICES ASSUME NEW i \in Index, i # 0, pd'[i] # 0
               PROVE  \E j \in Index : pts'[Tab(i)][j] # 0
    BY <1>1 DEF UsedOK
  <2>1. CASE i = pdx(v_call.page)
    BY <1>3, <1>4, <1>5, <2>1
  <2>2. CASE i # pdx(v_call.page)
    <3>1. HasTab(i) /\ pd[i] # 0
      BY <1>1 DEF VmmInv, SoftInv, DirectoryOK
    <3>2. \E j \in Index : pts[Tab(i)][j] # 0
      BY <2>2, <3>1 DEF VmmInv, SoftInv, UsedOK
    <3> QED BY <1>4, <2>2, <3>1, <3>2
  <2> QED BY <2>1, <2>2
<1>7. CallOK'
  BY <1>1, <1>2, <1>3, <1>4 DEF VmmInv, SoftInv, CallOK
<1>8. HardInv'
  <2>1. v_call.page \notin DOMAIN tlb
    BY <1>1, <1>2, MadeEntry DEF VmmInv, HardInv
  <2> QED BY <1>1, <1>4, <2>1 DEF VmmInv, HardInv
<1> QED BY <1>1, <1>2, <1>4, <1>6, <1>7, <1>8 DEF VmmInv, SoftInv

(* unmap_page clears the entry; until the invlpg the TLB may still hold    *)
(* the page.                                                               *)
LEMMA UnmapClearStep ==
    ASSUME VmmInv, UnmapClearEntry
    PROVE  /\ VmmInv' /\ v_pc = "unmap_pte" /\ v_pc' = "unmap_inv" /\ UNCHANGED <<paging, v_call, answer>>
           /\ \A w \in Pages : w # v_call.page => Entry(w)' = Entry(w)
           /\ Entry(v_call.page) = MakeEntry(v_call.frame)
<1>1. /\ v_pc = "unmap_pte" /\ v_pc' = "unmap_inv"
      /\ UNCHANGED <<paging, pd, v_call, answer, tlb, pde_cache>>
      /\ SetPte(v_call.page, 0)
  BY DEF UnmapClearEntry, Goto, hardware
<1>2. /\ v_call.page \in Pages /\ HasSlot(v_call.page) /\ v_call.frame \in Frames
      /\ Entry(v_call.page) = MakeEntry(v_call.frame) /\ pd[pdx(v_call.page)] # 0
  BY <1>1, Running DEF VmmInv, SoftInv, CallOK
<1>3. 0 \in Entries
  BY DEF Entries
<1>4. /\ SoftTyped' /\ DirectoryOK' /\ IdentityOK'
      /\ Entry(v_call.page)' = 0
      /\ \A w \in Pages : w # v_call.page => Entry(w)' = Entry(w)
      /\ \A i \in Index : HasTab(i) /\ i # pdx(v_call.page) => pts'[Tab(i)] = pts[Tab(i)]
  BY <1>1, <1>2, <1>3, EntryStep
<1>5. UsedOK'
  <2> SUFFICES ASSUME NEW i \in Index, i # 0, pd'[i] # 0, i # pdx(v_call.page)
               PROVE  \E j \in Index : pts'[Tab(i)][j] # 0
    BY <1>1 DEF UsedOK
  <2>1. HasTab(i) /\ pd[i] # 0
    BY <1>1 DEF VmmInv, SoftInv, DirectoryOK
  <2>2. \E j \in Index : pts[Tab(i)][j] # 0
    BY <2>1 DEF VmmInv, SoftInv, UsedOK
  <2> QED BY <1>4, <2>1, <2>2
<1>6. CallOK'
  BY <1>1, <1>2, <1>4 DEF VmmInv, SoftInv, CallOK
<1>7. HardInv'
  BY <1>1, <1>4 DEF VmmInv, HardInv
<1> QED BY <1>1, <1>2, <1>4, <1>5, <1>6, <1>7 DEF VmmInv, SoftInv

(* invlpg drops the page, so the TLB agrees with the entries again.        *)
LEMMA InvlpgCaches ==
    ASSUME HardInv, invlpg(v_call.page), UNCHANGED <<paging, pts>>
    PROVE  HardInv'
<1>1. \A v \in Pages : Entry(v)' = Entry(v)
  BY DEF Entry
<1>2. /\ DOMAIN tlb' = DOMAIN tlb \ {v_call.page}
      /\ \A v \in DOMAIN tlb' : tlb'[v] = tlb[v]
      /\ DOMAIN pde_cache' = {}
  BY DEF invlpg, Nothing
<1> QED BY <1>1, <1>2 DEF HardInv

(* map_page returns.                                                       *)
LEMMA MapInvalidateStep ==
    ASSUME VmmInv, MapInvalidate
    PROVE  /\ VmmInv' /\ v_pc = "map_inv" /\ v_pc' = "idle" /\ UNCHANGED paging
           /\ answer' = Answer("map", v_call.page, 1)
           /\ \A w \in Pages : Entry(w)' = Entry(w)
<1>1. /\ v_pc = "map_inv" /\ v_pc' = "idle" /\ v_call' = NoCall /\ UNCHANGED <<paging, pd, pts>>
      /\ invlpg(v_call.page) /\ answer' = Answer(v_call.op, v_call.page, 1)
  BY DEF MapInvalidate, Return
<1>2. v_call.op = "map"
  BY <1>1 DEF VmmInv, SoftInv, CallOK
<1>3. /\ SoftTyped' /\ DirectoryOK' /\ IdentityOK'
      /\ \A w \in Pages : Entry(w)' = Entry(w)
  BY <1>1, TablesUnchanged DEF VmmInv, SoftInv
<1>4. UsedOK' /\ CallOK'
  BY <1>1 DEF VmmInv, SoftInv, UsedOK, CallOK
<1>5. HardInv'
  BY <1>1, InvlpgCaches DEF VmmInv
<1> QED BY <1>1, <1>2, <1>3, <1>4, <1>5 DEF VmmInv, SoftInv

(* The invlpg of unmap_page.                                               *)
LEMMA UnmapInvalidateStep ==
    ASSUME VmmInv, UnmapInvalidate
    PROVE  /\ VmmInv' /\ v_pc = "unmap_inv" /\ v_pc' = "unmap_pde" /\ UNCHANGED <<paging, v_call, answer>>
           /\ \A w \in Pages : Entry(w)' = Entry(w)
<1>1. /\ v_pc = "unmap_inv" /\ v_pc' = "unmap_pde" /\ UNCHANGED <<paging, pd, pts, v_call, answer>>
      /\ invlpg(v_call.page)
  BY DEF UnmapInvalidate, Goto
<1>2. /\ SoftTyped' /\ DirectoryOK' /\ IdentityOK'
      /\ \A w \in Pages : Entry(w)' = Entry(w)
  BY <1>1, TablesUnchanged DEF VmmInv, SoftInv
<1>3. UsedOK'
  BY <1>1 DEF VmmInv, SoftInv, UsedOK
<1>4. CallOK'
  BY <1>1 DEF VmmInv, SoftInv, CallOK, Entry, HasSlot, TableSlot, in_heap_reserved, in_mapping_reserved
<1>5. HardInv'
  BY <1>1, InvlpgCaches DEF VmmInv
<1> QED BY <1>1, <1>2, <1>3, <1>4, <1>5 DEF VmmInv, SoftInv

(* unmap_page drops the table with its last page and returns.              *)
LEMMA UnmapDropStep ==
    ASSUME VmmInv, UnmapDropTable
    PROVE  /\ VmmInv' /\ v_pc = "unmap_pde" /\ v_pc' = "idle" /\ UNCHANGED paging
           /\ answer' = Answer("unmap", v_call.page, 1)
           /\ \A w \in Pages : Entry(w)' = Entry(w)
<1>1. /\ v_pc = "unmap_pde" /\ v_pc' = "idle" /\ v_call' = NoCall
      /\ UNCHANGED <<paging, pts, tlb, pde_cache>>
      /\ answer' = Answer(v_call.op, v_call.page, 1)
  BY DEF UnmapDropTable, Return, hardware
<1>2. /\ v_call.page \in Pages /\ HasSlot(v_call.page) /\ v_call.op = "unmap" /\ paging = "on"
  BY <1>1, Running DEF VmmInv, SoftInv, CallOK
<1>3. PICK i \in Index : /\ i = pdx(v_call.page) /\ i # 0 /\ HasTab(i)
                         /\ ExpectedTable(v_call.page) = Tab(i) /\ Tab(i) \in Tables
  BY <1>2, SlotPage
<1>4. pts[Tab(i)] \in [Index -> Entries] /\ pts \in [Tables -> [Index -> Entries]]
  BY <1>3 DEF VmmInv, SoftInv, SoftTyped
<1>5. TableIsEmpty(Tab(i)) <=> \A j \in Index : pts[Tab(i)][j] = 0
  BY <1>4, EntriesFacts DEF TableIsEmpty
<1>6. \A w \in Pages : Entry(w)' = Entry(w)
  BY <1>1 DEF Entry
<1>7. HardInv'
  BY <1>1, <1>6, CachesUnchanged DEF VmmInv
<1>8. CASE TableIsEmpty(Tab(i))
  <2>1. pd' = [pd EXCEPT ![i] = 0]
    BY <1>3, <1>8 DEF UnmapDropTable, SetPde, pdx
  <2>2. 0 \in Entries
    BY DEF Entries
  <2>3. /\ pd' \in [Index -> Entries]
        /\ \A k \in Index : pd'[k] = IF k = i THEN 0 ELSE pd[k]
    BY <2>1, <2>2 DEF VmmInv, SoftInv, SoftTyped
  <2>4. pts[Tab(i)] = Empty
    BY <1>4, <1>5, <1>8 DEF Empty
  <2>5. SoftTyped' /\ DirectoryOK'
    BY <1>1, <2>3, <2>4 DEF VmmInv, SoftInv, SoftTyped, DirectoryOK
  <2>6. IdentityOK'
    BY <1>1, <1>2, <1>3, <2>3, Layout DEF VmmInv, SoftInv, IdentityOK, Index
  <2>7. UsedOK' /\ CallOK'
    BY <1>1, <1>3, <2>3 DEF VmmInv, SoftInv, UsedOK, CallOK
  <2> QED BY <1>1, <1>2, <1>6, <1>7, <2>5, <2>6, <2>7 DEF VmmInv, SoftInv
<1>9. CASE ~ TableIsEmpty(Tab(i))
  <2>1. pd' = pd
    BY <1>3, <1>9 DEF UnmapDropTable
  <2>2. SoftTyped' /\ DirectoryOK' /\ IdentityOK'
    BY <1>1, <2>1, TablesUnchanged DEF VmmInv, SoftInv
  <2>3. UsedOK' /\ CallOK'
    BY <1>1, <1>3, <1>5, <1>9, <2>1 DEF VmmInv, SoftInv, UsedOK, CallOK
  <2> QED BY <1>1, <1>2, <1>6, <1>7, <2>2, <2>3 DEF VmmInv, SoftInv
<1> QED BY <1>8, <1>9

(* What the steps of a running call have in common: they touch the page of *)
(* the call only, and map_page returns 1 with its entry in place.          *)
LEMMA CallStepEffect ==
    ASSUME VmmInv, CallStep
    PROVE  /\ VmmInv' /\ v_pc # "idle" /\ UNCHANGED paging
           /\ \A w \in Pages : w # v_call.page => Entry(w)' = Entry(w)
           /\ v_pc' # "idle" => v_call' = v_call
           /\ v_call.op = "map" /\ v_pc' = "idle" =>
                /\ answer' = Answer("map", v_call.page, 1)
                /\ Entry(v_call.page) = MakeEntry(v_call.frame)
                /\ \A w \in Pages : Entry(w)' = Entry(w)
<1>1. CASE MapClearTable
  BY <1>1, MapClearStep
<1>2. CASE MapInstallTable
  BY <1>2, MapInstallStep
<1>3. CASE MapWriteEntry
  BY <1>3, MapWriteStep
<1>4. CASE MapInvalidate
  <2>1. Entry(v_call.page) = MakeEntry(v_call.frame)
    BY <1>4 DEF MapInvalidate, VmmInv, SoftInv, CallOK
  <2> QED BY <1>4, <2>1, MapInvalidateStep
<1>5. CASE UnmapClearEntry
  BY <1>5, UnmapClearStep
<1>6. CASE UnmapInvalidate
  BY <1>6, UnmapInvalidateStep
<1>7. CASE UnmapDropTable
  <2>1. v_call.op # "map"
    BY <1>7 DEF UnmapDropTable, VmmInv, SoftInv, CallOK
  <2> QED BY <1>7, <2>1, UnmapDropStep
<1> QED BY <1>1, <1>2, <1>3, <1>4, <1>5, <1>6, <1>7 DEF CallStep

(* unmap_page up to its first store.                                       *)
LEMMA UnmapCallStep ==
    ASSUME VmmInv, NEW v \in VAddrs, UnmapCall(v)
    PROVE  /\ VmmInv' /\ v_pc = "idle" /\ paging = "on" /\ paging' = "on"
           /\ \A w \in Pages : Entry(w)' = Entry(w)
           /\ \/ /\ UNCHANGED <<v_pc, v_call>> /\ answer' = Answer("unmap", v, 0)
                 /\ \/ ~ is_page_aligned(v) \/ ~ Reserved(v)
                    \/ v \in Pages /\ Entry(v) = 0
              \/ UNCHANGED answer /\ v_pc' = "unmap_pte" /\ v_call'.page = v
<1>1. /\ paging = "on" /\ v_pc = "idle" /\ UNCHANGED <<paging, pd, pts, tlb, pde_cache>>
  BY DEF UnmapCall, hardware
<1> DEFINE Refused == \/ ~ is_page_aligned(v) \/ ~ HasSlot(v) \/ ~ Present(Pde(v))
                      \/ PdeIsForeign(v) \/ ~ Present(Pte(ExpectedTable(v), v))
<1>2. is_page_aligned(v) => v \in Pages
  BY DEF Pages
<1>3. v \in Addr
  BY CallerAddr
<1>4. CASE Refused
  <2>1. UNCHANGED <<v_pc, v_call>> /\ answer' = Answer("unmap", v, 0)
    BY <1>4 DEF UnmapCall
  <2>2. SoftInv'
    BY <1>1, <2>1, TablesUnchanged DEF VmmInv, SoftInv, SoftTyped, UsedOK, CallOK
  <2>3. \A w \in Pages : Entry(w)' = Entry(w)
    BY <1>1, <2>1, TablesUnchanged DEF VmmInv, SoftInv, SoftTyped
  <2>4. HardInv'
    BY <1>1, <2>1, <2>3, CachesUnchanged DEF VmmInv
  <2>5. \/ ~ is_page_aligned(v) \/ ~ Reserved(v)
        \/ v \in Pages /\ Entry(v) = 0
    BY <1>2, <1>3, <1>4, WindowSlots, WalkGuard DEF VmmInv
  <2> QED BY <1>1, <2>1, <2>2, <2>3, <2>4, <2>5 DEF VmmInv
<1>5. CASE ~ Refused
  <2> DEFINE f == stage7a_paging_frame_addr(Pte(ExpectedTable(v), v))
  <2>1. /\ v_pc' = "unmap_pte" /\ v_call' = [op |-> "unmap", page |-> v, frame |-> f]
        /\ UNCHANGED answer
    BY <1>5 DEF UnmapCall
  <2>2. v \in Pages /\ HasSlot(v)
    BY <1>2, <1>5
  <2>3. Entry(v) # 0 /\ Entry(v) \in Entries /\ pd[pdx(v)] # 0
        /\ Entry(v) = Pte(ExpectedTable(v), v)
    BY <1>5, <2>2, WalkGuard, SlotPage DEF VmmInv
  <2>4. f \in Frames /\ Entry(v) = MakeEntry(f)
    BY <2>3, EntriesFacts
  <2> HIDE DEF f
  <2>5. /\ SoftTyped' /\ DirectoryOK' /\ IdentityOK'
        /\ \A w \in Pages : Entry(w)' = Entry(w)
    BY <1>1, <2>1, TablesUnchanged DEF VmmInv, SoftInv
  <2>6. UsedOK'
    BY <1>1 DEF VmmInv, SoftInv, UsedOK
  <2>7. CallOK'
    <3>1. v_call'.page = v /\ v_call'.frame = f /\ v_call'.op = "unmap"
      BY <2>1
    <3>2. Entry(v_call.page)' = MakeEntry(f) /\ HasSlot(v_call.page)'
      BY <2>2, <2>4, <2>5, <3>1
      DEF Entry, HasSlot, TableSlot, in_heap_reserved, in_mapping_reserved
    <3>3. pd'[pdx(v_call'.page)] # 0
      BY <1>1, <2>3, <3>1
    <3> QED BY <1>1, <2>1, <2>2, <2>4, <3>1, <3>2, <3>3 DEF CallOK
  <2>8. HardInv'
    BY <1>1, <2>5, CachesUnchanged DEF VmmInv
  <2> QED BY <1>1, <2>1, <2>5, <2>6, <2>7, <2>8 DEF VmmInv, SoftInv
<1> QED BY <1>4, <1>5

(* resolve_page_frame changes nothing but the answer.                      *)
LEMMA ResolveStep ==
    ASSUME VmmInv, NEW v \in VAddrs, Resolve(v)
    PROVE  /\ VmmInv' /\ v_pc = "idle" /\ paging = "on" /\ UNCHANGED <<paging, v_pc, v_call>>
           /\ answer' = Answer("resolve", v, Translate(v))
           /\ \A w \in Pages : Entry(w)' = Entry(w)
<1>1. /\ paging = "on" /\ v_pc = "idle" /\ answer' = Answer("resolve", v, Translate(v))
      /\ UNCHANGED <<paging, pd, pts, v_pc, v_call, tlb, pde_cache>>
  BY DEF Resolve, hardware
<1>2. SoftInv' /\ \A w \in Pages : Entry(w)' = Entry(w)
  BY <1>1 DEF VmmInv, SoftInv, SoftTyped, DirectoryOK, IdentityOK, UsedOK, CallOK, Entry
<1>3. HardInv'
  BY <1>1, <1>2, CachesUnchanged DEF VmmInv
<1> QED BY <1>1, <1>2, <1>3 DEF VmmInv

(* A walk, through memory or through the cache of directory entries, uses  *)
(* the table of the page's index.                                          *)
LEMMA WalkTable ==
    ASSUME VmmInv, NEW v \in Pages, NEW t \in TablesSeen(v)
    PROVE  /\ pdx(v) \in Index /\ HasTab(pdx(v)) /\ t = Tab(pdx(v))
           /\ Pte(t, v) = Entry(v) /\ Entry(v) \in Entries
<1>1. pdx(v) \in Index
  BY PageFacts, PdIndex
<1>2. \/ Present(pd[pdx(v)]) /\ t = stage7a_paging_frame_addr(pd[pdx(v)])
      \/ pdx(v) \in DOMAIN pde_cache /\ t = pde_cache[pdx(v)]
  BY DEF TablesSeen, pdx
<1>3. HasTab(pdx(v)) /\ t = Tab(pdx(v))
  <2>1. CASE Present(pd[pdx(v)]) /\ t = stage7a_paging_frame_addr(pd[pdx(v)])
    BY <1>1, <2>1, ZeroEntry, TabFacts, MadeEntry DEF VmmInv, SoftInv, DirectoryOK
  <2>2. CASE pdx(v) \in DOMAIN pde_cache /\ t = pde_cache[pdx(v)]
    BY <2>2 DEF VmmInv, HardInv
  <2> QED BY <1>2, <2>1, <2>2
<1>4. Pte(t, v) = Entry(v)
  BY <1>3 DEF Pte, Entry, ptx
<1>5. Entry(v) \in Entries
  BY TranslateIs DEF VmmInv, SoftInv
<1> QED BY <1>1, <1>3, <1>4, <1>5

(* The processor's steps read the tables and change its own caches only.   *)
LEMMA HardwareStep ==
    ASSUME VmmInv, Hardware
    PROVE  VmmInv' /\ UNCHANGED software /\ \A w \in Pages : Entry(w)' = Entry(w)
<1>1. PICK v \in Pages : CachePde(v) \/ FillTlb(v) \/ Evict(v)
  BY DEF Hardware
<1>2. UNCHANGED software
  BY <1>1 DEF CachePde, FillTlb, Evict
<1>3. SoftInv' /\ \A w \in Pages : Entry(w)' = Entry(w)
  BY <1>2, SoftUnchanged DEF VmmInv
<1>4. UNCHANGED <<paging, v_pc, v_call>> /\ HardInv
  BY <1>2 DEF software, VmmInv
<1>5. CASE CachePde(v)
  <2>1. /\ paging = "on" /\ Present(pd[pdx(v)]) /\ tlb' = tlb
        /\ pde_cache' = [j \in DOMAIN pde_cache \cup {pdx(v)} |->
                            IF j = pdx(v) THEN stage7a_paging_frame_addr(pd[pdx(v)])
                                          ELSE pde_cache[j]]
    BY <1>5 DEF CachePde, pdx
  <2>2. stage7a_paging_frame_addr(pd[pdx(v)]) \in TablesSeen(v)
    BY <2>1 DEF TablesSeen, pdx
  <2>3. pdx(v) \in Index /\ HasTab(pdx(v)) /\ stage7a_paging_frame_addr(pd[pdx(v)]) = Tab(pdx(v))
    BY <2>2, WalkTable
  <2>4. HardInv'
    BY <1>3, <1>4, <2>1, <2>3 DEF HardInv
  <2> QED BY <1>2, <1>3, <2>4 DEF VmmInv
<1>6. CASE FillTlb(v)
  <2>1. PICK t \in TablesSeen(v) :
            /\ Present(Pte(t, v)) /\ paging = "on" /\ pde_cache' = pde_cache
            /\ tlb' = [p \in DOMAIN tlb \cup {v} |->
                        IF p = v THEN stage7a_paging_frame_addr(Pte(t, v)) ELSE tlb[p]]
    BY <1>6 DEF FillTlb
  <2>2. Pte(t, v) = Entry(v) /\ Entry(v) \in Entries
    BY WalkTable
  <2>3. PICK f \in Frames : f = stage7a_paging_frame_addr(Pte(t, v)) /\ Entry(v) = MakeEntry(f)
    BY <2>1, <2>2, EntriesFacts
  <2>4. HardInv'
    BY <1>3, <1>4, <2>1, <2>3 DEF HardInv
  <2> QED BY <1>2, <1>3, <2>4 DEF VmmInv
<1>7. CASE Evict(v)
  <2>1. tlb' = [p \in DOMAIN tlb \ {v} |-> tlb[p]] /\ pde_cache' = pde_cache
    BY <1>7 DEF Evict
  <2>2. HardInv'
    BY <1>3, <1>4, <2>1 DEF HardInv
  <2> QED BY <1>2, <1>3, <2>2 DEF VmmInv
<1> QED BY <1>1, <1>5, <1>6, <1>7

(* Nothing at all changes.                                                 *)
LEMMA StutterStep ==
    ASSUME VmmInv, UNCHANGED vmm_vars
    PROVE  VmmInv' /\ UNCHANGED software /\ \A w \in Pages : Entry(w)' = Entry(w)
<1>1. UNCHANGED software /\ UNCHANGED <<tlb, pde_cache, paging, v_pc, v_call>>
  BY DEF vmm_vars, software, hardware
<1>2. SoftInv' /\ \A w \in Pages : Entry(w)' = Entry(w)
  BY <1>1, SoftUnchanged DEF VmmInv
<1>3. HardInv'
  BY <1>1, <1>2, CachesUnchanged DEF VmmInv
<1> QED BY <1>1, <1>2, <1>3 DEF VmmInv

(* Every step of the kernel and of the processor keeps the invariant.      *)
LEMMA VmmNextInv == VmmInv /\ [VmmNext]_vmm_vars => VmmInv'
<1> SUFFICES ASSUME VmmInv, [VmmNext]_vmm_vars PROVE VmmInv'
  OBVIOUS
<1>1. CASE stage7b_setup_early_identity_paging
  BY <1>1, SetupStep
<1>2. CASE stage7c_activate
  BY <1>2, ActivateStep
<1>3. ASSUME NEW v \in VAddrs, NEW f \in PAddrs, MapCall(v, f) PROVE VmmInv'
  BY <1>3, MapCallStep
<1>4. ASSUME NEW v \in VAddrs, UnmapCall(v) PROVE VmmInv'
  BY <1>4, UnmapCallStep
<1>5. ASSUME NEW v \in VAddrs, Resolve(v) PROVE VmmInv'
  BY <1>5, ResolveStep
<1>6. CASE CallStep
  BY <1>6, MapClearStep, MapInstallStep, MapWriteStep, MapInvalidateStep,
     UnmapClearStep, UnmapInvalidateStep, UnmapDropStep DEF CallStep
<1>7. CASE Hardware
  BY <1>7, HardwareStep
<1>8. CASE UNCHANGED vmm_vars
  BY <1>8, StutterStep
<1> QED BY <1>1, <1>2, <1>3, <1>4, <1>5, <1>6, <1>7, <1>8 DEF VmmNext, Software

-----------------------------------------------------------------------------
(* A directory index leads to one table only, in memory and in the         *)
(* processor's cache, and a table without a directory entry is empty.      *)
THEOREM PagingInvariant == VmmSpec => []VmmInv
BY VmmInitInv, VmmNextInv, PTL DEF VmmSpec

(* The tables of vmm.c stay well formed, and between calls a table of the  *)
(* windows is installed exactly when it maps a page: unmap_page drops it   *)
(* with its last page and never earlier.                                   *)
THEOREM TablesStayIntact == VmmSpec => []TablesIntact
<1>1. VmmInv => TablesIntact
  <2> SUFFICES ASSUME VmmInv PROVE TablesIntact
    OBVIOUS
  <2>1. /\ v_call.page \in Pages \cup {0} /\ v_call.frame \in Frames \cup {0}
        /\ v_pc = "idle" <=> v_call = NoCall
    <3>1. CASE v_pc = "idle"
      BY <3>1 DEF VmmInv, SoftInv, CallOK, NoCall
    <3>2. CASE v_pc # "idle"
      BY <3>2, Running DEF VmmInv
    <3> QED BY <3>1, <3>2
  <2>2. VmmTypeOK
    BY <2>1 DEF VmmInv, SoftInv, SoftTyped, HardInv, VmmTypeOK
  <2>3. ASSUME v_pc = "idle", NEW s \in DOMAIN MUTABLE_TABLES
        PROVE  Present(pd[Slot0 + s]) <=> ~ TableIsEmpty(MUTABLE_TABLES[s])
    <3>1. s \in Slots
      BY <2>3, VmmAssumption DEF Slots
    <3>2. PICK i \in Index : i = Slot0 + s
      BY <3>1, SlotFacts
    <3>3. i # 0 /\ i - Slot0 = s
      BY <3>1, <3>2, SlotFacts
    <3>4. HasTab(i) /\ Tab(i) = MUTABLE_TABLES[s] /\ Tab(i) \in Tables
      BY <3>1, <3>3, TabFacts DEF HasTab, Tab
    <3>5. pd[i] \in Entries /\ pts[Tab(i)] \in [Index -> Entries]
      BY <3>4 DEF VmmInv, SoftInv, SoftTyped
    <3>6. Present(pd[i]) <=> pd[i] # 0
      BY <3>5, EntriesFacts
    <3>7. TableIsEmpty(Tab(i)) <=> \A j \in Index : pts[Tab(i)][j] = 0
      BY <3>5, EntriesFacts DEF TableIsEmpty
    <3>8. pd[i] = 0 => \A j \in Index : pts[Tab(i)][j] = 0
      BY <3>4 DEF VmmInv, SoftInv, DirectoryOK, Empty
    <3>9. pd[i] # 0 => \E j \in Index : pts[Tab(i)][j] # 0
      BY <2>3, <3>3 DEF VmmInv, SoftInv, UsedOK
    <3> QED BY <3>2, <3>4, <3>6, <3>7, <3>8, <3>9
  <2>4. TableInstalledIffUsed
    BY <2>3 DEF TableInstalledIffUsed, Slot0, pdx
  <2> QED BY <2>2, <2>4 DEF TablesIntact
<1> QED BY <1>1, PagingInvariant, PTL

(* Whatever the processor caches between the stores of map_page and        *)
(* unmap_page, its TLB disagrees with the tables on no page but the one    *)
(* that is between its cleared entry and the invlpg.                       *)
THEOREM TlbStaysCoherent == VmmSpec => []TlbCoherent
<1>1. VmmInv => TlbCoherent
  <2> SUFFICES ASSUME VmmInv, NEW v \in DOMAIN tlb, ~ (v_pc = "unmap_inv" /\ v = v_call.page)
               PROVE  tlb[v] = Translate(v)
    BY DEF TlbCoherent
  <2>1. v \in Pages /\ tlb[v] \in Frames /\ Entry(v) = MakeEntry(tlb[v])
    BY DEF VmmInv, HardInv
  <2>2. Entry(v) # 0 /\ stage7a_paging_frame_addr(Entry(v)) = tlb[v]
    BY <2>1, MadeEntry
  <2> QED BY <2>1, <2>2, TranslateIs DEF VmmInv, SoftInv
<1> QED BY <1>1, PagingInvariant, PTL

(* A walk through a directory entry that the processor cached before       *)
(* unmap_page dropped it finds what the directory in memory leads to.      *)
THEOREM WalksAreNeverStale == VmmSpec => []NoStaleWalk
<1>1. VmmInv => NoStaleWalk
  <2> SUFFICES ASSUME VmmInv, NEW v \in Pages, NEW t \in TablesSeen(v), Present(Pte(t, v))
               PROVE  Translate(v) = stage7a_paging_frame_addr(Pte(t, v))
    BY DEF NoStaleWalk
  <2>1. Pte(t, v) = Entry(v) /\ Entry(v) \in Entries
    BY WalkTable
  <2>2. Entry(v) # 0
    BY <2>1, EntriesFacts
  <2> QED BY <2>1, <2>2, TranslateIs DEF VmmInv, SoftInv
<1> QED BY <1>1, PagingInvariant, PTL

(* So vmm.c needs no invlpg beyond the ones it has: neither the TLB nor a  *)
(* walk gives the processor a translation that unmap_page has removed.     *)
THEOREM TranslationsAreFresh == VmmSpec => []NoStaleTranslation
BY TlbStaysCoherent, WalksAreNeverStale, PTL DEF NoStaleTranslation

-----------------------------------------------------------------------------
(* The refinement of the mapping contract: the frame of an entry, and the  *)
(* mapping that callers see.                                               *)
Value(e) == IF e # 0 THEN stage7a_paging_frame_addr(e) ELSE NotMapped

Seen == [v \in {p \in Pages : Observed(p) # NotMapped} |-> Observed(v)]

(* Once the identity map is built, what callers see of a page is its       *)
(* entry, but for the page whose call has stored and not yet returned.     *)
ObservedView ==
    SoftInv /\ paging # "off" =>
        \A v \in Pages :
            Observed(v) =
                IF v = v_call.page /\ v_pc = "map_inv" THEN NotMapped
                ELSE IF v = v_call.page /\ v_pc \in {"unmap_inv", "unmap_pde"} THEN v_call.frame
                ELSE Value(Entry(v))

LEMMA ObservedIs == ObservedView
<1> SUFFICES ASSUME SoftInv, paging # "off", NEW v \in Pages
             PROVE  Observed(v) =
                        IF v = v_call.page /\ v_pc = "map_inv" THEN NotMapped
                        ELSE IF v = v_call.page /\ v_pc \in {"unmap_inv", "unmap_pde"} THEN v_call.frame
                        ELSE Value(Entry(v))
  BY DEF ObservedView
<1>1. Translate(v) = Value(Entry(v))
  BY TranslateIs DEF SoftInv, Value
<1> QED BY <1>1 DEF Observed

(* A frame is what its entry leads to.                                     *)
LEMMA ValueFacts ==
    /\ Value(0) = NotMapped
    /\ \A f \in Frames : Value(MakeEntry(f)) = f /\ f # NotMapped
    /\ \A e \in Entries : e # 0 => Value(e) # NotMapped
BY MadeEntry, EntriesFacts, FrameFacts DEF Value

(* The identity map that stage7b builds is what callers saw before.        *)
BuiltView ==
    SoftInv /\ paging = "built" =>
        \A v \in Pages : Value(Entry(v)) = IF in_active_identity(v) THEN v ELSE NotMapped

LEMMA BuiltMap == BuiltView
<1> SUFFICES ASSUME SoftInv, paging = "built", NEW v \in Pages
             PROVE  Value(Entry(v)) = IF in_active_identity(v) THEN v ELSE NotMapped
  BY DEF BuiltView
<1>1. /\ v \in Addr /\ is_page_aligned(v) /\ pdx(v) \in Index /\ ptx(v) \in Index
      /\ in_active_identity(v) <=> pdx(v) = 0
  BY PageFacts, PdIndex, WindowSlots
<1>2. CASE pdx(v) = 0
  <2>1. Entry(v) = MakeEntry(ptx(v) * PAGE_SIZE)
    BY <1>1, <1>2 DEF Entry, HasTab, Tab, SoftInv, IdentityOK
  <2>2. ptx(v) * PAGE_SIZE \in Frames
    BY <1>1 DEF Frames
  <2>3. v = ptx(v) * PAGE_SIZE
    BY <1>1, <1>2, IdentityPage
  <2> QED BY <1>1, <1>2, <2>1, <2>2, <2>3, ValueFacts
<1>3. CASE pdx(v) # 0
  <2>1. Entry(v) = 0
    BY <1>1, <1>3 DEF Entry, SoftInv, IdentityOK, DirectoryOK, Empty
  <2> QED BY <1>1, <1>3, <2>1, ValueFacts
<1> QED BY <1>2, <1>3

(* A step that changes neither what callers see nor the answer.            *)
LEMMA SameSeen ==
    ASSUME \A v \in Pages : Observed(v)' = Observed(v), answer' = answer
    PROVE  UNCHANGED <<Seen, answer>>
BY DEF Seen

(* Without a store in progress, callers see the entries; in the state      *)
(* after a step, too.                                                      *)
QuietView ==
    SoftInv /\ paging # "off" /\ v_pc \in {"idle", "map_clear", "map_pde", "map_pte", "unmap_pte"} =>
        \A v \in Pages : Observed(v) = Value(Entry(v))

LEMMA Views ==
    QuietView /\ QuietView' /\ ObservedView /\ ObservedView' /\ BuiltView'
<1>1. QuietView
  BY ObservedIs DEF ObservedView, QuietView
<1> QED BY <1>1, ObservedIs, BuiltMap, PTL

(* Before stage7b callers see the identity map.                            *)
LEMMA InitRefines == VmmInit => Contract!Init
<1> SUFFICES ASSUME VmmInit PROVE Contract!Init
  OBVIOUS
<1>1. \A v \in Pages : Observed(v) = IF in_active_identity(v) THEN v ELSE NotMapped
  BY DEF VmmInit, Observed
<1>2. \A v \in Pages : v # NotMapped
  BY PageFacts DEF NotMapped
<1>3. Seen = [v \in {p \in Pages : in_active_identity(p)} |-> v]
  BY <1>1, <1>2 DEF Seen
<1>4. answer = Contract!Answer("none", 0, 0)
  BY DEF VmmInit, Answer, Contract!Answer
<1> QED BY <1>3, <1>4 DEF Contract!Init, Seen

(* A refused map_page is a refused Map, an accepted one changes nothing    *)
(* that callers see until it returns.                                      *)
LEMMA MapCallRefines ==
    ASSUME VmmInv, NEW v \in VAddrs, NEW f \in PAddrs, MapCall(v, f)
    PROVE  Contract!Map(v, f) \/ UNCHANGED <<Seen, answer>>
<1>1. /\ VmmInv' /\ v_pc = "idle" /\ paging = "on" /\ paging' = "on"
      /\ \A w \in Pages : Entry(w)' = Entry(w)
      /\ \/ /\ v_pc' = "idle" /\ answer' = Answer("map", v, 0)
            /\ \/ ~ is_page_aligned(v) \/ ~ is_page_aligned(f) \/ ~ Reserved(v)
               \/ v \in Pages /\ Entry(v) # 0
         \/ UNCHANGED answer /\ v_pc' \in {"map_clear", "map_pte"}
  BY MapCallStep
<1>2. \A w \in Pages : Observed(w) = Value(Entry(w))
  BY <1>1, Views DEF VmmInv, QuietView
<1>3. \A w \in Pages : Observed(w)' = Value(Entry(w)')
  BY <1>1, Views DEF VmmInv, QuietView
<1>4. Seen' = Seen
  BY <1>1, <1>2, <1>3 DEF Seen
<1>5. CASE answer' = answer
  BY <1>4, <1>5
<1>6. CASE v_pc' = "idle" /\ answer' = Answer("map", v, 0)
  <2>1. v \in Pages /\ Entry(v) # 0 => Observed(v) # NotMapped
    BY <1>2, ValueFacts, TranslateIs DEF VmmInv, SoftInv
  <2>2. ~ Contract!CanMap(v, f)
    BY <1>1, <1>6, <2>1 DEF Contract!CanMap
  <2> QED BY <1>4, <1>6, <2>2 DEF Contract!Map, Answer, Contract!Answer, Seen
<1> QED BY <1>1, <1>5, <1>6

(* The same for unmap_page.                                                *)
LEMMA UnmapCallRefines ==
    ASSUME VmmInv, NEW v \in VAddrs, UnmapCall(v)
    PROVE  Contract!Unmap(v) \/ UNCHANGED <<Seen, answer>>
<1>1. /\ VmmInv' /\ v_pc = "idle" /\ paging = "on" /\ paging' = "on"
      /\ \A w \in Pages : Entry(w)' = Entry(w)
      /\ \/ /\ v_pc' = "idle" /\ answer' = Answer("unmap", v, 0)
            /\ \/ ~ is_page_aligned(v) \/ ~ Reserved(v)
               \/ v \in Pages /\ Entry(v) = 0
         \/ UNCHANGED answer /\ v_pc' = "unmap_pte"
  BY UnmapCallStep
<1>2. \A w \in Pages : Observed(w) = Value(Entry(w))
  BY <1>1, Views DEF VmmInv, QuietView
<1>3. \A w \in Pages : Observed(w)' = Value(Entry(w)')
  BY <1>1, Views DEF VmmInv, QuietView
<1>4. Seen' = Seen
  BY <1>1, <1>2, <1>3 DEF Seen
<1>5. CASE answer' = answer
  BY <1>4, <1>5
<1>6. CASE v_pc' = "idle" /\ answer' = Answer("unmap", v, 0)
  <2>1. v \in Pages /\ Entry(v) = 0 => Observed(v) = NotMapped
    BY <1>2, ValueFacts
  <2>2. v \in Pages => is_page_aligned(v)
    BY DEF Pages
  <2>3. ~ Contract!CanUnmap(v)
    BY <1>1, <1>6, <2>1, <2>2 DEF Contract!CanUnmap
  <2> QED BY <1>4, <1>6, <2>3 DEF Contract!Unmap, Answer, Contract!Answer, Seen
<1> QED BY <1>1, <1>5, <1>6

(* resolve_page_frame answers with the mapping.                            *)
LEMMA ResolveRefines ==
    ASSUME VmmInv, NEW v \in VAddrs, Resolve(v)
    PROVE  Contract!Resolve(v)
<1>1. /\ VmmInv' /\ v_pc = "idle" /\ paging = "on" /\ v_pc' = "idle" /\ paging' = "on"
      /\ answer' = Answer("resolve", v, Translate(v))
      /\ \A w \in Pages : Entry(w)' = Entry(w)
  BY ResolveStep
<1>2. \A w \in Pages : Observed(w) = Value(Entry(w)) /\ Observed(w)' = Value(Entry(w)')
  BY <1>1, Views DEF VmmInv, QuietView
<1>3. Seen' = Seen
  BY <1>1, <1>2 DEF Seen
<1>4. Translate(v) = IF v \in DOMAIN Seen THEN Seen[v] ELSE NotMapped
  <2>1. CASE v \in Pages
    <3>1. Translate(v) = Observed(v)
      BY <1>2, <2>1, TranslateIs DEF VmmInv, SoftInv, Value
    <3> QED BY <2>1, <3>1 DEF Seen
  <2>2. CASE v \notin Pages
    BY <2>2 DEF Pages, Translate, Seen
  <2> QED BY <2>1, <2>2
<1>5. Contract!NotMapped = NotMapped
  BY DEF Contract!NotMapped, NotMapped
<1> QED BY <1>1, <1>3, <1>4, <1>5 DEF Contract!Resolve, Answer, Contract!Answer, Seen

(* map_page takes effect when it returns.                                  *)
LEMMA MapInvalidateRefines ==
    ASSUME VmmInv, MapInvalidate
    PROVE  \E v \in VAddrs, f \in PAddrs : Contract!Map(v, f)
<1>1. /\ VmmInv' /\ v_pc = "map_inv" /\ v_pc' = "idle" /\ UNCHANGED paging
      /\ answer' = Answer("map", v_call.page, 1)
      /\ \A w \in Pages : Entry(w)' = Entry(w)
  BY MapInvalidateStep
<1>2. /\ paging = "on" /\ v_call.page \in Pages /\ HasSlot(v_call.page)
      /\ v_call.frame \in Frames /\ v_call.frame \in PAddrs
      /\ Entry(v_call.page) = MakeEntry(v_call.frame)
  BY <1>1, Running DEF VmmInv, SoftInv, CallOK
<1>3. PICK v \in VAddrs : v = v_call.page /\ v \in Pages /\ is_page_aligned(v) /\ Reserved(v)
  BY <1>2, PageFacts DEF HasSlot, Reserved
<1>4. PICK f \in PAddrs : f = v_call.frame /\ is_page_aligned(f)
  BY <1>2, FrameFacts
<1>5. \A w \in Pages : Observed(w) = IF w = v THEN NotMapped ELSE Value(Entry(w))
  BY <1>1, <1>2, <1>3, Views DEF VmmInv, ObservedView
<1>6. \A w \in Pages : Observed(w)' = Value(Entry(w)')
  BY <1>1, <1>2, Views DEF VmmInv, QuietView
<1>7. Observed(v)' = f /\ f # NotMapped
  BY <1>1, <1>2, <1>3, <1>4, <1>6, ValueFacts
<1>8. Contract!CanMap(v, f)
  BY <1>3, <1>4, <1>5 DEF Contract!CanMap
<1>9. Seen' = [p \in DOMAIN Seen \cup {v} |-> IF p = v THEN f ELSE Seen[p]]
  <2>1. DOMAIN Seen' = DOMAIN Seen \cup {v}
    BY <1>1, <1>3, <1>5, <1>6, <1>7 DEF Seen
  <2>2. \A p \in DOMAIN Seen' : Seen'[p] = IF p = v THEN f ELSE Seen[p]
    BY <1>1, <1>3, <1>5, <1>6, <1>7 DEF Seen
  <2> QED BY <2>1, <2>2 DEF Seen
<1>10. Contract!Map(v, f)
  BY <1>1, <1>3, <1>8, <1>9 DEF Contract!Map, Answer, Contract!Answer, Seen
<1> QED BY <1>10

(* So does unmap_page.                                                     *)
LEMMA UnmapDropRefines ==
    ASSUME VmmInv, UnmapDropTable
    PROVE  \E v \in VAddrs : Contract!Unmap(v)
<1>1. /\ VmmInv' /\ v_pc = "unmap_pde" /\ v_pc' = "idle" /\ UNCHANGED paging
      /\ answer' = Answer("unmap", v_call.page, 1)
      /\ \A w \in Pages : Entry(w)' = Entry(w)
  BY UnmapDropStep
<1>2. /\ paging = "on" /\ v_call.page \in Pages /\ HasSlot(v_call.page)
      /\ v_call.frame \in Frames /\ Entry(v_call.page) = 0
  BY <1>1, Running DEF VmmInv, SoftInv, CallOK
<1>3. PICK v \in VAddrs : v = v_call.page /\ v \in Pages /\ Reserved(v)
  BY <1>2, PageFacts DEF HasSlot, Reserved
<1>4. \A w \in Pages : Observed(w) = IF w = v THEN v_call.frame ELSE Value(Entry(w))
  BY <1>1, <1>2, <1>3, Views DEF VmmInv, ObservedView
<1>5. \A w \in Pages : Observed(w)' = Value(Entry(w)')
  BY <1>1, <1>2, Views DEF VmmInv, QuietView
<1>6. Observed(v)' = NotMapped /\ Observed(v) # NotMapped
  BY <1>1, <1>2, <1>3, <1>4, <1>5, ValueFacts
<1>7. Contract!CanUnmap(v)
  BY <1>3, <1>6 DEF Contract!CanUnmap
<1>8. Seen' = [p \in DOMAIN Seen \ {v} |-> Seen[p]]
  <2>1. DOMAIN Seen' = DOMAIN Seen \ {v}
    BY <1>1, <1>3, <1>4, <1>5, <1>6 DEF Seen
  <2>2. \A p \in DOMAIN Seen' : Seen'[p] = Seen[p]
    BY <1>1, <1>3, <1>4, <1>5, <1>6 DEF Seen
  <2> QED BY <2>1, <2>2 DEF Seen
<1>9. Contract!Unmap(v)
  BY <1>1, <1>3, <1>7, <1>8 DEF Contract!Unmap, Answer, Contract!Answer, Seen
<1> QED BY <1>9

(* The stores in the middle of a call, the start of paging and the         *)
(* processor's steps change nothing that callers see.                      *)
LEMMA SilentSteps ==
    ASSUME VmmInv,
           \/ stage7b_setup_early_identity_paging \/ stage7c_activate
           \/ MapClearTable \/ MapInstallTable \/ MapWriteEntry
           \/ UnmapClearEntry \/ UnmapInvalidate
           \/ Hardware \/ UNCHANGED vmm_vars
    PROVE  UNCHANGED <<Seen, answer>>
<1>1. CASE stage7b_setup_early_identity_paging
  <2>1. VmmInv' /\ v_pc = "idle" /\ v_pc' = "idle" /\ paging = "off" /\ paging' = "built" /\ answer' = answer
    BY <1>1, SetupStep
  <2>2. \A v \in Pages : Observed(v) = IF in_active_identity(v) THEN v ELSE NotMapped
    BY <2>1 DEF Observed
  <2>3. \A v \in Pages : Observed(v)' = Value(Entry(v)')
    BY <2>1, Views DEF VmmInv, QuietView
  <2>4. \A v \in Pages : Value(Entry(v)') = IF in_active_identity(v) THEN v ELSE NotMapped
    BY <2>1, Views DEF VmmInv, BuiltView, Value
  <2> QED BY <2>1, <2>2, <2>3, <2>4, SameSeen
<1>2. CASE stage7c_activate
  <2>1. /\ VmmInv' /\ v_pc = "idle" /\ v_pc' = "idle" /\ paging = "built" /\ paging' = "on"
        /\ UNCHANGED <<answer, pts>>
    BY <1>2, ActivateStep
  <2>2. \A v \in Pages : Entry(v)' = Entry(v)
    BY <2>1 DEF Entry
  <2>3. \A v \in Pages : Observed(v) = Value(Entry(v)) /\ Observed(v)' = Value(Entry(v)')
    BY <2>1, Views DEF VmmInv, QuietView
  <2> QED BY <2>1, <2>2, <2>3, SameSeen
<1>3. CASE MapClearTable \/ MapInstallTable
  <2>1. /\ VmmInv' /\ {v_pc, v_pc'} \subseteq {"map_clear", "map_pde", "map_pte"} /\ v_pc # "idle"
        /\ UNCHANGED <<paging, answer>> /\ \A v \in Pages : Entry(v)' = Entry(v)
    BY <1>3, MapClearStep, MapInstallStep
  <2>2. paging # "off"
    BY <2>1, Running DEF VmmInv
  <2>3. \A v \in Pages : Observed(v) = Value(Entry(v)) /\ Observed(v)' = Value(Entry(v)')
    BY <2>1, <2>2, Views DEF VmmInv, QuietView
  <2> QED BY <2>1, <2>3, SameSeen
<1>4. CASE MapWriteEntry
  <2>1. /\ VmmInv' /\ v_pc = "map_pte" /\ v_pc' = "map_inv" /\ UNCHANGED <<paging, v_call, answer>>
        /\ \A w \in Pages : w # v_call.page => Entry(w)' = Entry(w)
        /\ Entry(v_call.page) = 0
    BY <1>4, MapWriteStep
  <2>2. paging # "off"
    BY <2>1, Running DEF VmmInv
  <2>3. \A v \in Pages : Observed(v) = Value(Entry(v))
    BY <2>1, <2>2, Views DEF VmmInv, QuietView
  <2>4. \A v \in Pages : Observed(v)' = IF v = v_call.page THEN NotMapped ELSE Value(Entry(v)')
    BY <2>1, <2>2, Views DEF VmmInv, ObservedView
  <2> QED BY <2>1, <2>3, <2>4, ValueFacts, SameSeen
<1>5. CASE UnmapClearEntry
  <2>1. /\ VmmInv' /\ v_pc = "unmap_pte" /\ v_pc' = "unmap_inv" /\ UNCHANGED <<paging, v_call, answer>>
        /\ \A w \in Pages : w # v_call.page => Entry(w)' = Entry(w)
        /\ Entry(v_call.page) = MakeEntry(v_call.frame)
    BY <1>5, UnmapClearStep
  <2>2. paging # "off" /\ v_call.frame \in Frames
    BY <2>1, Running DEF VmmInv
  <2>3. \A v \in Pages : Observed(v) = Value(Entry(v))
    BY <2>1, <2>2, Views DEF VmmInv, QuietView
  <2>4. \A v \in Pages : Observed(v)' = IF v = v_call.page THEN v_call.frame ELSE Value(Entry(v)')
    BY <2>1, <2>2, Views DEF VmmInv, ObservedView
  <2> QED BY <2>1, <2>2, <2>3, <2>4, ValueFacts, SameSeen
<1>6. CASE UnmapInvalidate
  <2>1. /\ VmmInv' /\ v_pc = "unmap_inv" /\ v_pc' = "unmap_pde" /\ UNCHANGED <<paging, v_call, answer>>
        /\ \A w \in Pages : Entry(w)' = Entry(w)
    BY <1>6, UnmapInvalidateStep
  <2>2. paging # "off"
    BY <2>1, Running DEF VmmInv
  <2>3. \A v \in Pages : Observed(v) = IF v = v_call.page THEN v_call.frame ELSE Value(Entry(v))
    BY <2>1, <2>2, Views DEF VmmInv, ObservedView
  <2>4. \A v \in Pages : Observed(v)' = IF v = v_call.page THEN v_call.frame ELSE Value(Entry(v)')
    BY <2>1, <2>2, Views DEF VmmInv, ObservedView
  <2> QED BY <2>1, <2>3, <2>4, SameSeen
<1>7. CASE Hardware \/ UNCHANGED vmm_vars
  <2>1. UNCHANGED software
    BY <1>7, HardwareStep, StutterStep
  <2>2. \A v \in Pages : Observed(v)' = Observed(v)
    BY <2>1 DEF software, Observed, Translate, Pde, Pte
  <2> QED BY <2>1, <2>2, SameSeen DEF software
<1> QED BY <1>1, <1>2, <1>3, <1>4, <1>5, <1>6, <1>7

(* Every step of the tables is a step of the contract or none.             *)
LEMMA StepRefines == VmmInv /\ [VmmNext]_vmm_vars => [Contract!Next]_<<Seen, answer>>
<1> SUFFICES ASSUME VmmInv, [VmmNext]_vmm_vars PROVE Contract!Next \/ UNCHANGED <<Seen, answer>>
  OBVIOUS
<1>1. ASSUME NEW v \in VAddrs, NEW f \in PAddrs, MapCall(v, f)
      PROVE  Contract!Next \/ UNCHANGED <<Seen, answer>>
  BY <1>1, MapCallRefines DEF Contract!Next
<1>2. ASSUME NEW v \in VAddrs, UnmapCall(v)
      PROVE  Contract!Next \/ UNCHANGED <<Seen, answer>>
  BY <1>2, UnmapCallRefines DEF Contract!Next
<1>3. ASSUME NEW v \in VAddrs, Resolve(v) PROVE Contract!Next
  BY <1>3, ResolveRefines DEF Contract!Next
<1>4. CASE MapInvalidate
  BY <1>4, MapInvalidateRefines DEF Contract!Next
<1>5. CASE UnmapDropTable
  BY <1>5, UnmapDropRefines DEF Contract!Next
<1>6. CASE \/ stage7b_setup_early_identity_paging \/ stage7c_activate
           \/ MapClearTable \/ MapInstallTable \/ MapWriteEntry
           \/ UnmapClearEntry \/ UnmapInvalidate \/ Hardware \/ UNCHANGED vmm_vars
  BY <1>6, SilentSteps
<1> QED BY <1>1, <1>2, <1>3, <1>4, <1>5, <1>6 DEF VmmNext, Software, CallStep

(* vmm.c implements the mapping contract for every layout: map, unmap and  *)
(* resolve answer as a partial function from pages to frames would, and a  *)
(* call changes the translation of its own page only.                      *)
THEOREM PagingMeetsContract == VmmSpec => ImplementsPageMap
<1>1. VmmInv /\ [VmmNext]_vmm_vars => [Contract!Next]_<<Seen, answer>>
  BY StepRefines
<1> QED BY <1>1, InitRefines, PagingInvariant, PTL DEF VmmSpec, ImplementsPageMap, Contract!Spec, Seen
=============================================================================
