-------------------------------- MODULE Vmm --------------------------------
(***************************************************************************)
(* The single-page mapping interface of kernel/mm/vmm.c over the boot page *)
(* directory of kernel/mm/paging.c, next to the processor that walks the   *)
(* same tables.                                                            *)
(*                                                                         *)
(* Every store to a table and every invlpg is a step of its own, because   *)
(* between any two of them the processor may translate any address,        *)
(* speculatively too: it fills its TLB, and its cache of directory         *)
(* entries, from the tables as they are at that moment.  invlpg drops the  *)
(* page from the TLB and the whole cache of directory entries.             *)
(***************************************************************************)
EXTENDS PagingLayout

CONSTANTS
    IDENTITY_TABLE,   \* &g_stage7b_early_identity_page_table
    MUTABLE_TABLES,   \* slot -> &g_stage8b_mutable_reserved_page_tables[slot]
    VAddrs, PAddrs    \* the addresses that callers pass

ASSUME VmmAssumption ==
    /\ MUTABLE_TABLES \in [0 .. TABLE_COUNT - 1 -> Nat] /\ IDENTITY_TABLE \in Nat
    /\ VAddrs \subseteq Nat /\ PAddrs \subseteq Nat
    /\ \A v \in VAddrs : v \div TABLE_SPAN < ENTRIES
    /\ is_page_aligned(IDENTITY_TABLE)
    /\ \A s, t \in DOMAIN MUTABLE_TABLES :
            /\ is_page_aligned(MUTABLE_TABLES[s])
            /\ MUTABLE_TABLES[s] # IDENTITY_TABLE
            /\ MUTABLE_TABLES[s] = MUTABLE_TABLES[t] => s = t

VARIABLES
    paging,    \* "off", "built" (Stage 7B done) or "on" (Stage 7C done)
    pd,        \* g_stage7b_early_page_directory.entries
    pts,       \* the page tables, by address
    v_pc,      \* the next store of the running call, or "idle"
    v_call,    \* its arguments
    answer,    \* what the last completed call returned
    tlb,       \* processor: page -> frame
    pde_cache  \* processor: directory index -> page table address

software == <<paging, pd, pts, v_pc, v_call, answer>>
hardware == <<tlb, pde_cache>>
vmm_vars == <<software, hardware>>

Index == 0 .. ENTRIES - 1
Empty == [i \in Index |-> 0]
Nothing == [i \in {} |-> 0]
MAPPING_FLAGS == FLAG_PRESENT + FLAG_WRITABLE
Tables == {IDENTITY_TABLE} \cup {MUTABLE_TABLES[s] : s \in DOMAIN MUTABLE_TABLES}
NotMapped == -1

Answer(op, v, value) == [op |-> op, page |-> v, value |-> value]

NoCall == [op |-> "none", page |-> 0, frame |-> 0]

VmmInit ==
    /\ paging = "off"
    /\ pd = Empty /\ pts = [t \in Tables |-> Empty]
    /\ v_pc = "idle" /\ v_call = NoCall /\ answer = Answer("none", 0, 0)
    /\ tlb = Nothing /\ pde_cache = Nothing

(* stage7b_setup_early_identity_paging.                                    *)
stage7b_setup_early_identity_paging ==
    /\ paging = "off"
    /\ paging' = "built"
    /\ pd' = [Empty EXCEPT
                ![0] = stage7a_paging_make_entry(IDENTITY_TABLE, MAPPING_FLAGS)]
    /\ pts' = [pts EXCEPT ![IDENTITY_TABLE] =
                [i \in Index |->
                    stage7a_paging_make_entry(i * PAGE_SIZE, MAPPING_FLAGS)]]
    /\ UNCHANGED <<v_pc, v_call, answer, hardware>>

(* Stage 7C: CR3 is loaded, which empties the processor's caches, and      *)
(* CR0.PG is set.                                                          *)
stage7c_activate ==
    /\ paging = "built"
    /\ paging' = "on"
    /\ tlb' = Nothing /\ pde_cache' = Nothing
    /\ UNCHANGED <<pd, pts, v_pc, v_call, answer>>

-----------------------------------------------------------------------------
(* Faulty variant: the pages of both windows share a table.                *)
SharedTableSlot(v) == 0

(* stage8b_vmm_get_reserved_mapping_slot.                                  *)
TableSlot(v) == stage7a_paging_pd_index(v) - stage7a_paging_pd_index(HEAP_START)

HasSlot(v) ==
    /\ in_heap_reserved(v) \/ in_mapping_reserved(v)
    /\ TableSlot(v) \in 0 .. TABLE_COUNT - 1

ExpectedTable(v) == MUTABLE_TABLES[TableSlot(v)]

Pde(v) == pd[stage7a_paging_pd_index(v)]

Pte(t, v) == pts[t][stage7a_paging_pt_index(v)]

PdeIsForeign(v) ==
    Present(Pde(v)) /\ stage7a_paging_frame_addr(Pde(v)) # ExpectedTable(v)

SetPde(v, entry) == pd' = [pd EXCEPT ![stage7a_paging_pd_index(v)] = entry]

SetPte(v, entry) ==
    pts' = [pts EXCEPT ![ExpectedTable(v)][stage7a_paging_pt_index(v)] = entry]

invlpg(v) ==
    /\ tlb' = [p \in DOMAIN tlb \ {v} |-> tlb[p]]
    /\ pde_cache' = Nothing

Goto(l) == v_pc' = l /\ UNCHANGED <<v_call, answer>>

Return(value) ==
    /\ v_pc' = "idle" /\ v_call' = NoCall
    /\ answer' = Answer(v_call.op, v_call.page, value)

(* stage8b_vmm_map_page up to its first store.                             *)
MapCall(v, f) ==
    /\ paging = "on" /\ v_pc = "idle"
    /\ IF \/ ~ is_page_aligned(v) \/ ~ is_page_aligned(f)
          \/ ~ HasSlot(v)
          \/ PdeIsForeign(v)
          \/ Present(Pde(v)) /\ Present(Pte(ExpectedTable(v), v))
        THEN answer' = Answer("map", v, 0) /\ UNCHANGED <<v_pc, v_call>>
        ELSE /\ v_pc' = IF Present(Pde(v)) THEN "map_pte" ELSE "map_clear"
             /\ v_call' = [op |-> "map", page |-> v, frame |-> f]
             /\ UNCHANGED answer
    /\ UNCHANGED <<paging, pd, pts, hardware>>

(* stage8b_vmm_clear_page_table on the table about to be installed.        *)
MapClearTable ==
    /\ v_pc = "map_clear"
    /\ pts' = [pts EXCEPT ![ExpectedTable(v_call.page)] = Empty]
    /\ Goto("map_pde")
    /\ UNCHANGED <<paging, pd, hardware>>

MapInstallTable ==
    /\ v_pc = "map_pde"
    /\ SetPde(v_call.page,
              stage7a_paging_make_entry(ExpectedTable(v_call.page), MAPPING_FLAGS))
    /\ Goto("map_pte")
    /\ UNCHANGED <<paging, pts, hardware>>

MapWriteEntry ==
    /\ v_pc = "map_pte"
    /\ SetPte(v_call.page, stage7a_paging_make_entry(v_call.frame, MAPPING_FLAGS))
    /\ Goto("map_inv")
    /\ UNCHANGED <<paging, pd, hardware>>

MapInvalidate ==
    /\ v_pc = "map_inv"
    /\ invlpg(v_call.page)
    /\ Return(1)
    /\ UNCHANGED <<paging, pd, pts>>

(* stage8b_vmm_unmap_page up to its first store.                           *)
UnmapCall(v) ==
    /\ paging = "on" /\ v_pc = "idle"
    /\ IF \/ ~ is_page_aligned(v)
          \/ ~ HasSlot(v)
          \/ ~ Present(Pde(v))
          \/ PdeIsForeign(v)
          \/ ~ Present(Pte(ExpectedTable(v), v))
        THEN answer' = Answer("unmap", v, 0) /\ UNCHANGED <<v_pc, v_call>>
        ELSE /\ v_pc' = "unmap_pte"
             /\ v_call' = [op |-> "unmap", page |-> v,
                         frame |-> stage7a_paging_frame_addr(
                                        Pte(ExpectedTable(v), v))]
             /\ UNCHANGED answer
    /\ UNCHANGED <<paging, pd, pts, hardware>>

UnmapClearEntry ==
    /\ v_pc = "unmap_pte"
    /\ SetPte(v_call.page, 0)
    /\ Goto("unmap_inv")
    /\ UNCHANGED <<paging, pd, hardware>>

(* Faulty variant: no invlpg.                                              *)
UnmapWithoutInvalidate ==
    /\ v_pc = "unmap_inv"
    /\ Goto("unmap_pde")
    /\ UNCHANGED <<paging, pd, pts, hardware>>

UnmapInvalidate ==
    /\ v_pc = "unmap_inv"
    /\ invlpg(v_call.page)
    /\ Goto("unmap_pde")
    /\ UNCHANGED <<paging, pd, pts>>

(* stage8b_vmm_table_is_empty, and the directory entry dropped if so.      *)
TableIsEmpty(t) == \A i \in Index : ~ Present(pts[t][i])

(* Faulty variant: the table is never dropped.                             *)
UnmapDropNever ==
    /\ v_pc = "unmap_pde"
    /\ Return(1)
    /\ UNCHANGED <<paging, pd, pts, hardware>>

UnmapDropTable ==
    /\ v_pc = "unmap_pde"
    /\ IF TableIsEmpty(ExpectedTable(v_call.page))
        THEN SetPde(v_call.page, 0)
        ELSE UNCHANGED pd
    /\ Return(1)
    /\ UNCHANGED <<paging, pts, hardware>>

(* stage8b_vmm_resolve_page_frame (and is_page_mapped, its yes/no form):   *)
(* a walk by software from the directory, for any aligned address.         *)
Translate(v) ==
    IF /\ is_page_aligned(v)
       /\ Present(Pde(v))
       /\ Present(Pte(stage7a_paging_frame_addr(Pde(v)), v))
        THEN stage7a_paging_frame_addr(Pte(stage7a_paging_frame_addr(Pde(v)), v))
        ELSE NotMapped

Resolve(v) ==
    /\ paging = "on" /\ v_pc = "idle"
    /\ answer' = Answer("resolve", v, Translate(v))
    /\ UNCHANGED <<paging, pd, pts, v_pc, v_call, hardware>>

-----------------------------------------------------------------------------
(* The processor (external): at any time it may cache a present directory  *)
(* entry, fill the TLB through a cached or a present directory entry, or   *)
(* evict.                                                                  *)
Pages == {v \in VAddrs : is_page_aligned(v)}

TablesSeen(v) ==
    LET i == stage7a_paging_pd_index(v)
    IN  (IF Present(pd[i]) THEN {stage7a_paging_frame_addr(pd[i])} ELSE {})
        \cup (IF i \in DOMAIN pde_cache THEN {pde_cache[i]} ELSE {})

CachePde(v) ==
    LET i == stage7a_paging_pd_index(v)
    IN  /\ paging = "on" /\ i \notin DOMAIN pde_cache
        /\ Present(pd[i])
        /\ pde_cache' = [j \in DOMAIN pde_cache \cup {i} |->
                            IF j = i THEN stage7a_paging_frame_addr(pd[i])
                                     ELSE pde_cache[j]]
        /\ UNCHANGED <<software, tlb>>

FillTlb(v) ==
    /\ paging = "on" /\ v \notin DOMAIN tlb
    /\ \E t \in TablesSeen(v) :
            /\ Present(Pte(t, v))
            /\ tlb' = [p \in DOMAIN tlb \cup {v} |->
                        IF p = v THEN stage7a_paging_frame_addr(Pte(t, v))
                                 ELSE tlb[p]]
    /\ UNCHANGED <<software, pde_cache>>

Evict(v) ==
    /\ v \in DOMAIN tlb
    /\ tlb' = [p \in DOMAIN tlb \ {v} |-> tlb[p]]
    /\ UNCHANGED <<software, pde_cache>>

-----------------------------------------------------------------------------
CallStep ==
    \/ MapClearTable \/ MapInstallTable \/ MapWriteEntry \/ MapInvalidate
    \/ UnmapClearEntry \/ UnmapInvalidate \/ UnmapDropTable

Software ==
    \/ stage7b_setup_early_identity_paging
    \/ stage7c_activate
    \/ \E v \in VAddrs, f \in PAddrs : MapCall(v, f)
    \/ \E v \in VAddrs : UnmapCall(v) \/ Resolve(v)
    \/ CallStep

Hardware == \E v \in Pages : CachePde(v) \/ FillTlb(v) \/ Evict(v)

VmmNext == Software \/ Hardware

VmmSpec == VmmInit /\ [][VmmNext]_vmm_vars

-----------------------------------------------------------------------------
Frames == {f \in PAddrs : is_page_aligned(f)}
            \cup {i * PAGE_SIZE : i \in Index} \cup Tables
Entries == {0} \cup {stage7a_paging_make_entry(f, MAPPING_FLAGS) : f \in Frames}

(* The kernel's tables hold only zero entries and present, writable        *)
(* entries of page-aligned frames; the processor's caches hold frames.     *)
VmmTypeOK ==
    /\ paging \in {"off", "built", "on"}
    /\ pd \in [Index -> Entries]
    /\ pts \in [Tables -> [Index -> Entries]]
    /\ v_pc \in {"idle", "map_clear", "map_pde", "map_pte", "map_inv",
               "unmap_pte", "unmap_inv", "unmap_pde"}
    /\ v_call.page \in Pages \cup {0} /\ v_call.frame \in Frames \cup {0}
    /\ v_pc = "idle" <=> v_call = NoCall
    /\ DOMAIN tlb \subseteq Pages /\ \A v \in DOMAIN tlb : tlb[v] \in Frames
    /\ DOMAIN pde_cache \subseteq Index

(* The processor's TLB never disagrees with the tables, except on the page *)
(* that is being unmapped, between the store of its empty entry and the    *)
(* invlpg (stage8b_vmm_unmap_page): after map_page or unmap_page returned, *)
(* no access uses a translation that the kernel has removed or replaced.   *)
TlbCoherent ==
    \A v \in DOMAIN tlb :
        tlb[v] = Translate(v) \/ (v_pc = "unmap_inv" /\ v = v_call.page)

(* No page walk, not even one through a directory entry that the processor *)
(* cached before unmap_page dropped it, finds a present entry that the     *)
(* directory in memory does not lead to.                                   *)
NoStaleWalk ==
    \A v \in Pages : \A t \in TablesSeen(v) :
        Present(Pte(t, v)) =>
            Translate(v) = stage7a_paging_frame_addr(Pte(t, v))

(* Whatever the processor does next to the stores of vmm.c, it uses no     *)
(* translation that they removed: none in its TLB, none on a page walk.    *)
NoStaleTranslation == TlbCoherent /\ NoStaleWalk

(* Between calls, a directory entry of the reserved windows is present     *)
(* exactly when its table maps some page: unmap_page drops a table with    *)
(* its last page and never earlier, so a later map_page, which clears the  *)
(* table before installing it, wipes no mapping.                           *)
TableInstalledIffUsed ==
    v_pc = "idle" =>
        \A s \in DOMAIN MUTABLE_TABLES :
            LET pde == pd[stage7a_paging_pd_index(HEAP_START) + s]
            IN  Present(pde) <=> ~ TableIsEmpty(MUTABLE_TABLES[s])

(* What vmm.c relies on when it reuses a table: the entries are well       *)
(* formed and the directory leads to exactly the tables in use.            *)
TablesIntact == VmmTypeOK /\ TableInstalledIffUsed

(* What a caller of the interface sees of the tables: a call takes effect  *)
(* when it returns.                                                        *)
Observed(v) ==
    CASE paging = "off" -> IF in_active_identity(v) THEN v ELSE NotMapped
      [] v_pc = "map_inv" /\ v = v_call.page -> NotMapped
      [] v_pc \in {"unmap_inv", "unmap_pde"} /\ v = v_call.page -> v_call.frame
      [] OTHER -> Translate(v)

Reserved(v) == in_heap_reserved(v) \/ in_mapping_reserved(v)

Contract == INSTANCE PageMap WITH
    Page <- is_page_aligned,
    Window <- Reserved,
    IdentityPages <- {v \in Pages : in_active_identity(v)},
    mapping <- [v \in {p \in Pages : Observed(p) # NotMapped} |-> Observed(v)],
    answer <- answer

(* The table manipulation of vmm.c implements the mapping contract: map,   *)
(* unmap and resolve answer as a partial function from pages to frames     *)
(* would, a call changes the translation of its own page only, and the     *)
(* identity pages keep theirs.                                             *)
ImplementsPageMap == Contract!Spec
=============================================================================
