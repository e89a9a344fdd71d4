--------------------------- MODULE BootSequence ---------------------------
(***************************************************************************)
(* stage0_main from the frame bookkeeping of Stage 5C to the enabling of   *)
(* interrupts: it runs the self-checks in order, all on the same frame     *)
(* allocator, page tables, heap and objects, so each stage meets what the  *)
(* earlier ones left behind.  A stage whose verdict is bad panics, except  *)
(* the four that only print it.  Interrupts are off throughout, so one     *)
(* call runs at a time; its steps are those of the component's module.     *)
(***************************************************************************)
EXTENDS SelfChecks, TLC

VARIABLES
    live, mem, list, k_pc, k_arg, k_cursor, k_prev, k_result,  \* KObject
    bytes, before, m_call, m_i, m_pc, m_result,                \* KMemory
    reuse_test,  \* the build sets STAGE6D_FORCE_REUSE_TEST
    stage,       \* position in the order of the stages
    busy,        \* the call that is running, or Do("none")
    failed,      \* the stages that reported FAIL
    outcome      \* "booting", "panic" or "up"

object_vars == <<live, mem, list, k_pc, k_arg, k_cursor, k_prev, k_result>>
byte_vars == <<bytes, before, m_call, m_i, m_pc, m_result>>
boot_vars == <<reuse_test, stage, res, busy, failed, outcome>>
all_vars == <<stack_vars, object_vars, byte_vars, boot_vars>>

K == INSTANCE KObject WITH
        Nodes <- HEAP_START .. HEAP_END - 1, Ids <- 1 .. UINT32_MAX, Null <- 0,
        CallersReappend <- FALSE, pc <- k_pc, arg <- k_arg,
        cursor <- k_cursor, prev <- k_prev, result <- k_result

M == INSTANCE KMemory WITH
        MEMORY_SIZE <- BUFFERS_SIZE, BYTE_COUNT <- 256, Values <- 0 .. 255,
        call <- m_call, i <- m_i, pc <- m_pc, result <- m_result

NODE_SIZE == 12   \* sizeof(struct kobject_node)

(* The order of stage0_main.                                               *)
Stages ==
    <<"5D", "7A", "7B", "7C", "7D", "8A", "8B", "8C", "8D", "9A", "9B", "9C",
      "9D", "10A", "10B", "10C", "10D", "10E", "11A", "11B", "11C", "11D", "11E">>
    \o (IF reuse_test THEN <<"6D">> ELSE <<>>)

OnlyPrints == {"5D", "7A", "7B", "6D"}

Calls ==
    LET s == Stages[stage]
    IN  CASE s = "5D" -> stage5d_calls    [] s = "6D" -> stage6d_calls
          [] s = "7B" -> stage7b_calls    [] s = "7C" -> stage7c_calls
          [] s = "8B" -> stage8b_calls
          [] s = "8C" -> stage8c_calls    [] s = "8D" -> stage8d_calls
          [] s = "9A" -> stage9a_calls    [] s = "9B" -> stage9b_calls
          [] s = "9C" -> stage9c_calls    [] s = "9D" -> stage9d_calls
          [] s = "10A" -> stage10a_calls  [] s = "10B" -> stage10b_calls
          [] s = "10C" -> stage10c_calls  [] s = "10D" -> stage10d_calls
          [] s = "10E" -> stage10e_calls  [] s = "11A" -> stage11a_calls
          [] s = "11B" -> stage11b_calls  [] s = "11C" -> stage11c_calls
          [] s = "11D" -> stage11d_calls  [] s = "11E" -> stage11e_calls
          [] OTHER -> <<>>

Passed ==
    LET s == Stages[stage]
    IN  CASE s = "5D" -> TRUE              [] s = "6D" -> stage6d_passed
          [] s = "7A" -> stage7a_passed    [] s = "7B" -> stage7b_passed
          [] s = "7C" -> stage7c_passed    [] s = "7D" -> stage7d_passed
          [] s = "8A" -> stage8a_passed    [] s = "8B" -> stage8b_passed
          [] s = "8C" -> stage8c_passed    [] s = "8D" -> stage8d_passed
          [] s = "9A" -> stage9a_passed    [] s = "9B" -> stage9b_passed
          [] s = "9C" -> stage9c_passed    [] s = "9D" -> stage9d_passed
          [] s = "10A" -> stage10a_passed  [] s = "10B" -> stage10b_passed
          [] s = "10C" -> stage10c_passed  [] s = "10D" -> stage10d_passed
          [] s = "10E" -> stage10e_passed  [] s = "11A" -> stage11a_passed
          [] s = "11B" -> stage11b_passed  [] s = "11C" -> stage11c_passed
          [] s = "11D" -> stage11d_passed  [] s = "11E" -> stage11e_passed

(* Nodes are written before they are read, and so are the buffers, whose   *)
(* stack memory holds anything at first.                                   *)
BootInit ==
    /\ StackInit
    /\ live = {} /\ mem = <<>> /\ list = K!EmptyList
    /\ k_pc = "idle" /\ k_arg = 0 /\ k_cursor = 0 /\ k_prev = 0
    /\ k_result = K!Answer("none", 0, 0, 0)
    /\ bytes = [a \in 0 .. BUFFERS_SIZE - 1 |-> 204] /\ before = bytes
    /\ m_call = M!Call("none", 0, 0, 0, 0) /\ m_i = 0 /\ m_pc = "idle" /\ m_result = 0
    /\ reuse_test \in BOOLEAN
    /\ stage = 1 /\ res = <<>> /\ busy = Do("none")
    /\ failed = {} /\ outcome = "booting"

-----------------------------------------------------------------------------
(* Calls that are one step, with the result the caller sees.               *)
FrameCall(c) ==
    /\ CASE c.op = "seed" -> SeedFrames
         [] c.op = "frame" -> TakeFrame
         [] c.op = "give" -> GiveFrame(c.args[1])
         [] c.op = "next_frame" ->
                /\ pmm' \in stage6a_pmm_advance_to_next_eligible(pmm)
                /\ UNCHANGED <<frames, pending, held, last_alloc>>
                /\ UNCHANGED <<vmm_vars, heap_vars, growing, owned>>
    /\ res' = Append(res,
        CASE c.op = "seed" -> 0
          [] c.op = "frame" ->
                IF last_alloc' = NoFrame THEN 0 ELSE Address(last_alloc')
          [] c.op = "give" -> IF pending' = pending THEN 0 ELSE 1
          [] c.op = "next_frame" ->
                IF /\ pmm'.range_index < RangeCount
                   /\ pmm'.next_frame_index <= MAX_FRAME
                    THEN Address(pmm'.next_frame_index) ELSE 0)
    /\ UNCHANGED <<object_vars, byte_vars>>

SetupCall(c) ==
    /\ CASE c.op = "setup_paging" -> SetupPaging
         [] c.op = "activate_paging" -> ActivatePaging
         [] c.op = "init_heap" -> InitHeap
    /\ res' = Append(res, 1)
    /\ UNCHANGED <<object_vars, byte_vars>>

ListCall(c) ==
    /\ CASE c.op = "init_list" -> K!kobject_list_init
         [] c.op = "append" -> K!kobject_list_append(c.args[1])
         [] c.op = "count" -> K!kobject_list_count
    /\ res' = Append(res, IF c.op = "init_list" THEN 0 ELSE k_result'.value)
    /\ UNCHANGED <<stack_vars, byte_vars>>

Flipped(b) == IF b % 2 = 0 THEN b + 1 ELSE b - 1

StoreCall(c) ==
    /\ bytes' = IF c.op = "store" THEN c.args[1] @@ bytes
                ELSE [bytes EXCEPT ![c.args[1]] = Flipped(@)]
    /\ res' = Append(res, 0)
    /\ UNCHANGED <<stack_vars, object_vars, before, m_call, m_i, m_pc, m_result>>

ReadCall(c) ==
    /\ res' = Append(res,
        CASE c.op = "state" -> kheap
          [] c.op = "look" -> [list |-> list, nodes |-> [n \in live |-> mem[n]]]
          [] c.op = "bytes" -> bytes
          [] c.op = "pending" -> Len(pending)
          [] c.op = "resolve" -> Translate(c.args[1])
          [] c.op = "skip" -> 0)
    /\ UNCHANGED <<stack_vars, object_vars, byte_vars>>

(* Calls that take several steps: they begin here ...                      *)
BeginCall(c) ==
    /\ IF c.op \in {"alloc", "free", "create", "destroy", "map", "unmap"}
        THEN /\ CASE c.op = "alloc" -> Kmalloc(c.args[1])
                  [] c.op = "create" -> Kmalloc(NODE_SIZE)
                  [] c.op \in {"free", "destroy"} -> Kfree(c.args[1])
                  [] c.op = "map" -> MapPage(c.args[1], c.args[2])
                  [] c.op = "unmap" -> UnmapPage(c.args[1])
             /\ UNCHANGED <<object_vars, byte_vars>>
        ELSE IF c.op \in {"find", "remove"}
        THEN K!Enter(c.op, c.args[1]) /\ UNCHANGED <<stack_vars, byte_vars>>
        ELSE /\ CASE c.op = "kmemset" -> M!kmemset(c.args[1], c.args[2], c.args[3])
                  [] c.op = "kmemcpy" -> M!kmemcpy(c.args[1], c.args[2], c.args[3])
                  [] c.op = "kmemmove" -> M!kmemmove(c.args[1], c.args[2], c.args[3])
                  [] c.op = "kmemcmp" -> M!kmemcmp(c.args[1], c.args[2], c.args[3])
             /\ UNCHANGED <<stack_vars, object_vars>>
    /\ busy' = c
    /\ UNCHANGED res

NextCall ==
    /\ outcome = "booting" /\ busy.op = "none" /\ Len(res) < Len(Calls)
    /\ LET c == Calls[Len(res) + 1]
       IN  CASE c.op \in {"seed", "frame", "give", "next_frame"} ->
                    FrameCall(c) /\ UNCHANGED busy
             [] c.op \in {"setup_paging", "activate_paging", "init_heap"} ->
                    SetupCall(c) /\ UNCHANGED busy
             [] c.op \in {"init_list", "append", "count"} ->
                    ListCall(c) /\ UNCHANGED busy
             [] c.op \in {"store", "flip"} ->
                    StoreCall(c) /\ UNCHANGED busy
             [] c.op \in {"state", "look", "bytes", "pending", "resolve", "skip"} ->
                    ReadCall(c) /\ UNCHANGED busy
             [] OTHER -> BeginCall(c)
    /\ UNCHANGED <<reuse_test, stage, failed, outcome>>

(* ... run ...                                                             *)
Running == ~ (StackIdle /\ k_pc = "idle" /\ m_pc = "idle")

BusyStep ==
    /\ \/ RunningStep /\ UNCHANGED <<object_vars, byte_vars>>
       \/ K!FindStep /\ UNCHANGED <<stack_vars, byte_vars>>
       \/ K!RemoveStep /\ UNCHANGED <<stack_vars, byte_vars>>
       \/ /\ M!SetStep \/ M!CopyUpStep \/ M!CopyDownStep \/ M!CompareStep
          /\ UNCHANGED <<stack_vars, object_vars>>
    /\ UNCHANGED boot_vars

(* ... and return.  The rest of kobject_node_create and of                 *)
(* kobject_node_destroy comes after kmalloc and kfree returned.            *)
ReturnStep ==
    /\ busy.op # "none" /\ ~ Running
    /\ CASE busy.op = "create" /\ h_result.value # Null ->
                K!CreateAt(busy.args[1], h_result.value)
         [] busy.op = "create" /\ h_result.value = Null ->
                K!CreateFails(busy.args[1])
         [] busy.op = "destroy" /\ h_result.value = 1 ->
                K!kobject_node_destroy(busy.args[1])
         [] OTHER -> UNCHANGED object_vars
    /\ res' = Append(res,
        CASE busy.op \in {"alloc", "free", "create", "destroy"} -> h_result.value
          [] busy.op \in {"map", "unmap"} -> answer.value
          [] busy.op = "find" -> k_result.node
          [] busy.op = "remove" -> k_result.value
          [] OTHER -> m_result)
    /\ busy' = Do("none")
    /\ UNCHANGED <<stack_vars, byte_vars, reuse_test, stage, failed, outcome>>

(* The end of a stage: its verdict, and the next stage or panic.  After    *)
(* the last one stage0_main installs the interrupts and returns.           *)
StageEnd ==
    /\ outcome = "booting" /\ busy.op = "none" /\ Len(res) = Len(Calls)
    /\ failed' = IF Passed THEN failed ELSE failed \cup {Stages[stage]}
    /\ IF ~ Passed /\ Stages[stage] \notin OnlyPrints
        THEN outcome' = "panic" /\ UNCHANGED <<stage, res>>
        ELSE IF stage = Len(Stages)
        THEN outcome' = "up" /\ UNCHANGED <<stage, res>>
        ELSE stage' = stage + 1 /\ res' = <<>> /\ UNCHANGED outcome
    /\ UNCHANGED <<stack_vars, object_vars, byte_vars, reuse_test, busy>>

(* panic halts, and stage0_main has returned.                              *)
Stopped == outcome # "booting" /\ UNCHANGED all_vars

BootNext == NextCall \/ BusyStep \/ ReturnStep \/ StageEnd

(* One thread with interrupts off: it keeps executing.                     *)
BootSpec == BootInit /\ [][BootNext \/ Stopped]_all_vars /\ WF_all_vars(BootNext)

-----------------------------------------------------------------------------
EligibleFrames ==
    UNION {RangeAt(i).start_frame .. RangeEnd(i) - 1 : i \in 0 .. RangeCount - 1}

(* The position of an eligible frame in the order of first issue, counted  *)
(* from 0, for ranges in ascending order.                                  *)
Rank(f) == Cardinality({g \in EligibleFrames : g < f})

(* What the stages need: the heap grows to HeapPagesNeeded pages, on the   *)
(* frames after those Stage 5D keeps; Stage 6D takes two more frames and   *)
(* looks at a third.                                                       *)
HeapPagesNeeded == 4

HeapFramesLow ==
    \A k \in STAGE5D_TEST_ALLOC_COUNT ..
             STAGE5D_TEST_ALLOC_COUNT + HeapPagesNeeded - 1 :
        \E f \in EligibleFrames : Rank(f) = k /\ ~ IsHigh(f)

FramesForReuseTest ==
    Cardinality(EligibleFrames) >= STAGE5D_TEST_ALLOC_COUNT + HeapPagesNeeded + 3

(* The boot depends on the memory map only: with enough frames below 4 GiB *)
(* at the front, every stage's expectations hold on the heap and lists the *)
(* earlier stages left, and the kernel comes up; with fewer it panics in a *)
(* heap stage, and Stage 6D reports FAIL exactly when frames run out.      *)
SelfChecksPass ==
    /\ outcome = "panic" => ~ HeapFramesLow
    /\ outcome = "up" =>
        /\ HeapFramesLow
        /\ failed = IF reuse_test /\ ~ FramesForReuseTest THEN {"6D"} ELSE {}

(* The call that is running or comes next.                                 *)
Current ==
    IF outcome = "booting" /\ busy.op = "none" /\ Len(res) < Len(Calls)
        THEN Calls[Len(res) + 1]
        ELSE busy

(* A node that was created and not destroyed is an allocated block of the  *)
(* heap, large enough, and a list function that runs, or is about to, only *)
(* meets such nodes: nothing is read, relinked or destroyed after kfree    *)
(* took it, although Stages 11B and 11C destroy nodes that are linked and  *)
(* their addresses are used again.                                         *)
NoFreedNodeUsed ==
    /\ \A n \in live :
        \/ busy.op = "destroy" /\ busy.args = <<n>>
        \/ n \in DOMAIN Live /\ Live[n] >= NODE_SIZE
    /\ Current.op \in {"append", "find", "remove"} =>
        {list.head, list.tail, k_cursor, k_prev} \subseteq live \cup {0}
    /\ Current.op \in {"append", "destroy"} => Current.args[1] \in live \cup {0}

(* The boot ends: every call of every stage returns.                       *)
BootEnds == <>(outcome \in {"up", "panic"})
=============================================================================
