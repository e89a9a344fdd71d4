---------------------------- MODULE KHeapProofs ----------------------------
(***************************************************************************)
(* Proofs about the kernel heap for every window, header size, alignment,  *)
(* page size and every sequence of calls.                                  *)
(*                                                                         *)
(* The inductive invariant joins the shape of the heap (HeapOK: the blocks *)
(* tile the mapped part of the window) with what the running call knows    *)
(* about the blocks its walk has passed (HeapCallOK).                      *)
(***************************************************************************)
EXTENDS KHeap, TLAPS

(* Before bootstrap_init the heap is a zero record without blocks; from    *)
(* then on the window is fixed, and current is aligned and mapped.         *)
WindowOK ==
    IF kheap.is_initialized = 0
    THEN /\ kheap.start = 0 /\ kheap.current = 0 /\ kheap.end_exclusive = 0
         /\ kheap.mapped_end_exclusive = 0
         /\ DOMAIN hdr = {}
    ELSE /\ kheap.start = HEAP_START /\ kheap.end_exclusive = HEAP_END
         /\ HEAP_START <= kheap.current
         /\ kheap.current <= kheap.mapped_end_exclusive
         /\ kheap.mapped_end_exclusive <= HEAP_END
         /\ kheap.current % MIN_ALIGNMENT = 0
         /\ kheap.mapped_end_exclusive % PAGE_SIZE = 0

HeapTyped ==
    /\ kheap \in [is_initialized : 0 .. 1,
                  start : {0, HEAP_START}, current : 0 .. HEAP_END,
                  end_exclusive : {0, HEAP_END},
                  mapped_end_exclusive : 0 .. HEAP_END]
    /\ DOMAIN hdr \subseteq HEAP_START .. HEAP_END - 1
    /\ \A h \in DOMAIN hdr :
            hdr[h] \in [payload_size : Nat, state : {"allocated", "freed"}]

HeapOK == HeapTyped /\ WindowOK /\ BlocksTile

CallTyped ==
    /\ h_pc \in {"idle", "reuse", "grow", "free"}
    /\ h_arg \in 0 .. UINT32_MAX
    /\ h_cursor \in 0 .. HEAP_END
    /\ h_result \in [op : {"none", "alloc", "free"},
                     arg : 0 .. UINT32_MAX, value : 0 .. HEAP_END]

(* The request of a running allocation passed the checks at its head, and  *)
(* no block behind the cursor can serve it.                                *)
AllocOK ==
    /\ h_arg \in Sizes /\ h_arg > 0
    /\ \A h \in DOMAIN hdr : h < h_cursor => ~ Reusable(h)

(* A running free has not passed the block it looks for.                   *)
FreeOK ==
    /\ h_arg \in Pointers
    /\ \A h \in DOMAIN hdr : h < h_cursor => h_arg # PayloadStart(h)

HeapCallOK ==
    /\ CallTyped /\ WalkOnBlocks
    /\ h_pc # "idle" => kheap.is_initialized = 1
    /\ h_pc = "reuse" => AllocOK
    /\ h_pc = "grow" => AllocOK /\ h_cursor = kheap.current /\ BumpFits
    /\ h_pc = "free" => FreeOK

HeapInv == HeapOK /\ HeapCallOK

-----------------------------------------------------------------------------
(* Arithmetic of multiples.                                                *)
LEMMA MultipleIs ==
    ASSUME NEW a \in Nat, NEW d \in Nat \ {0}, a % d = 0
    PROVE  \E k \in Nat : a = k * d
<1>1. a = (a \div d) * d /\ a \div d \in Nat
  OBVIOUS
<1> QED BY <1>1

LEMMA MultipleOf ==
    ASSUME NEW k \in Int, NEW d \in Nat \ {0}
    PROVE  (k * d) % d = 0
OBVIOUS

LEMMA MultipleAdd ==
    ASSUME NEW a \in Nat, NEW b \in Nat, NEW d \in Nat \ {0}, a % d = 0, b % d = 0
    PROVE  (a + b) % d = 0 /\ (a - b) % d = 0
<1>1. PICK i \in Nat : a = i * d
  BY MultipleIs
<1>2. PICK j \in Nat : b = j * d
  BY MultipleIs
<1>3. a + b = (i + j) * d /\ a - b = (i - j) * d
  BY <1>1, <1>2
<1>4. ((i + j) * d) % d = 0 /\ ((i - j) * d) % d = 0
  BY MultipleOf
<1> QED BY <1>3, <1>4

(* Every multiple of a page is a multiple of the alignment.                *)
LEMMA MultipleTrans ==
    ASSUME NEW a \in Nat, NEW d \in Nat \ {0}, NEW e \in Nat \ {0}, a % d = 0, d % e = 0
    PROVE  a % e = 0
<1>1. PICK i \in Nat : a = i * d
  BY MultipleIs
<1>2. PICK j \in Nat : d = j * e
  BY MultipleIs
<1>3. a = (i * j) * e /\ i * j \in Int
  BY <1>1, <1>2
<1> QED BY <1>3, MultipleOf

(* Two multiples that differ, differ by the divisor at least.              *)
LEMMA MultipleGap ==
    ASSUME NEW a \in Nat, NEW b \in Nat, NEW d \in Nat \ {0}, a % d = 0, b % d = 0, a < b
    PROVE  a + d <= b
<1>1. PICK i \in Nat : a = i * d
  BY MultipleIs
<1>2. PICK j \in Nat : b = j * d
  BY MultipleIs
<1>3. i < j
  <2>1. CASE j <= i
    <3>1. j * d <= i * d
      BY <2>1
    <3> QED BY <3>1, <1>1, <1>2
  <2> QED BY <2>1
<1>4. i + 1 <= j => (i + 1) * d <= j * d
  OBVIOUS
<1>5. (i + 1) * d = i * d + d
  OBVIOUS
<1> QED BY <1>1, <1>2, <1>3, <1>4, <1>5

(* stage8c_kheap_align_up rounds up to the next multiple.                  *)
LEMMA AlignUpFacts ==
    ASSUME NEW v \in Nat, NEW d \in Nat \ {0}
    PROVE  /\ AlignUp(v, d) \in Nat
           /\ AlignUp(v, d) % d = 0
           /\ v <= AlignUp(v, d) /\ AlignUp(v, d) < v + d
           /\ \A w \in Nat : v <= w /\ w % d = 0 => AlignUp(v, d) <= w
<1> DEFINE q == (v + (d - 1)) \div d
           r == (v + (d - 1)) % d
<1>1. v + (d - 1) = (d * q) + r /\ q \in Nat /\ r \in 0 .. d - 1
  OBVIOUS
<1>2. AlignUp(v, d) = q * d
  BY DEF AlignUp
<1> HIDE DEF q, r
<1>3. q * d = v + (d - 1) - r /\ q * d \in Nat
  BY <1>1
<1>4. v <= q * d /\ q * d < v + d
  BY <1>1, <1>3
<1>5. (q * d) % d = 0
  BY <1>1, MultipleOf
<1>6. ASSUME NEW w \in Nat, v <= w, w % d = 0 PROVE q * d <= w
  <2>1. CASE w < q * d
    <3>1. w + d <= q * d
      BY <1>3, <1>5, <1>6, <2>1, MultipleGap
    <3> QED BY <1>4, <1>3, <1>6, <3>1
  <2> QED BY <1>3, <2>1
<1> QED BY <1>2, <1>3, <1>4, <1>5, <1>6

LEMMA ConstantFacts ==
    /\ HEAP_START \in Nat \ {0} /\ HEAP_END \in Nat \ {0} /\ HEADER_SIZE \in Nat \ {0}
    /\ MIN_ALIGNMENT \in Nat \ {0} /\ PAGE_SIZE \in Nat \ {0} /\ UINT32_MAX \in Nat \ {0}
    /\ HEADER_SIZE % MIN_ALIGNMENT = 0 /\ HEAP_START % MIN_ALIGNMENT = 0
    /\ HEAP_START < HEAP_END /\ HEAP_END <= UINT32_MAX
<1>1. /\ HEAP_START \in Nat \ {0} /\ HEAP_END \in Nat \ {0} /\ HEADER_SIZE \in Nat \ {0}
      /\ MIN_ALIGNMENT \in Nat \ {0} /\ PAGE_SIZE \in Nat \ {0} /\ UINT32_MAX \in Nat \ {0}
  BY KHeapAssumption
<1>2. HEAP_START % MIN_ALIGNMENT = 0
  BY <1>1, KHeapAssumption, MultipleTrans
<1> QED BY <1>1, <1>2, KHeapAssumption

(* The rounded request of a running allocation.                            *)
LEMMA AlignedArg ==
    ASSUME h_arg \in Nat, h_arg > 0
    PROVE  /\ AlignedSize \in Nat /\ AlignedSize > 0 /\ h_arg <= AlignedSize
           /\ AlignedSize % MIN_ALIGNMENT = 0
BY AlignUpFacts, ConstantFacts DEF AlignedSize

(* The record of the heap once there is something in it.                   *)
LEMMA WindowFacts ==
    ASSUME HeapOK
    PROVE  /\ kheap.current \in Nat /\ kheap.mapped_end_exclusive \in Nat
           /\ kheap.current <= kheap.mapped_end_exclusive
           /\ kheap.mapped_end_exclusive <= kheap.end_exclusive
           /\ kheap.start \in Nat /\ kheap.start <= kheap.current
           /\ kheap.mapped_end_exclusive <= HEAP_END
           /\ kheap.end_exclusive \in Nat
BY ConstantFacts DEF HeapOK, HeapTyped, WindowOK

(* What is known of every block.                                           *)
LEMMA BlockFacts ==
    ASSUME HeapOK, NEW h \in DOMAIN hdr
    PROVE  /\ kheap.is_initialized = 1
           /\ h \in Nat /\ HEAP_START <= h /\ h < kheap.current
           /\ hdr[h].payload_size \in Nat /\ hdr[h].payload_size > 0
           /\ hdr[h].payload_size % MIN_ALIGNMENT = 0
           /\ hdr[h].state \in {"allocated", "freed"}
           /\ PayloadStart(h) = h + HEADER_SIZE
           /\ PayloadStart(h) % MIN_ALIGNMENT = 0
           /\ PayloadEnd(h) = h + HEADER_SIZE + hdr[h].payload_size
           /\ PayloadEnd(h) \in Nat /\ PayloadEnd(h) <= kheap.current
           /\ HeaderValid(h)
<1>1. h \in Nat /\ HEAP_START <= h
  BY ConstantFacts DEF HeapOK, HeapTyped
<1>2. hdr[h].payload_size \in Nat /\ hdr[h].state \in {"allocated", "freed"}
  BY DEF HeapOK, HeapTyped
<1>3. HeaderValid(h) /\ PayloadStart(h) % MIN_ALIGNMENT = 0
  BY DEF HeapOK, BlocksTile
<1>4. kheap.is_initialized = 1
  BY DEF HeapOK, HeapTyped, WindowOK
<1>5. PayloadEnd(h) = h + HEADER_SIZE + hdr[h].payload_size
  BY DEF PayloadEnd, PayloadStart
<1> QED
  BY <1>1, <1>2, <1>3, <1>4, <1>5, WindowFacts, ConstantFacts
  DEF HeaderValid, PayloadStart

(* Taking or freeing a whole block changes one state and no shape.         *)
LEMMA StateChange ==
    ASSUME HeapOK, NEW h \in DOMAIN hdr, NEW st \in {"allocated", "freed"},
           hdr' = [hdr EXCEPT ![h].state = st], UNCHANGED kheap
    PROVE  /\ HeapOK'
           /\ DOMAIN hdr' = DOMAIN hdr
           /\ hdr'[h].state = st
           /\ \A k \in DOMAIN hdr : hdr'[k].payload_size = hdr[k].payload_size
           /\ \A k \in DOMAIN hdr : k # h => hdr'[k] = hdr[k]
<1>1. DOMAIN hdr' = DOMAIN hdr
  OBVIOUS
<1>2. \A k \in DOMAIN hdr : k # h => hdr'[k] = hdr[k]
  OBVIOUS
<1>3. hdr'[h].state = st /\ hdr'[h].payload_size = hdr[h].payload_size
      /\ hdr'[h] \in [payload_size : Nat, state : {"allocated", "freed"}]
  <2>1. hdr[h] \in [payload_size : Nat, state : {"allocated", "freed"}]
    BY DEF HeapOK, HeapTyped
  <2>2. hdr'[h] = [hdr[h] EXCEPT !.state = st]
    OBVIOUS
  <2> QED BY <2>1, <2>2
<1>4. \A k \in DOMAIN hdr : hdr'[k].payload_size = hdr[k].payload_size
  BY <1>2, <1>3
<1>5. HeapTyped'
  BY <1>1, <1>2, <1>3 DEF HeapOK, HeapTyped
<1>6. WindowOK'
  BY <1>1 DEF HeapOK, WindowOK
<1>7. BlocksTile'
  <2>1. \A k \in DOMAIN hdr : PayloadEnd(k)' = PayloadEnd(k) /\ PayloadStart(k)' = PayloadStart(k)
    BY <1>4 DEF PayloadEnd, PayloadStart
  <2>2. \A k \in DOMAIN hdr : HeaderValid(k)'
    BY <1>1, <1>4, <2>1, BlockFacts DEF HeaderValid
  <2> QED BY <1>1, <2>1, <2>2 DEF HeapOK, BlocksTile
<1> QED BY <1>1, <1>2, <1>3, <1>4, <1>5, <1>6, <1>7 DEF HeapOK

(* Splitting a freed block puts a new header inside it and leaves every    *)
(* other block alone.                                                      *)
LEMMA SplitChange ==
    ASSUME HeapOK, NEW h \in DOMAIN hdr, NEW n \in Nat, n > 0, n % MIN_ALIGNMENT = 0,
           hdr[h].payload_size - n >= HEADER_SIZE + MIN_ALIGNMENT,
           hdr' = SplitBlock(h, n), UNCHANGED kheap
    PROVE  /\ HeapOK'
           /\ h + HEADER_SIZE + n \notin DOMAIN hdr
           /\ DOMAIN hdr' = DOMAIN hdr \cup {h + HEADER_SIZE + n}
           /\ hdr'[h] = Header(n, "allocated")
           /\ hdr'[h + HEADER_SIZE + n].state = "freed"
           /\ \A k \in DOMAIN hdr : k # h => hdr'[k] = hdr[k]
<1> DEFINE rest == h + HEADER_SIZE + n
           m == hdr[h].payload_size - n - HEADER_SIZE
<1>1. /\ h \in Nat /\ HEAP_START <= h
      /\ hdr[h].payload_size \in Nat /\ hdr[h].payload_size % MIN_ALIGNMENT = 0
      /\ PayloadEnd(h) = h + HEADER_SIZE + hdr[h].payload_size
      /\ PayloadEnd(h) <= kheap.current
      /\ PayloadStart(h) = h + HEADER_SIZE
      /\ PayloadStart(h) % MIN_ALIGNMENT = 0
  BY BlockFacts
<1>2. /\ HEADER_SIZE \in Nat \ {0} /\ MIN_ALIGNMENT \in Nat \ {0}
      /\ HEADER_SIZE % MIN_ALIGNMENT = 0
  BY ConstantFacts
<1>3. rest \in Nat /\ h < rest /\ m \in Nat /\ m > 0 /\ rest + HEADER_SIZE + m = PayloadEnd(h)
  BY <1>1, <1>2
<1>4. m % MIN_ALIGNMENT = 0
  <2>1. (hdr[h].payload_size - n) % MIN_ALIGNMENT = 0
    BY <1>1, <1>2, MultipleAdd
  <2>2. hdr[h].payload_size - n \in Nat
    BY <1>1, <1>2
  <2> QED BY <1>2, <2>1, <2>2, MultipleAdd
<1>5. (rest + HEADER_SIZE) % MIN_ALIGNMENT = 0
  <2>1. (h + HEADER_SIZE + n) % MIN_ALIGNMENT = 0
    BY <1>1, <1>2, MultipleAdd
  <2> QED BY <1>2, <1>3, <2>1, MultipleAdd
<1>6. rest \notin DOMAIN hdr
  <2>1. rest < PayloadEnd(h) /\ PayloadEnd(h) \in Nat /\ rest \in Nat
    BY <1>1, <1>2, <1>3
  <2> HIDE DEF rest
  <2>2. rest \in DOMAIN hdr => PayloadEnd(h) <= rest
    BY <1>3 DEF HeapOK, BlocksTile
  <2> QED BY <2>1, <2>2
<1>7. /\ DOMAIN hdr' = DOMAIN hdr \cup {rest}
      /\ hdr'[h] = Header(n, "allocated")
      /\ hdr'[rest] = Header(m, "freed")
      /\ \A k \in DOMAIN hdr : k # h => hdr'[k] = hdr[k]
  BY <1>3, <1>6 DEF SplitBlock
<1>8. /\ hdr'[h] \in [payload_size : Nat, state : {"allocated", "freed"}]
      /\ hdr'[rest] \in [payload_size : Nat, state : {"allocated", "freed"}]
      /\ hdr'[h].payload_size = n /\ hdr'[rest].payload_size = m
      /\ hdr'[rest].state = "freed"
  BY <1>3, <1>7 DEF Header
<1>9. kheap.current \in Nat /\ kheap.current <= HEAP_END /\ rest < kheap.current
  BY <1>1, <1>2, <1>3, WindowFacts, ConstantFacts
<1> HIDE DEF rest, m
<1>10. HeapTyped'
  <2>1. rest \in HEAP_START .. HEAP_END - 1
    BY <1>1, <1>3, <1>9, ConstantFacts
  <2> QED BY <1>7, <1>8, <2>1 DEF HeapOK, HeapTyped
<1>11. WindowOK'
  BY BlockFacts DEF HeapOK, WindowOK
<1>12. BlocksTile'
  <2>1. /\ PayloadStart(rest)' = rest + HEADER_SIZE
        /\ PayloadEnd(rest)' = PayloadEnd(h)
        /\ PayloadStart(h)' = PayloadStart(h)
        /\ PayloadEnd(h)' = rest
    BY <1>1, <1>3, <1>8 DEF PayloadStart, PayloadEnd, rest
  <2>2. \A k \in DOMAIN hdr : k # h => PayloadStart(k)' = PayloadStart(k)
                                        /\ PayloadEnd(k)' = PayloadEnd(k)
    BY <1>7 DEF PayloadStart, PayloadEnd
  <2>3. HeaderValid(rest)'
    BY <1>1, <1>2, <1>3, <1>4, <1>7, <1>8, <1>9, <2>1 DEF HeaderValid
  <2>4. HeaderValid(h)'
    BY <1>1, <1>2, <1>3, <1>7, <1>8, <1>9, <2>1 DEF HeaderValid, rest
  <2>5. ASSUME NEW k \in DOMAIN hdr, k # h PROVE HeaderValid(k)'
    BY <1>7, <2>2, <2>5, BlockFacts DEF HeaderValid
  <2>6. \A k \in DOMAIN hdr' : HeaderValid(k)' /\ PayloadStart(k)' % MIN_ALIGNMENT = 0
    BY <1>1, <1>5, <1>7, <2>1, <2>2, <2>3, <2>4, <2>5, BlockFacts
  <2>7. \A k \in DOMAIN hdr' : PayloadEnd(k)' \in DOMAIN hdr' \cup {kheap'.current}
    BY <1>7, <2>1, <2>2 DEF HeapOK, BlocksTile
  <2>8. ASSUME NEW i \in DOMAIN hdr', NEW j \in DOMAIN hdr', i < j
        PROVE  PayloadEnd(i)' <= j
    <3>1. CASE i = rest
      <4>1. j \in DOMAIN hdr /\ h < j
        BY <1>1, <1>3, <1>7, <2>8, <3>1, BlockFacts
      <4> QED BY <2>1, <3>1, <4>1 DEF HeapOK, BlocksTile
    <3>2. CASE i # rest /\ j = rest
      <4>1. i \in DOMAIN hdr /\ i \in Nat
        BY <1>7, <3>2, BlockFacts
      <4>2. CASE i = h
        BY <2>1, <3>2, <4>2, <1>3
      <4>3. CASE i < h
        <5>1. PayloadEnd(i) <= h
          BY <4>1, <4>3 DEF HeapOK, BlocksTile
        <5> QED BY <1>1, <1>3, <2>2, <3>2, <4>1, <4>3, <5>1, BlockFacts
      <4>4. CASE h < i
        <5>1. PayloadEnd(h) <= i
          BY <4>1, <4>4 DEF HeapOK, BlocksTile
        <5> QED BY <1>1, <1>2, <1>3, <2>8, <3>2, <4>1, <5>1
      <4> QED BY <1>1, <4>1, <4>2, <4>3, <4>4
    <3>3. CASE i # rest /\ j # rest
      <4>1. i \in DOMAIN hdr /\ j \in DOMAIN hdr /\ PayloadEnd(i) <= j
        BY <1>7, <2>8, <3>3 DEF HeapOK, BlocksTile
      <4>2. CASE i = h
        BY <1>1, <1>2, <1>3, <2>1, <4>1, <4>2, BlockFacts
      <4>3. CASE i # h
        BY <2>2, <4>1, <4>3
      <4> QED BY <4>2, <4>3
    <3> QED BY <3>1, <3>2, <3>3
  <2>9. kheap'.current > kheap'.start => kheap'.start \in DOMAIN hdr'
    BY <1>7 DEF HeapOK, BlocksTile
  <2> QED BY <2>6, <2>7, <2>8, <2>9 DEF BlocksTile
<1> QED BY <1>6, <1>7, <1>8, <1>10, <1>11, <1>12 DEF HeapOK, rest

(* Mapping one more page keeps the blocks.                                 *)
LEMMA GrowChange ==
    ASSUME HeapOK, kheap.is_initialized = 1,
           kheap.mapped_end_exclusive < kheap.end_exclusive,
           kheap' = [kheap EXCEPT !.mapped_end_exclusive = @ + PAGE_SIZE],
           UNCHANGED hdr
    PROVE  HeapOK'
<1>1. /\ kheap'.is_initialized = kheap.is_initialized /\ kheap'.start = kheap.start
      /\ kheap'.current = kheap.current /\ kheap'.end_exclusive = kheap.end_exclusive
      /\ kheap'.mapped_end_exclusive = kheap.mapped_end_exclusive + PAGE_SIZE
  BY DEF HeapOK, HeapTyped
<1>2. /\ kheap.mapped_end_exclusive % PAGE_SIZE = 0 /\ kheap.end_exclusive = HEAP_END
      /\ HEAP_END % PAGE_SIZE = 0 /\ PAGE_SIZE % PAGE_SIZE = 0
  BY KHeapAssumption, ConstantFacts DEF HeapOK, WindowOK
<1>3. kheap.mapped_end_exclusive + PAGE_SIZE <= HEAP_END
  BY <1>2, WindowFacts, ConstantFacts, MultipleGap
<1>4. (kheap.mapped_end_exclusive + PAGE_SIZE) % PAGE_SIZE = 0
  BY <1>2, WindowFacts, ConstantFacts, MultipleAdd
<1>5. HeapTyped'
  BY <1>1, <1>3, ConstantFacts DEF HeapOK, HeapTyped
<1>6. WindowOK'
  BY <1>1, <1>3, <1>4, WindowFacts, ConstantFacts DEF HeapOK, WindowOK
<1>7. BlocksTile'
  BY <1>1 DEF HeapOK, BlocksTile, HeaderValid, PayloadStart, PayloadEnd
<1> QED BY <1>5, <1>6, <1>7 DEF HeapOK

(* Bumping adds a block at the end of the chain.                           *)
LEMMA BumpChange ==
    ASSUME HeapOK, kheap.is_initialized = 1, NEW c, c = kheap.current,
           NEW n \in Nat, n > 0, n % MIN_ALIGNMENT = 0,
           c + HEADER_SIZE + n <= kheap.mapped_end_exclusive,
           hdr' = [a \in DOMAIN hdr \cup {c} |->
                    IF a = c THEN Header(n, "allocated") ELSE hdr[a]],
           kheap' = [kheap EXCEPT !.current = c + HEADER_SIZE + n]
    PROVE  /\ HeapOK'
           /\ c \notin DOMAIN hdr
           /\ DOMAIN hdr' = DOMAIN hdr \cup {c}
           /\ hdr'[c] = Header(n, "allocated")
           /\ \A k \in DOMAIN hdr : hdr'[k] = hdr[k]
<1> DEFINE e == c + HEADER_SIZE + n
<1>1. /\ kheap'.is_initialized = 1 /\ kheap'.start = kheap.start
      /\ kheap'.current = e /\ kheap'.end_exclusive = kheap.end_exclusive
      /\ kheap'.mapped_end_exclusive = kheap.mapped_end_exclusive
  BY DEF HeapOK, HeapTyped
<1>2. /\ HEADER_SIZE \in Nat \ {0} /\ MIN_ALIGNMENT \in Nat \ {0}
      /\ HEADER_SIZE % MIN_ALIGNMENT = 0
  BY ConstantFacts
<1>3. /\ c \in Nat /\ HEAP_START <= c /\ c % MIN_ALIGNMENT = 0
      /\ kheap.start = HEAP_START /\ kheap.mapped_end_exclusive <= HEAP_END
      /\ kheap.mapped_end_exclusive \in Nat
  BY WindowFacts DEF HeapOK, WindowOK
<1>4. e \in Nat /\ c < e /\ e <= HEAP_END
  BY <1>2, <1>3, ConstantFacts
<1>5. (c + HEADER_SIZE) % MIN_ALIGNMENT = 0 /\ e % MIN_ALIGNMENT = 0
  <2>1. (c + HEADER_SIZE) % MIN_ALIGNMENT = 0 /\ c + HEADER_SIZE \in Nat
    BY <1>2, <1>3, MultipleAdd
  <2>2. ((c + HEADER_SIZE) + n) % MIN_ALIGNMENT = 0
    BY <1>2, <2>1, MultipleAdd
  <2> QED BY <2>1, <2>2
<1>6. c \notin DOMAIN hdr
  BY <1>3, BlockFacts
<1>7. /\ DOMAIN hdr' = DOMAIN hdr \cup {c}
      /\ hdr'[c] = Header(n, "allocated")
      /\ \A k \in DOMAIN hdr : hdr'[k] = hdr[k]
  BY <1>6
<1>8. /\ hdr'[c] \in [payload_size : Nat, state : {"allocated", "freed"}]
      /\ hdr'[c].payload_size = n
  BY <1>7 DEF Header
<1>9. c + HEADER_SIZE + n = e
  OBVIOUS
<1> HIDE DEF e
<1>10. HeapTyped'
  <2>1. c \in HEAP_START .. HEAP_END - 1
    BY <1>3, <1>4, ConstantFacts
  <2>2. kheap' \in [is_initialized : 0 .. 1,
                    start : {0, HEAP_START}, current : 0 .. HEAP_END,
                    end_exclusive : {0, HEAP_END},
                    mapped_end_exclusive : 0 .. HEAP_END]
    <3>1. e \in 0 .. HEAP_END /\ kheap' = [kheap EXCEPT !.current = e]
      BY <1>4, ConstantFacts DEF e
    <3> QED BY <3>1 DEF HeapOK, HeapTyped
  <2> QED BY <1>7, <1>8, <2>1, <2>2 DEF HeapOK, HeapTyped
<1>11. WindowOK'
  <2>1. HEAP_START <= e /\ e <= kheap.mapped_end_exclusive
    BY <1>3, <1>4, ConstantFacts DEF e
  <2> QED BY <1>1, <1>3, <1>5, <2>1 DEF HeapOK, WindowOK
<1>12. BlocksTile'
  <2>1. PayloadStart(c)' = c + HEADER_SIZE /\ PayloadEnd(c)' = e
    BY <1>8, <1>9 DEF PayloadStart, PayloadEnd
  <2>2. \A k \in DOMAIN hdr : PayloadStart(k)' = PayloadStart(k)
                                /\ PayloadEnd(k)' = PayloadEnd(k)
    BY <1>7 DEF PayloadStart, PayloadEnd
  <2>3. HeaderValid(c)'
    BY <1>1, <1>2, <1>3, <1>4, <1>7, <1>8, <1>9, <2>1 DEF HeaderValid
  <2>4. ASSUME NEW k \in DOMAIN hdr PROVE HeaderValid(k)'
    <3>1. /\ k \in Nat /\ hdr[k].payload_size \in Nat
          /\ PayloadStart(k) \in Nat /\ PayloadEnd(k) \in Nat
          /\ HeaderValid(k)
      BY <1>2, BlockFacts
    <3> QED BY <1>1, <1>2, <1>3, <1>4, <1>7, <2>2, <3>1 DEF HeaderValid
  <2>5. \A k \in DOMAIN hdr' : HeaderValid(k)' /\ PayloadStart(k)' % MIN_ALIGNMENT = 0
    BY <1>5, <1>7, <2>1, <2>2, <2>3, <2>4, BlockFacts
  <2>6. \A k \in DOMAIN hdr' : PayloadEnd(k)' \in DOMAIN hdr' \cup {kheap'.current}
    BY <1>1, <1>7, <2>1, <2>2 DEF HeapOK, BlocksTile
  <2>7. ASSUME NEW i \in DOMAIN hdr', NEW j \in DOMAIN hdr', i < j
        PROVE  PayloadEnd(i)' <= j
    <3>1. CASE i = c
      BY <1>3, <1>7, <2>7, <3>1, BlockFacts
    <3>2. CASE i # c /\ j = c
      BY <1>7, <2>2, <3>2, BlockFacts
    <3>3. CASE i # c /\ j # c
      BY <1>7, <2>2, <2>7, <3>3 DEF HeapOK, BlocksTile
    <3> QED BY <3>1, <3>2, <3>3
  <2>8. kheap'.start \in DOMAIN hdr'
    BY <1>1, <1>3, <1>7, ConstantFacts DEF HeapOK, BlocksTile
  <2> QED BY <2>5, <2>6, <2>7, <2>8 DEF BlocksTile
<1> QED BY <1>6, <1>7, <1>10, <1>11, <1>12 DEF HeapOK

(* bootstrap_init opens an empty window.                                   *)
LEMMA BootstrapChange ==
    ASSUME HeapOK, stage8c_kheap_bootstrap_init
    PROVE  HeapOK'
<1>1. DOMAIN hdr = {} /\ hdr' = hdr
  BY DEF HeapOK, WindowOK, stage8c_kheap_bootstrap_init
<1>2. kheap' = [is_initialized |-> 1, start |-> HEAP_START,
                current |-> HEAP_START, end_exclusive |-> HEAP_END,
                mapped_end_exclusive |-> HEAP_START]
  BY DEF stage8c_kheap_bootstrap_init
<1>3. HeapTyped'
  BY <1>1, <1>2, ConstantFacts DEF HeapTyped
<1>4. WindowOK'
  BY <1>2, ConstantFacts, KHeapAssumption DEF WindowOK
<1>5. BlocksTile'
  BY <1>1, <1>2, ConstantFacts DEF BlocksTile
<1> QED BY <1>3, <1>4, <1>5 DEF HeapOK

(* A step that leaves the blocks alone.                                    *)
LEMMA HeapUnchanged ==
    ASSUME HeapOK, UNCHANGED <<kheap, hdr>>
    PROVE  HeapOK'
BY DEF HeapOK, HeapTyped, WindowOK, BlocksTile, HeaderValid, PayloadStart, PayloadEnd

-----------------------------------------------------------------------------
(* A call that returns leaves nothing running.                             *)
LEMMA ReturnOK ==
    ASSUME HeapCallOK, NEW op \in {"alloc", "free"}, NEW value \in 0 .. HEAP_END,
           HeapReturn(op, value)
    PROVE  /\ HeapCallOK'
           /\ h_pc' = "idle" /\ h_result' = [op |-> op, arg |-> h_arg, value |-> value]
<1>1. /\ h_pc' = "idle" /\ h_arg' = 0 /\ h_cursor' = 0
      /\ h_result' = [op |-> op, arg |-> h_arg, value |-> value]
  BY DEF HeapReturn
<1>2. CallTyped'
  BY <1>1, ConstantFacts DEF HeapCallOK, CallTyped
<1> QED BY <1>1, <1>2 DEF HeapCallOK, WalkOnBlocks

(* Where a walk stands.                                                    *)
LEMMA WalkFacts ==
    ASSUME HeapInv, h_pc \in {"reuse", "free"}
    PROVE  /\ kheap.is_initialized = 1
           /\ h_cursor < kheap.current => h_cursor \in DOMAIN hdr /\ HeaderValid(h_cursor)
           /\ ~ (h_cursor < kheap.current) => h_cursor = kheap.current
           /\ h_cursor \in Nat /\ h_arg \in Nat /\ h_arg \in 0 .. UINT32_MAX
<1>1. h_cursor \in DOMAIN hdr \cup {kheap.current} /\ h_cursor \in Nat
      /\ h_arg \in 0 .. UINT32_MAX /\ kheap.is_initialized = 1
  BY DEF HeapInv, HeapCallOK, WalkOnBlocks, CallTyped
<1>2. h_cursor \in DOMAIN hdr => HeaderValid(h_cursor) /\ h_cursor < kheap.current
  BY BlockFacts DEF HeapInv
<1>3. kheap.current \in Nat
  BY WindowFacts DEF HeapInv
<1> QED BY <1>1, <1>2, <1>3, ConstantFacts

(* The walk steps over one block.                                          *)
LEMMA WalkNext ==
    ASSUME HeapInv, h_pc \in {"reuse", "free"}, h_cursor < kheap.current
    PROVE  /\ PayloadEnd(h_cursor) \in DOMAIN hdr \cup {kheap.current}
           /\ PayloadEnd(h_cursor) \in 0 .. HEAP_END
           /\ \A h \in DOMAIN hdr : h < PayloadEnd(h_cursor) => h <= h_cursor
<1>1. h_cursor \in DOMAIN hdr
  BY WalkFacts
<1>2. PayloadEnd(h_cursor) \in DOMAIN hdr \cup {kheap.current}
  BY <1>1 DEF HeapInv, HeapOK, BlocksTile
<1>3. PayloadEnd(h_cursor) \in Nat /\ PayloadEnd(h_cursor) <= kheap.current /\ h_cursor \in Nat
  BY <1>1, BlockFacts DEF HeapInv
<1>4. kheap.current \in Nat /\ kheap.current <= HEAP_END
  BY WindowFacts, ConstantFacts DEF HeapInv
<1>5. ASSUME NEW h \in DOMAIN hdr, h < PayloadEnd(h_cursor) PROVE h <= h_cursor
  <2>1. h_cursor < h => PayloadEnd(h_cursor) <= h
    BY <1>1 DEF HeapInv, HeapOK, BlocksTile
  <2>2. h \in Nat
    BY BlockFacts DEF HeapInv
  <2> QED BY <1>3, <1>5, <2>1, <2>2
<1> QED BY <1>2, <1>3, <1>4, <1>5, ConstantFacts

(* The rounded request of the running allocation, and where a bump ends.   *)
LEMMA AllocFacts ==
    ASSUME HeapInv, h_pc \in {"reuse", "grow"}
    PROVE  /\ AlignedSize \in Nat /\ AlignedSize > 0 /\ AlignedSize % MIN_ALIGNMENT = 0
           /\ h_arg \in Sizes /\ h_arg \in Nat /\ h_arg > 0 /\ h_arg <= AlignedSize
           /\ h_arg \in 0 .. UINT32_MAX
           /\ kheap.current \in Nat
           /\ BumpEnd = kheap.current + HEADER_SIZE + AlignedSize
<1>1. h_arg \in Sizes /\ h_arg > 0 /\ h_arg \in 0 .. UINT32_MAX /\ h_arg \in Nat
  BY ConstantFacts DEF HeapInv, HeapCallOK, AllocOK, CallTyped
<1> QED BY <1>1, AlignedArg, WindowFacts DEF BumpEnd, PayloadStart, HeapInv

(* Taking a block that the walk found.                                     *)
LEMMA ReuseHitStep ==
    ASSUME HeapInv, ReuseHit
    PROVE  /\ HeapInv'
           /\ h_cursor \in DOMAIN hdr /\ hdr[h_cursor].state = "freed"
           /\ h_pc' = "idle"
           /\ h_result' = [op |-> "alloc", arg |-> h_arg, value |-> h_cursor + HEADER_SIZE]
           /\ AllocatedHeaders' = AllocatedHeaders \cup {h_cursor}
           /\ hdr'[h_cursor].payload_size >= h_arg
           /\ \A k \in AllocatedHeaders : hdr'[k] = hdr[k]
<1>1. /\ h_pc = "reuse" /\ h_cursor \in DOMAIN hdr /\ hdr[h_cursor].state = "freed"
      /\ hdr[h_cursor].payload_size >= AlignedSize
      /\ UNCHANGED kheap /\ HeapReturn("alloc", PayloadStart(h_cursor))
  BY DEF ReuseHit, HeaderValid, Reusable
<1>2. /\ AlignedSize \in Nat /\ AlignedSize > 0 /\ AlignedSize % MIN_ALIGNMENT = 0
      /\ h_arg <= AlignedSize /\ h_arg \in Nat
  BY <1>1, AllocFacts
<1>3. PICK c \in DOMAIN hdr : c = h_cursor
  BY <1>1
<1>4. PICK n \in Nat : n = AlignedSize
  BY <1>2
<1>5. /\ HeapOK'
      /\ DOMAIN hdr \subseteq DOMAIN hdr'
      /\ hdr'[c].state = "allocated" /\ hdr'[c].payload_size \in Nat
      /\ hdr'[c].payload_size >= n
      /\ \A k \in DOMAIN hdr : k # c => hdr'[k] = hdr[k]
      /\ \A k \in DOMAIN hdr' : k \notin DOMAIN hdr => hdr'[k].state = "freed"
  <2>1. CASE Splits(h_cursor)
    <3>1. hdr' = SplitBlock(c, n) /\ hdr[c].payload_size - n >= HEADER_SIZE + MIN_ALIGNMENT
      BY <1>1, <1>3, <1>4, <2>1 DEF ReuseHit, Splits
    <3>2. /\ HeapOK'
          /\ DOMAIN hdr' = DOMAIN hdr \cup {c + HEADER_SIZE + n}
          /\ hdr'[c] = Header(n, "allocated")
          /\ hdr'[c + HEADER_SIZE + n].state = "freed"
          /\ \A k \in DOMAIN hdr : k # c => hdr'[k] = hdr[k]
      BY <1>1, <1>2, <1>4, <3>1, SplitChange DEF HeapInv
    <3> QED BY <3>2 DEF Header
  <2>2. CASE ~ Splits(h_cursor)
    <3>1. hdr' = [hdr EXCEPT ![c].state = "allocated"]
      BY <1>1, <1>3, <2>2 DEF ReuseHit, ConsumeBlock
    <3>2. /\ HeapOK' /\ DOMAIN hdr' = DOMAIN hdr
          /\ hdr'[c].state = "allocated"
          /\ hdr'[c].payload_size = hdr[c].payload_size
          /\ \A k \in DOMAIN hdr : k # c => hdr'[k] = hdr[k]
      BY <1>1, <3>1, StateChange DEF HeapInv
    <3>3. hdr[c].payload_size \in Nat
      BY BlockFacts DEF HeapInv
    <3> QED BY <1>1, <1>3, <1>4, <3>2, <3>3
  <2> QED BY <2>1, <2>2
<1>6. AllocatedHeaders' = AllocatedHeaders \cup {c}
  BY <1>5 DEF AllocatedHeaders
<1>7. \A k \in AllocatedHeaders : hdr'[k] = hdr[k]
  BY <1>1, <1>3, <1>5 DEF AllocatedHeaders
<1>8. PayloadStart(h_cursor) \in 0 .. HEAP_END /\ PayloadStart(h_cursor) = h_cursor + HEADER_SIZE
  BY <1>1, BlockFacts, WindowFacts, ConstantFacts DEF HeapInv
<1>9. /\ HeapCallOK' /\ h_pc' = "idle"
      /\ h_result' = [op |-> "alloc", arg |-> h_arg, value |-> h_cursor + HEADER_SIZE]
  BY <1>1, <1>8, ReturnOK DEF HeapInv
<1> QED BY <1>1, <1>2, <1>3, <1>4, <1>5, <1>6, <1>7, <1>9 DEF HeapInv

(* Passing a block that does not serve.                                    *)
LEMMA ReuseNextStep ==
    ASSUME HeapInv, ReuseNext
    PROVE  HeapInv' /\ h_pc' = "reuse" /\ UNCHANGED <<hdr, h_result>>
<1>1. /\ h_pc = "reuse" /\ h_cursor < kheap.current /\ UNCHANGED <<kheap, hdr>>
  BY DEF ReuseNext
<1>2. h_cursor \in DOMAIN hdr /\ HeaderValid(h_cursor)
  BY <1>1, WalkFacts
<1>3. ~ Reusable(h_cursor) /\ h_cursor' = PayloadEnd(h_cursor) /\ UNCHANGED <<h_pc, h_arg, h_result>>
  BY <1>1, <1>2 DEF ReuseNext
<1>4. HeapOK'
  BY <1>1, HeapUnchanged DEF HeapInv
<1>5. CallTyped' /\ WalkOnBlocks'
  BY <1>1, <1>3, WalkNext DEF HeapInv, HeapCallOK, CallTyped, WalkOnBlocks
<1>6. AllocOK'
  <2>1. \A h \in DOMAIN hdr : h < PayloadEnd(h_cursor) => ~ Reusable(h)
    <3>1. \A h \in DOMAIN hdr : h < PayloadEnd(h_cursor) => h <= h_cursor /\ h \in Nat
      BY <1>1, WalkNext, BlockFacts DEF HeapInv
    <3>2. \A h \in DOMAIN hdr : h < h_cursor => ~ Reusable(h)
      BY <1>1 DEF HeapInv, HeapCallOK, AllocOK
    <3>3. h_cursor \in Nat
      BY <1>1, WalkFacts
    <3> QED BY <1>3, <3>1, <3>2, <3>3
  <2>2. \A h \in DOMAIN hdr : Reusable(h)' <=> Reusable(h)
    BY <1>1, <1>3 DEF Reusable, AlignedSize
  <2>3. h_arg \in Sizes /\ h_arg > 0
    BY <1>1 DEF HeapInv, HeapCallOK, AllocOK
  <2> QED BY <1>1, <1>3, <2>1, <2>2, <2>3 DEF AllocOK
<1>7. kheap.is_initialized = 1
  BY <1>1, WalkFacts
<1> QED BY <1>1, <1>3, <1>4, <1>5, <1>6, <1>7 DEF HeapInv, HeapCallOK

(* The end of the reuse walk: no block serves the request.                 *)
LEMMA ReuseMissStep ==
    ASSUME HeapInv, ReuseMiss
    PROVE  /\ HeapInv' /\ UNCHANGED hdr
           /\ \A h \in DOMAIN hdr : ~ Reusable(h)
           /\ \/ h_pc' = "grow" /\ UNCHANGED h_result
              \/ h_pc' = "idle" /\ h_result' = [op |-> "alloc", arg |-> h_arg, value |-> Null]
<1>1. /\ h_pc = "reuse" /\ ~ (h_cursor < kheap.current) /\ UNCHANGED <<kheap, hdr>>
  BY WindowFacts, WalkFacts DEF ReuseMiss, HeapInv
<1>2. h_cursor = kheap.current /\ kheap.is_initialized = 1
  BY <1>1, WalkFacts
<1>3. \A h \in DOMAIN hdr : ~ Reusable(h)
  BY <1>1, <1>2, BlockFacts DEF HeapInv, HeapCallOK, AllocOK
<1>4. HeapOK'
  BY <1>1, HeapUnchanged DEF HeapInv
<1>5. CASE BumpFits
  <2>1. h_pc' = "grow" /\ UNCHANGED <<h_arg, h_cursor, h_result>>
    BY <1>1, <1>5 DEF ReuseMiss
  <2>2. AllocOK' /\ BumpFits'
    BY <1>1, <1>5, <2>1
    DEF HeapInv, HeapCallOK, AllocOK, Reusable, AlignedSize, BumpFits, BumpEnd, PayloadStart
  <2>3. CallTyped' /\ WalkOnBlocks'
    BY <1>1, <2>1 DEF HeapInv, HeapCallOK, CallTyped, WalkOnBlocks
  <2> QED BY <1>1, <1>2, <1>3, <1>4, <2>1, <2>2, <2>3 DEF HeapInv, HeapCallOK
<1>6. CASE ~ BumpFits
  <2>1. HeapReturn("alloc", Null)
    BY <1>1, <1>6 DEF ReuseMiss
  <2>2. 0 \in 0 .. HEAP_END
    BY ConstantFacts
  <2> QED BY <1>1, <1>3, <1>4, <2>1, <2>2, ReturnOK DEF HeapInv, Null
<1> QED BY <1>5, <1>6

(* A page is mapped, or the call gives up.                                 *)
LEMMA GrowStepStep ==
    ASSUME HeapInv, NEW outcome \in GrowOutcomes, GrowStep(outcome)
    PROVE  /\ HeapInv' /\ UNCHANGED hdr
           /\ h_pc = "grow"
           /\ \/ UNCHANGED h_result
              \/ h_result' = [op |-> "alloc", arg |-> h_arg, value |-> Null]
<1>1. h_pc = "grow" /\ UNCHANGED hdr /\ kheap.is_initialized = 1
  BY DEF GrowStep, HeapInv, HeapCallOK
<1>2. CASE kheap.mapped_end_exclusive >= kheap.end_exclusive \/ outcome # "mapped"
  <2>1. HeapReturn("alloc", Null) /\ UNCHANGED kheap
    BY <1>2 DEF GrowStep
  <2>2. 0 \in 0 .. HEAP_END
    BY ConstantFacts
  <2>3. HeapOK'
    BY <1>1, <2>1, HeapUnchanged DEF HeapInv
  <2> QED BY <1>1, <2>1, <2>2, <2>3, ReturnOK DEF HeapInv, Null
<1>3. CASE ~ (kheap.mapped_end_exclusive >= kheap.end_exclusive \/ outcome # "mapped")
  <2>1. /\ kheap' = [kheap EXCEPT !.mapped_end_exclusive = @ + PAGE_SIZE]
        /\ UNCHANGED <<h_pc, h_arg, h_cursor, h_result>>
    BY <1>3 DEF GrowStep
  <2>2. HeapOK'
    BY <1>1, <1>3, <2>1, GrowChange, WindowFacts DEF HeapInv
  <2>3. /\ kheap'.current = kheap.current /\ kheap'.end_exclusive = kheap.end_exclusive
        /\ kheap'.is_initialized = 1
    BY <1>1, <2>1 DEF HeapInv, HeapOK, HeapTyped
  <2>4. AllocOK' /\ BumpFits' /\ h_cursor' = kheap'.current
    BY <1>1, <2>1, <2>3
    DEF HeapInv, HeapCallOK, AllocOK, Reusable, AlignedSize, BumpFits, BumpEnd, PayloadStart
  <2>5. CallTyped' /\ WalkOnBlocks'
    BY <1>1, <2>1 DEF HeapInv, HeapCallOK, CallTyped, WalkOnBlocks
  <2> QED BY <1>1, <2>1, <2>2, <2>3, <2>4, <2>5 DEF HeapInv, HeapCallOK
<1> QED BY <1>2, <1>3

(* The new block at the end of the chain lies in mapped pages.             *)
LEMMA BumpAllocStep ==
    ASSUME HeapInv, BumpAlloc
    PROVE  /\ HeapInv'
           /\ h_pc = "grow"
           /\ kheap.current \notin DOMAIN hdr
           /\ h_result' = [op |-> "alloc", arg |-> h_arg, value |-> kheap.current + HEADER_SIZE]
           /\ AllocatedHeaders' = AllocatedHeaders \cup {kheap.current}
           /\ hdr'[kheap.current].payload_size >= h_arg
           /\ \A k \in AllocatedHeaders : hdr'[k] = hdr[k]
<1>1. /\ h_pc = "grow" /\ ~ GrowPending /\ HeapReturn("alloc", PayloadStart(kheap.current))
      /\ kheap' = [kheap EXCEPT !.current = BumpEnd]
      /\ kheap.is_initialized = 1
  BY DEF BumpAlloc, HeapInv, HeapCallOK
<1>2. PICK c \in Nat : c = kheap.current
  BY <1>1, AllocFacts
<1>3. PICK n \in Nat : n = AlignedSize /\ n > 0 /\ n % MIN_ALIGNMENT = 0 /\ h_arg <= n
  BY <1>1, AllocFacts
<1>4. BumpEnd = c + HEADER_SIZE + n /\ BumpEnd \in Nat /\ h_arg \in Nat
  BY <1>1, <1>2, <1>3, AllocFacts, ConstantFacts
<1>5. c + HEADER_SIZE + n <= kheap.mapped_end_exclusive
  <2>1. BumpEnd <= AlignUp(BumpEnd, PAGE_SIZE) /\ AlignUp(BumpEnd, PAGE_SIZE) \in Nat
    BY <1>4, ConstantFacts, AlignUpFacts
  <2>2. kheap.mapped_end_exclusive \in Nat
    BY WindowFacts DEF HeapInv
  <2> QED BY <1>1, <1>4, <2>1, <2>2 DEF GrowPending
<1>6. /\ hdr' = [a \in DOMAIN hdr \cup {c} |->
                    IF a = c THEN Header(n, "allocated") ELSE hdr[a]]
      /\ kheap' = [kheap EXCEPT !.current = c + HEADER_SIZE + n]
  BY <1>1, <1>2, <1>3, <1>4 DEF BumpAlloc
<1>7. /\ HeapOK' /\ c \notin DOMAIN hdr
      /\ DOMAIN hdr' = DOMAIN hdr \cup {c}
      /\ hdr'[c] = Header(n, "allocated")
      /\ \A k \in DOMAIN hdr : hdr'[k] = hdr[k]
  BY <1>1, <1>2, <1>3, <1>5, <1>6, BumpChange DEF HeapInv
<1>8. AllocatedHeaders' = AllocatedHeaders \cup {c}
  BY <1>7 DEF AllocatedHeaders, Header
<1>9. \A k \in AllocatedHeaders : hdr'[k] = hdr[k]
  BY <1>7 DEF AllocatedHeaders
<1>10. hdr'[c].payload_size >= h_arg
  BY <1>3, <1>4, <1>7 DEF Header
<1>11. PayloadStart(kheap.current) \in 0 .. HEAP_END
       /\ PayloadStart(kheap.current) = c + HEADER_SIZE
  BY <1>2, <1>5, WindowFacts, ConstantFacts DEF HeapInv, PayloadStart
<1>12. HeapCallOK' /\ h_result' = [op |-> "alloc", arg |-> h_arg, value |-> c + HEADER_SIZE]
  BY <1>1, <1>11, ReturnOK DEF HeapInv
<1> QED BY <1>1, <1>2, <1>7, <1>8, <1>9, <1>10, <1>12 DEF HeapInv

(* Entering an allocation, or refusing it at once.                         *)
LEMMA AllocCallStep ==
    ASSUME HeapInv, NEW size \in Sizes, AllocCall(size)
    PROVE  /\ HeapInv' /\ UNCHANGED hdr
           /\ \/ UNCHANGED h_result
              \/ h_result' = [op |-> "alloc", arg |-> size, value |-> Null]
           /\ h_pc = "idle"
<1>1. h_pc = "idle" /\ UNCHANGED <<kheap, hdr>>
  BY DEF AllocCall
<1>2. HeapOK'
  BY <1>1, HeapUnchanged DEF HeapInv
<1>3. size \in 0 .. UINT32_MAX /\ 0 \in 0 .. HEAP_END
  BY KHeapAssumption, ConstantFacts
<1>4. CASE kheap.is_initialized = 0 \/ size = 0 \/ AlignUpFails(size, MIN_ALIGNMENT)
  <2>1. h_result' = [op |-> "alloc", arg |-> size, value |-> Null] /\ UNCHANGED <<h_pc, h_arg, h_cursor>>
    BY <1>4 DEF AllocCall
  <2>2. HeapCallOK'
    BY <1>1, <1>3, <2>1 DEF HeapInv, HeapCallOK, CallTyped, WalkOnBlocks, Null
  <2> QED BY <1>1, <1>2, <2>1, <2>2 DEF HeapInv
<1>5. CASE ~ (kheap.is_initialized = 0 \/ size = 0 \/ AlignUpFails(size, MIN_ALIGNMENT))
  <2>1. h_pc' = "reuse" /\ h_arg' = size /\ h_cursor' = kheap.start /\ UNCHANGED h_result
    BY <1>5 DEF AllocCall
  <2>2. kheap.is_initialized = 1 /\ kheap.start = HEAP_START
    BY <1>5 DEF HeapInv, HeapOK, HeapTyped, WindowOK
  <2>3. CallTyped'
    BY <1>3, <2>1, <2>2, ConstantFacts DEF HeapInv, HeapCallOK, CallTyped
  <2>4. kheap.start \in DOMAIN hdr \cup {kheap.current}
    BY WindowFacts DEF HeapInv, HeapOK, BlocksTile
  <2>5. \A h \in DOMAIN hdr : ~ (h < HEAP_START)
    BY BlockFacts, ConstantFacts DEF HeapInv
  <2>6. AllocOK'
    BY <1>1, <1>3, <1>5, <2>1, <2>2, <2>5 DEF AllocOK
  <2> QED BY <1>1, <1>2, <2>1, <2>2, <2>3, <2>4, <2>6 DEF HeapInv, HeapCallOK, WalkOnBlocks
<1> QED BY <1>4, <1>5

(* Entering a free, or refusing a pointer outside the blocks.              *)
LEMMA FreeCallStep ==
    ASSUME HeapInv, NEW p \in Pointers, FreeCall(p)
    PROVE  /\ HeapInv' /\ UNCHANGED hdr
           /\ \/ UNCHANGED h_result
              \/ /\ h_result' = [op |-> "free", arg |-> p, value |-> 0]
                 /\ \A h \in DOMAIN hdr : p # PayloadStart(h)
           /\ h_pc = "idle"
<1>1. h_pc = "idle" /\ UNCHANGED <<kheap, hdr>>
  BY DEF FreeCall
<1>2. HeapOK'
  BY <1>1, HeapUnchanged DEF HeapInv
<1>3. p \in 0 .. UINT32_MAX /\ 0 \in 0 .. HEAP_END /\ p \in Nat
  BY KHeapAssumption, ConstantFacts
<1> DEFINE Refused == \/ kheap.is_initialized = 0 \/ p = Null
                      \/ p < kheap.start \/ p >= kheap.current
<1>4. CASE Refused
  <2>1. h_result' = [op |-> "free", arg |-> p, value |-> 0] /\ UNCHANGED <<h_pc, h_arg, h_cursor>>
    BY <1>4 DEF FreeCall
  <2>2. HeapCallOK'
    BY <1>1, <1>3, <2>1 DEF HeapInv, HeapCallOK, CallTyped, WalkOnBlocks
  <2>3. ASSUME NEW h \in DOMAIN hdr PROVE p # PayloadStart(h)
    <3>1. kheap.is_initialized = 1 /\ kheap.start = HEAP_START
      BY BlockFacts DEF HeapInv, HeapOK, WindowOK
    <3>2. PayloadStart(h) \in Nat /\ PayloadStart(h) > HEAP_START /\ PayloadStart(h) < kheap.current
      BY BlockFacts, WindowFacts, ConstantFacts DEF HeapInv
    <3> QED BY <1>3, <1>4, <3>1, <3>2, WindowFacts, ConstantFacts DEF Null, HeapInv
  <2> QED BY <1>1, <1>2, <2>1, <2>2, <2>3 DEF HeapInv
<1>5. CASE ~ Refused
  <2>1. h_pc' = "free" /\ h_arg' = p /\ h_cursor' = kheap.start /\ UNCHANGED h_result
    BY <1>5 DEF FreeCall
  <2>2. kheap.is_initialized = 1 /\ kheap.start = HEAP_START
    BY <1>5 DEF HeapInv, HeapOK, HeapTyped, WindowOK
  <2>3. CallTyped'
    BY <1>3, <2>1, <2>2, ConstantFacts DEF HeapInv, HeapCallOK, CallTyped
  <2>4. kheap.start \in DOMAIN hdr \cup {kheap.current}
    BY WindowFacts DEF HeapInv, HeapOK, BlocksTile
  <2>5. \A h \in DOMAIN hdr : ~ (h < HEAP_START)
    BY BlockFacts, ConstantFacts DEF HeapInv
  <2>6. FreeOK'
    BY <1>1, <2>1, <2>2, <2>5 DEF FreeOK
  <2> QED BY <1>1, <1>2, <2>1, <2>2, <2>3, <2>4, <2>6 DEF HeapInv, HeapCallOK, WalkOnBlocks
<1> QED BY <1>4, <1>5

(* Payloads start at one header only.                                      *)
LEMMA OneHeader ==
    ASSUME HeapOK, NEW h \in DOMAIN hdr, NEW k \in DOMAIN hdr, PayloadStart(h) = PayloadStart(k)
    PROVE  h = k
BY BlockFacts, ConstantFacts

(* The walk of a free found the block.                                     *)
LEMMA FreeHitStep ==
    ASSUME HeapInv, FreeHit
    PROVE  /\ HeapInv'
           /\ h_pc = "free" /\ h_arg \in Pointers
           /\ h_cursor \in DOMAIN hdr /\ h_arg = PayloadStart(h_cursor)
           /\ \/ /\ hdr[h_cursor].state = "allocated"
                 /\ h_result' = [op |-> "free", arg |-> h_arg, value |-> 1]
                 /\ AllocatedHeaders' = AllocatedHeaders \ {h_cursor}
                 /\ \A k \in DOMAIN hdr : hdr'[k].payload_size = hdr[k].payload_size
              \/ /\ hdr[h_cursor].state = "freed"
                 /\ h_result' = [op |-> "free", arg |-> h_arg, value |-> 0]
                 /\ UNCHANGED hdr
<1>1. /\ h_pc = "free" /\ h_cursor \in DOMAIN hdr /\ h_arg = PayloadStart(h_cursor)
      /\ UNCHANGED kheap /\ h_arg \in Pointers
  BY DEF FreeHit, HeaderValid, HeapInv, HeapCallOK, FreeOK
<1>2. 0 \in 0 .. HEAP_END /\ 1 \in 0 .. HEAP_END
  BY ConstantFacts
<1>3. CASE hdr[h_cursor].state = "allocated"
  <2>1. PICK c \in DOMAIN hdr : c = h_cursor
    BY <1>1
  <2>2. hdr' = [hdr EXCEPT ![c].state = "freed"] /\ HeapReturn("free", 1)
    BY <1>3, <2>1 DEF FreeHit
  <2>3. /\ HeapOK' /\ DOMAIN hdr' = DOMAIN hdr /\ hdr'[c].state = "freed"
        /\ \A k \in DOMAIN hdr : hdr'[k].payload_size = hdr[k].payload_size
        /\ \A k \in DOMAIN hdr : k # c => hdr'[k] = hdr[k]
    BY <1>1, <2>2, StateChange DEF HeapInv
  <2>4. AllocatedHeaders' = AllocatedHeaders \ {c}
    BY <2>3 DEF AllocatedHeaders
  <2>5. HeapCallOK' /\ h_result' = [op |-> "free", arg |-> h_arg, value |-> 1]
    BY <1>2, <2>2, ReturnOK DEF HeapInv
  <2> QED BY <1>1, <1>3, <2>1, <2>3, <2>4, <2>5 DEF HeapInv
<1>4. CASE hdr[h_cursor].state # "allocated"
  <2>1. UNCHANGED hdr /\ HeapReturn("free", 0)
    BY <1>4 DEF FreeHit
  <2>2. hdr[h_cursor].state = "freed"
    BY <1>1, <1>4, BlockFacts DEF HeapInv
  <2>3. HeapOK'
    BY <1>1, <2>1, HeapUnchanged DEF HeapInv
  <2>4. HeapCallOK' /\ h_result' = [op |-> "free", arg |-> h_arg, value |-> 0]
    BY <1>2, <2>1, ReturnOK DEF HeapInv
  <2> QED BY <1>1, <2>1, <2>2, <2>3, <2>4 DEF HeapInv
<1> QED BY <1>3, <1>4

(* A free that fails, on an interior pointer or at the end of the walk,    *)
(* had no block to free.                                                   *)
LEMMA FreeFailStep ==
    ASSUME HeapInv, FreeInterior \/ FreeMiss
    PROVE  /\ HeapInv' /\ UNCHANGED hdr
           /\ h_pc = "free" /\ h_arg \in Pointers
           /\ h_result' = [op |-> "free", arg |-> h_arg, value |-> 0]
           /\ \A h \in DOMAIN hdr : h_arg # PayloadStart(h)
<1>1. h_pc = "free" /\ h_arg \in Pointers /\ UNCHANGED <<kheap, hdr>> /\ HeapReturn("free", 0)
  BY DEF FreeInterior, FreeMiss, HeapInv, HeapCallOK, FreeOK
<1>2. HeapOK'
  BY <1>1, HeapUnchanged DEF HeapInv
<1>3. HeapCallOK' /\ h_result' = [op |-> "free", arg |-> h_arg, value |-> 0]
  BY <1>1, ConstantFacts, ReturnOK DEF HeapInv
<1>4. \A h \in DOMAIN hdr : h < h_cursor => h_arg # PayloadStart(h)
  BY <1>1 DEF HeapInv, HeapCallOK, FreeOK
<1>5. CASE FreeInterior
  <2>1. /\ h_cursor < kheap.current /\ h_cursor \in DOMAIN hdr
        /\ h_arg > PayloadStart(h_cursor) /\ h_arg < PayloadEnd(h_cursor)
    BY <1>5 DEF FreeInterior, HeaderValid, InteriorOf
  <2>2. ASSUME NEW h \in DOMAIN hdr, h_arg = PayloadStart(h) PROVE FALSE
    <3>1. h <= h_cursor
      BY <1>1, <2>1, <2>2, WalkNext, BlockFacts, ConstantFacts DEF HeapInv
    <3> QED BY <1>4, <2>1, <2>2, <3>1, BlockFacts, ConstantFacts DEF HeapInv
  <2> QED BY <1>1, <1>2, <1>3, <2>2 DEF HeapInv
<1>6. CASE FreeMiss
  <2>1. h_cursor = kheap.current
    BY <1>1, <1>6, WalkFacts DEF FreeMiss
  <2>2. \A h \in DOMAIN hdr : h < h_cursor
    BY <2>1, BlockFacts DEF HeapInv
  <2> QED BY <1>1, <1>2, <1>3, <1>4, <2>2 DEF HeapInv
<1> QED BY <1>5, <1>6

(* The walk of a free passes a block.                                      *)
LEMMA FreeNextStep ==
    ASSUME HeapInv, FreeNext
    PROVE  HeapInv' /\ UNCHANGED <<hdr, h_result>> /\ h_pc = "free"
<1>1. /\ h_pc = "free" /\ h_cursor < kheap.current
      /\ h_arg # PayloadStart(h_cursor)
      /\ h_cursor' = PayloadEnd(h_cursor)
      /\ UNCHANGED <<kheap, hdr, h_pc, h_arg, h_result>>
  BY DEF FreeNext
<1>2. HeapOK'
  BY <1>1, HeapUnchanged DEF HeapInv
<1>3. CallTyped' /\ WalkOnBlocks'
  BY <1>1, WalkNext DEF HeapInv, HeapCallOK, CallTyped, WalkOnBlocks
<1>4. FreeOK'
  <2>1. \A h \in DOMAIN hdr : h < PayloadEnd(h_cursor) => h_arg # PayloadStart(h)
    <3>1. \A h \in DOMAIN hdr : h < PayloadEnd(h_cursor) => h <= h_cursor /\ h \in Nat
      BY <1>1, WalkNext, BlockFacts DEF HeapInv
    <3>2. \A h \in DOMAIN hdr : h < h_cursor => h_arg # PayloadStart(h)
      BY <1>1 DEF HeapInv, HeapCallOK, FreeOK
    <3>3. h_cursor \in Nat
      BY <1>1, WalkFacts
    <3> QED BY <1>1, <3>1, <3>2, <3>3
  <2>2. h_arg \in Pointers
    BY <1>1 DEF HeapInv, HeapCallOK, FreeOK
  <2> QED BY <1>1, <2>1, <2>2 DEF FreeOK, PayloadStart
<1>5. kheap.is_initialized = 1
  BY <1>1, WalkFacts
<1> QED BY <1>1, <1>2, <1>3, <1>4, <1>5 DEF HeapInv, HeapCallOK

-----------------------------------------------------------------------------
(* The heap starts as a zero record.                                       *)
LEMMA HeapInitInv == HeapInit => HeapInv
<1> SUFFICES ASSUME HeapInit PROVE HeapInv
  OBVIOUS
<1>1. DOMAIN hdr = {}
  BY DEF HeapInit
<1>2. HeapOK
  BY <1>1, ConstantFacts DEF HeapInit, HeapOK, HeapTyped, WindowOK, BlocksTile
<1>3. HeapCallOK
  BY ConstantFacts DEF HeapInit, HeapCallOK, CallTyped, WalkOnBlocks, NoResult
<1> QED BY <1>2, <1>3 DEF HeapInv

(* bootstrap_init between two calls.                                       *)
LEMMA BootstrapStep ==
    ASSUME HeapInv, stage8c_kheap_bootstrap_init
    PROVE  HeapInv' /\ h_pc = "idle" /\ UNCHANGED <<hdr, h_pc, h_result>>
<1>1. h_pc = "idle" /\ UNCHANGED <<hdr, h_pc, h_arg, h_cursor, h_result>>
  BY DEF stage8c_kheap_bootstrap_init
<1>2. HeapOK'
  BY BootstrapChange DEF HeapInv
<1>3. HeapCallOK'
  BY <1>1 DEF HeapInv, HeapCallOK, CallTyped, WalkOnBlocks
<1> QED BY <1>1, <1>2, <1>3 DEF HeapInv

(* A step that changes nothing.                                            *)
LEMMA HeapStutter ==
    ASSUME HeapInv, UNCHANGED heap_vars
    PROVE  HeapInv'
BY DEF heap_vars, HeapInv, HeapOK, HeapTyped, WindowOK, BlocksTile, HeaderValid, PayloadStart, PayloadEnd,
       HeapCallOK, CallTyped, WalkOnBlocks, AllocOK, FreeOK, Reusable, AlignedSize, BumpFits, BumpEnd

(* Every step of every call preserves the invariant.                       *)
LEMMA HeapNextInv ==
    ASSUME HeapInv, [HeapNext]_heap_vars
    PROVE  HeapInv'
BY BootstrapStep, AllocCallStep, FreeCallStep, ReuseHitStep, ReuseNextStep, ReuseMissStep,
   GrowStepStep, BumpAllocStep, FreeHitStep, FreeFailStep, FreeNextStep, HeapStutter
DEF HeapNext, AllocStep, FreeStep

(* The inductive invariant holds throughout.                               *)
THEOREM HeapInvariant == HeapBehaviour => []HeapInv
BY HeapInitInv, HeapNextInv, PTL DEF HeapBehaviour

(* Every header and payload lies in mapped pages, also after a growth that *)
(* failed half-way, and the mapped part never passes the window.           *)
LEMMA BlocksStayMapped == HeapInv => BlocksMapped
<1> SUFFICES ASSUME HeapInv PROVE BlocksMapped
  OBVIOUS
<1>1. kheap.mapped_end_exclusive % PAGE_SIZE = 0
  BY ConstantFacts DEF HeapInv, HeapOK, WindowOK
<1> QED BY <1>1, WindowFacts DEF HeapInv, BlocksMapped

(* The chain of blocks is never broken: after any sequence of kmalloc and  *)
(* kfree, with any failures of growth, the blocks tile the window from its *)
(* start to current, all of it is mapped, and no walk meets a header that  *)
(* does not look like one.                                                 *)
THEOREM HeapStaysIntact == HeapBehaviour => []HeapIntact
<1>1. HeapInv => HeapTypeOK /\ BlocksTile /\ WalkOnBlocks
  BY DEF HeapInv, HeapOK, HeapTyped, HeapCallOK, CallTyped, HeapTypeOK
<1>2. HeapInv => HeapIntact
  BY <1>1, BlocksStayMapped DEF HeapIntact
<1> QED BY <1>2, HeapInvariant, PTL

(* The reuse walk takes the lowest freed block that is large enough, and   *)
(* the heap grows or refuses only when there is none.                      *)
THEOREM ReuseIsFirstFit == HeapBehaviour => FirstFit
<1> DEFINE fits == {h \in DOMAIN hdr : Reusable(h)}
           FirstFitStep ==
                h_pc = "reuse" /\ h_pc' # "reuse" =>
                    IF fits = {}
                    THEN h_pc' = "grow" \/ h_result'.value = Null
                    ELSE /\ h_pc' = "idle" /\ h_result'.value # Null
                         /\ h_result'.value - HEADER_SIZE \in fits
                         /\ \A h \in fits : h_result'.value - HEADER_SIZE <= h
<1>1. ASSUME HeapInv, [HeapNext]_heap_vars, h_pc = "reuse", h_pc' # "reuse"
      PROVE  FirstFitStep
  <2>1. CASE ReuseHit
    <3>1. /\ h_cursor \in DOMAIN hdr /\ h_pc' = "idle"
          /\ h_result'.value = h_cursor + HEADER_SIZE
      BY <1>1, <2>1, ReuseHitStep
    <3>2. h_cursor \in fits
      BY <2>1, <3>1 DEF ReuseHit
    <3>3. \A h \in fits : h \in Nat /\ h_cursor <= h
      <4>1. \A h \in DOMAIN hdr : h < h_cursor => ~ Reusable(h)
        BY <1>1 DEF HeapInv, HeapCallOK, AllocOK
      <4>2. h_cursor \in Nat
        BY <1>1, WalkFacts
      <4> QED BY <1>1, <4>1, <4>2, BlockFacts DEF HeapInv
    <3>4. h_cursor \in Nat
      BY <1>1, WalkFacts
    <3>5. h_result'.value # Null /\ h_result'.value - HEADER_SIZE = h_cursor
      BY <3>1, <3>4, ConstantFacts DEF Null
    <3> QED BY <3>1, <3>2, <3>3, <3>5
  <2>2. CASE ReuseMiss
    <3>1. fits = {} /\ (h_pc' = "grow" \/ h_result'.value = Null)
      BY <1>1, <2>2, ReuseMissStep
    <3> QED BY <3>1
  <2>3. ReuseHit \/ ReuseMiss
    BY <1>1, ReuseNextStep
    DEF HeapNext, heap_vars, AllocStep, FreeStep, stage8c_kheap_bootstrap_init, AllocCall, FreeCall,
        GrowStep, BumpAlloc, FreeHit, FreeInterior, FreeNext, FreeMiss
  <2> QED BY <2>1, <2>2, <2>3
<1>2. ASSUME HeapInv, [HeapNext]_heap_vars PROVE FirstFitStep
  BY <1>1, <1>2
<1> QED BY <1>2, HeapInvariant, PTL DEF HeapBehaviour, FirstFit

-----------------------------------------------------------------------------
(* The live blocks are the payloads of the allocated headers.              *)
LEMMA LiveFacts ==
    ASSUME HeapOK
    PROVE  /\ DOMAIN Live = {PayloadStart(h) : h \in AllocatedHeaders}
           /\ \A h \in AllocatedHeaders : Live[PayloadStart(h)] = hdr[h].payload_size
<1>1. \A h \in AllocatedHeaders : PayloadStart(h) - HEADER_SIZE = h
  BY BlockFacts, ConstantFacts DEF AllocatedHeaders
<1> QED BY <1>1 DEF Live

(* Headers that did not change give the same live blocks.                  *)
LEMMA LiveUnchanged ==
    ASSUME UNCHANGED hdr
    PROVE  Live' = Live
BY DEF Live, AllocatedHeaders, PayloadStart

(* A header that becomes allocated grants a block of the contract.         *)
LEMMA GrantStep ==
    ASSUME HeapOK, HeapOK', h_arg \in Nat, h_arg > 0, NEW h, h \in AllocatedHeaders',
           h \notin AllocatedHeaders,
           AllocatedHeaders' = AllocatedHeaders \cup {h},
           hdr'[h].payload_size >= h_arg,
           \A k \in AllocatedHeaders : hdr'[k] = hdr[k],
           h_result' = [op |-> "alloc", arg |-> h_arg, value |-> h + HEADER_SIZE]
    PROVE  /\ Allocator!Grant(h_arg, h + HEADER_SIZE)
           /\ h + HEADER_SIZE \in HEAP_START .. HEAP_END - 1
<1> DEFINE p == h + HEADER_SIZE
           n == hdr'[h].payload_size
<1>1. /\ h \in Nat /\ HEAP_START <= h
      /\ n \in Nat /\ n > 0
      /\ h \in DOMAIN hdr'
      /\ p % MIN_ALIGNMENT = 0
      /\ h + HEADER_SIZE + n <= kheap'.current
      /\ kheap'.current <= HEAP_END /\ kheap'.current \in Nat
  <2>1. h \in DOMAIN hdr'
    BY DEF AllocatedHeaders
  <2>2. HeapTyped' /\ WindowOK' /\ BlocksTile'
    BY DEF HeapOK
  <2>3. /\ h \in Nat /\ HEAP_START <= h /\ n \in Nat
        /\ kheap'.current \in Nat /\ kheap'.current <= HEAP_END
    BY <2>1, <2>2, ConstantFacts DEF HeapTyped
  <2>4. HeaderValid(h)' /\ PayloadStart(h)' % MIN_ALIGNMENT = 0
    BY <2>1, <2>2 DEF BlocksTile
  <2> QED BY <2>1, <2>3, <2>4, ConstantFacts DEF HeaderValid, PayloadStart
<1>2. /\ HEADER_SIZE \in Nat \ {0} /\ HEAP_START \in Nat /\ HEAP_END \in Nat
  BY ConstantFacts
<1>3. p \in Nat /\ HEAP_START <= p /\ p + n <= HEAP_END
  BY <1>1, <1>2
<1>4. n \in h_arg .. HEAP_END - HEAP_START
  BY <1>1, <1>2, <1>3
<1>5. Live' = [q \in DOMAIN Live \cup {p} |-> IF q = p THEN n ELSE Live[q]]
  <2>1. \A k \in AllocatedHeaders : k \in Nat
    BY BlockFacts DEF AllocatedHeaders
  <2>2. DOMAIN Live = {k + HEADER_SIZE : k \in AllocatedHeaders}
    BY LiveFacts DEF PayloadStart
  <2>3. Live' = [q \in {k + HEADER_SIZE : k \in AllocatedHeaders \cup {h}} |->
                    hdr'[q - HEADER_SIZE].payload_size]
    BY DEF Live, PayloadStart
  <2>4. {k + HEADER_SIZE : k \in AllocatedHeaders \cup {h}} = DOMAIN Live \cup {p}
    BY <2>2
  <2>5. ASSUME NEW q \in DOMAIN Live \cup {p}
        PROVE  hdr'[q - HEADER_SIZE].payload_size = IF q = p THEN n ELSE Live[q]
    <3>1. CASE q = p
      BY <1>1, <1>2, <3>1
    <3>2. CASE q # p
      <4>1. PICK k \in AllocatedHeaders : q = k + HEADER_SIZE
        BY <2>2, <2>5, <3>2
      <4>2. q - HEADER_SIZE = k
        BY <1>2, <2>1, <4>1
      <4>3. Live[q] = hdr[k].payload_size
        BY <4>1, LiveFacts DEF PayloadStart
      <4> QED BY <3>2, <4>2, <4>3
    <3> QED BY <3>1, <3>2
  <2> QED BY <2>3, <2>4, <2>5
<1>6. \A x \in p .. p + n - 1 : x \in HEAP_START .. HEAP_END - 1
  BY <1>1, <1>2, <1>3
<1>7. ASSUME NEW q \in DOMAIN Live
      PROVE  (p .. p + n - 1) \cap (q .. q + Live[q] - 1) = {}
  <2>1. PICK k \in AllocatedHeaders : q = k + HEADER_SIZE /\ Live[q] = hdr[k].payload_size
    BY LiveFacts DEF PayloadStart
  <2>2. /\ k \in DOMAIN hdr' /\ k # h /\ k \in Nat /\ hdr'[k] = hdr[k]
        /\ hdr[k].payload_size \in Nat
    BY BlockFacts DEF AllocatedHeaders
  <2>3. /\ k < h => k + HEADER_SIZE + hdr[k].payload_size <= h
        /\ h < k => h + HEADER_SIZE + n <= k
    <3>1. \A i, j \in DOMAIN hdr' : i < j => PayloadEnd(i)' <= j
      BY DEF HeapOK, BlocksTile
    <3>2. /\ PayloadEnd(k)' = k + HEADER_SIZE + hdr[k].payload_size
          /\ PayloadEnd(h)' = h + HEADER_SIZE + n
      BY <2>2 DEF PayloadEnd, PayloadStart
    <3> QED BY <1>1, <2>2, <3>1, <3>2
  <2>4. p + n <= q \/ q + Live[q] <= p
    BY <1>1, <1>2, <2>1, <2>2, <2>3
  <2>5. q \in Nat /\ Live[q] \in Nat
    BY <1>2, <2>1, <2>2
  <2> QED BY <1>1, <1>3, <2>4, <2>5
<1> HIDE DEF p, n
<1>8. Allocator!Grant(h_arg, p)
  <2>1. h_result' = [op |-> "alloc", arg |-> h_arg, value |-> p] /\ p % MIN_ALIGNMENT = 0
    BY <1>1 DEF p
  <2>2. \E m \in h_arg .. HEAP_END - HEAP_START :
            /\ Live' = [q \in DOMAIN Live \cup {p} |-> IF q = p THEN m ELSE Live[q]]
            /\ Allocator!Block(p, m) \subseteq HEAP_START .. HEAP_END - 1
            /\ \A q \in DOMAIN Live : Allocator!Block(p, m) \cap Allocator!Block(q, Live[q]) = {}
    BY <1>4, <1>5, <1>6, <1>7 DEF Allocator!Block
  <2> QED BY <2>1, <2>2 DEF Allocator!Grant
<1> QED BY <1>1, <1>2, <1>3, <1>8 DEF p

(* A freed header releases its block, and only it.                         *)
LEMMA ReleaseStep ==
    ASSUME HeapOK, HeapOK', NEW h, h \in AllocatedHeaders, h_arg = PayloadStart(h),
           AllocatedHeaders' = AllocatedHeaders \ {h},
           \A k \in DOMAIN hdr : hdr'[k].payload_size = hdr[k].payload_size,
           h_result' = [op |-> "free", arg |-> h_arg, value |-> 1]
    PROVE  Allocator!Release(h_arg)
<1>1. HEADER_SIZE \in Nat \ {0}
  BY ConstantFacts
<1>2. \A k \in AllocatedHeaders : k \in Nat /\ k \in DOMAIN hdr
  BY BlockFacts DEF AllocatedHeaders
<1>3. DOMAIN Live = {k + HEADER_SIZE : k \in AllocatedHeaders}
  BY LiveFacts DEF PayloadStart
<1>4. h_arg \in DOMAIN Live /\ h_arg = h + HEADER_SIZE
  BY <1>3 DEF PayloadStart
<1>5. {k + HEADER_SIZE : k \in AllocatedHeaders \ {h}} = DOMAIN Live \ {h_arg}
  BY <1>1, <1>2, <1>3, <1>4
<1>6. Live' = [q \in DOMAIN Live \ {h_arg} |-> hdr'[q - HEADER_SIZE].payload_size]
  BY <1>5 DEF Live, PayloadStart
<1>7. ASSUME NEW q \in DOMAIN Live \ {h_arg}
      PROVE  hdr'[q - HEADER_SIZE].payload_size = Live[q]
  <2>1. PICK k \in AllocatedHeaders : q = k + HEADER_SIZE
    BY <1>3
  <2>2. q - HEADER_SIZE = k /\ Live[q] = hdr[k].payload_size
    BY <1>1, <1>2, <2>1, LiveFacts DEF PayloadStart
  <2> QED BY <1>2, <2>2
<1>8. Live' = [q \in DOMAIN Live \ {h_arg} |-> Live[q]]
  BY <1>6, <1>7
<1> QED BY <1>4, <1>8 DEF Allocator!Release

(* A pointer that starts no allocated block is rejected by the contract.   *)
LEMMA RejectStep ==
    ASSUME HeapOK, UNCHANGED hdr, NEW p,
           \A h \in AllocatedHeaders : p # PayloadStart(h),
           h_result' = [op |-> "free", arg |-> p, value |-> 0]
    PROVE  Allocator!Reject(p)
BY LiveFacts, LiveUnchanged DEF Allocator!Reject

(* A step that returns Null from kmalloc is a refusal of the contract.     *)
LEMMA RefuseStep ==
    ASSUME UNCHANGED hdr, NEW size, h_result' = [op |-> "alloc", arg |-> size, value |-> Null]
    PROVE  Allocator!Refuse(size)
BY LiveUnchanged DEF Allocator!Refuse, Allocator!Null, Null

(* Every step of the heap is a step of the contract or changes nothing a   *)
(* caller can see.                                                         *)
LEMMA ContractStep ==
    ASSUME HeapInv, [HeapNext]_heap_vars
    PROVE  [Allocator!Next]_<<Live, h_result>>
<1> DEFINE Hidden == UNCHANGED <<hdr, h_result>>
           Abstract == [Allocator!Next]_<<Live, h_result>>
<1>1. Hidden => Abstract
  BY LiveUnchanged
<1>2. ASSUME NEW size \in Sizes, Allocator!Refuse(size) PROVE Abstract
  BY <1>2 DEF Allocator!Next
<1>3. ASSUME NEW size \in Sizes, NEW q \in HEAP_START .. HEAP_END - 1, Allocator!Grant(size, q)
      PROVE  Abstract
  BY <1>3 DEF Allocator!Next
<1>4. ASSUME NEW q \in Pointers, Allocator!Release(q) \/ Allocator!Reject(q) PROVE Abstract
  BY <1>4 DEF Allocator!Next
<1> SUFFICES Abstract
  OBVIOUS
<1> HIDE DEF Abstract
<1>5. CASE stage8c_kheap_bootstrap_init
  BY <1>1, <1>5, BootstrapStep
<1>6. ASSUME NEW size \in Sizes, AllocCall(size) PROVE Abstract
  BY <1>1, <1>2, <1>6, AllocCallStep, RefuseStep
<1>7. ASSUME NEW q \in Pointers, FreeCall(q) PROVE Abstract
  <2>1. CASE h_result' = h_result
    BY <1>1, <1>7, <2>1, FreeCallStep
  <2>2. CASE h_result' # h_result
    <3>1. /\ UNCHANGED hdr /\ h_result' = [op |-> "free", arg |-> q, value |-> 0]
          /\ \A h \in AllocatedHeaders : q # PayloadStart(h)
      BY <1>7, <2>2, FreeCallStep DEF AllocatedHeaders
    <3>2. Allocator!Reject(q)
      BY <3>1, RejectStep DEF HeapInv
    <3> QED BY <1>4, <3>2
  <2> QED BY <2>1, <2>2
<1>8. CASE ReuseHit
  <2>1. h_pc = "reuse" /\ h_cursor < kheap.current
    BY <1>8 DEF ReuseHit
  <2>2. PICK h \in DOMAIN hdr : h = h_cursor
    BY <1>8, ReuseHitStep
  <2>3. /\ HeapOK' /\ HeapOK /\ hdr[h].state = "freed"
        /\ AllocatedHeaders' = AllocatedHeaders \cup {h}
        /\ hdr'[h].payload_size >= h_arg
        /\ \A k \in AllocatedHeaders : hdr'[k] = hdr[k]
        /\ h_result' = [op |-> "alloc", arg |-> h_arg, value |-> h + HEADER_SIZE]
    BY <1>8, <2>2, ReuseHitStep DEF HeapInv
  <2>4. h \notin AllocatedHeaders
    BY <2>3 DEF AllocatedHeaders
  <2>5. h_arg \in Sizes /\ h_arg \in Nat /\ h_arg > 0
    BY <2>1, AllocFacts
  <2>6. Allocator!Grant(h_arg, h + HEADER_SIZE) /\ h + HEADER_SIZE \in HEAP_START .. HEAP_END - 1
    BY <2>3, <2>4, <2>5, GrantStep
  <2> QED BY <1>3, <2>5, <2>6
<1>9. CASE ReuseNext
  BY <1>1, <1>9, ReuseNextStep
<1>10. CASE ReuseMiss
  <2>1. h_arg \in Sizes
    BY <1>10, AllocFacts DEF ReuseMiss
  <2> QED BY <1>1, <1>2, <1>10, <2>1, ReuseMissStep, RefuseStep
<1>11. ASSUME NEW outcome \in GrowOutcomes, GrowStep(outcome) PROVE Abstract
  <2>1. h_arg \in Sizes
    BY <1>11, AllocFacts DEF GrowStep
  <2> QED BY <1>1, <1>2, <1>11, <2>1, GrowStepStep, RefuseStep
<1>12. CASE BumpAlloc
  <2>1. h_arg \in Sizes /\ h_arg \in Nat /\ h_arg > 0 /\ kheap.current \in Nat
    BY <1>12, AllocFacts DEF BumpAlloc
  <2>2. PICK h \in Nat : h = kheap.current
    BY <2>1
  <2>3. /\ HeapOK' /\ HeapOK /\ h \notin DOMAIN hdr
        /\ AllocatedHeaders' = AllocatedHeaders \cup {h}
        /\ hdr'[h].payload_size >= h_arg
        /\ \A k \in AllocatedHeaders : hdr'[k] = hdr[k]
        /\ h_result' = [op |-> "alloc", arg |-> h_arg, value |-> h + HEADER_SIZE]
    BY <1>12, <2>2, BumpAllocStep DEF HeapInv
  <2>4. h \notin AllocatedHeaders
    BY <2>3 DEF AllocatedHeaders
  <2>5. Allocator!Grant(h_arg, h + HEADER_SIZE) /\ h + HEADER_SIZE \in HEAP_START .. HEAP_END - 1
    BY <2>1, <2>3, <2>4, GrantStep
  <2> QED BY <1>3, <2>1, <2>5
<1>13. CASE FreeHit
  <2>1. PICK h \in DOMAIN hdr : h = h_cursor
    BY <1>13, FreeHitStep
  <2>2. HeapOK /\ HeapOK' /\ h_arg \in Pointers /\ h_arg = PayloadStart(h)
    BY <1>13, <2>1, FreeHitStep DEF HeapInv
  <2>3. CASE hdr[h].state = "allocated"
    <3>1. /\ h \in AllocatedHeaders
          /\ AllocatedHeaders' = AllocatedHeaders \ {h}
          /\ \A k \in DOMAIN hdr : hdr'[k].payload_size = hdr[k].payload_size
          /\ h_result' = [op |-> "free", arg |-> h_arg, value |-> 1]
      BY <1>13, <2>1, <2>3, FreeHitStep DEF AllocatedHeaders
    <3>2. Allocator!Release(h_arg)
      BY <2>2, <3>1, ReleaseStep
    <3> QED BY <1>4, <2>2, <3>2
  <2>4. CASE hdr[h].state # "allocated"
    <3>1. UNCHANGED hdr /\ h_result' = [op |-> "free", arg |-> h_arg, value |-> 0]
      BY <1>13, <2>1, <2>4, FreeHitStep
    <3>2. \A k \in AllocatedHeaders : h_arg # PayloadStart(k)
      BY <2>2, <2>4, OneHeader DEF AllocatedHeaders
    <3>3. Allocator!Reject(h_arg)
      BY <2>2, <3>1, <3>2, RejectStep
    <3> QED BY <1>4, <2>2, <3>3
  <2> QED BY <2>3, <2>4
<1>14. CASE FreeInterior \/ FreeMiss
  <2>1. /\ UNCHANGED hdr /\ h_arg \in Pointers
        /\ h_result' = [op |-> "free", arg |-> h_arg, value |-> 0]
        /\ \A k \in AllocatedHeaders : h_arg # PayloadStart(k)
    BY <1>14, FreeFailStep DEF AllocatedHeaders
  <2>2. Allocator!Reject(h_arg)
    BY <2>1, RejectStep DEF HeapInv
  <2> QED BY <1>4, <2>1, <2>2
<1>15. CASE FreeNext
  BY <1>1, <1>15, FreeNextStep
<1>16. CASE UNCHANGED heap_vars
  BY <1>1, <1>16 DEF heap_vars
<1> QED
  BY <1>5, <1>6, <1>7, <1>8, <1>9, <1>10, <1>11, <1>12, <1>13, <1>14, <1>15, <1>16
  DEF HeapNext, AllocStep, FreeStep

(* kmalloc and kfree implement the contract of HeapContract: a granted     *)
(* block is aligned, inside the window, large enough and disjoint from     *)
(* every live block, and a free succeeds exactly on the address of a live  *)
(* block.                                                                  *)
THEOREM HeapMeetsContract == HeapBehaviour => ImplementsContract
<1>1. HeapInit => Allocator!Init
  <2> SUFFICES ASSUME HeapInit PROVE Allocator!Init
    OBVIOUS
  <2>1. AllocatedHeaders = {}
    BY DEF HeapInit, AllocatedHeaders
  <2>2. Live = [p \in {} |-> 0]
    BY <2>1 DEF Live
  <2> QED BY <2>2 DEF HeapInit, Allocator!Init, Allocator!NoResult, NoResult
<1>2. HeapInv /\ [HeapNext]_heap_vars => [Allocator!Next]_<<Live, h_result>>
  BY ContractStep
<1> QED BY <1>1, <1>2, HeapInvariant, PTL DEF HeapBehaviour, ImplementsContract, Allocator!Spec
-----------------------------------------------------------------------------
(* The loops end.                                                          *)
LEMMA StepsLeftNat ==
    ASSUME HeapInv
    PROVE  HeapStepsLeft \in Nat /\ (h_pc # "idle" => HeapStepsLeft > 0)
<1>1. h_pc \in {"idle", "reuse", "grow", "free"} /\ h_cursor \in 0 .. HEAP_END
  BY DEF HeapInv, HeapCallOK, CallTyped
<1>2. kheap.mapped_end_exclusive \in Nat /\ kheap.mapped_end_exclusive <= HEAP_END
  BY WindowFacts DEF HeapInv
<1> QED BY <1>1, <1>2, ConstantFacts DEF HeapStepsLeft

(* A walk moves up, a growth step moves the limit up, and every other step *)
(* of a call ends it or ends its walk.                                     *)
LEMMA HeapProgress ==
    ASSUME HeapInv, HeapNext, h_pc # "idle"
    PROVE  HeapStepsLeft' \in 0 .. HeapStepsLeft - 1
<1>0. /\ h_pc' \in {"idle", "reuse", "grow", "free"} /\ h_cursor' \in 0 .. HEAP_END
      /\ kheap'.mapped_end_exclusive \in 0 .. HEAP_END
  <2>1. HeapInv'
    BY HeapNextInv
  <2> QED BY <2>1 DEF HeapInv, HeapOK, HeapTyped, HeapCallOK, CallTyped
<1>1. /\ HeapStepsLeft \in Nat /\ HeapStepsLeft > 0 /\ HeapStepsLeft' \in Nat
      /\ HEAP_END \in Nat /\ PAGE_SIZE \in Nat \ {0}
  <2>1. HeapStepsLeft \in Nat /\ HeapStepsLeft > 0
    BY StepsLeftNat
  <2>2. HEAP_END \in Nat /\ PAGE_SIZE \in Nat \ {0}
    BY ConstantFacts
  <2>3. HeapStepsLeft' \in Nat
    BY <1>0, <2>2 DEF HeapStepsLeft
  <2> QED BY <2>1, <2>2, <2>3
<1> SUFFICES HeapStepsLeft' < HeapStepsLeft
  BY <1>1
<1>2. ASSUME h_pc' = "idle" PROVE HeapStepsLeft' < HeapStepsLeft
  BY <1>1, <1>2 DEF HeapStepsLeft
<1>3. ASSUME h_pc \in {"reuse", "free"}, h_pc' = h_pc, h_cursor < kheap.current,
             h_cursor' = PayloadEnd(h_cursor)
      PROVE  HeapStepsLeft' < HeapStepsLeft
  <2>1. h_cursor \in DOMAIN hdr
    BY <1>3, WalkFacts
  <2>2. h_cursor \in Nat /\ PayloadEnd(h_cursor) \in Nat /\ h_cursor < PayloadEnd(h_cursor)
    BY <2>1, BlockFacts, ConstantFacts DEF HeapInv
  <2> QED BY <1>1, <1>3, <2>2 DEF HeapStepsLeft
<1>4. CASE ReuseHit \/ BumpAlloc \/ FreeHit \/ FreeInterior \/ FreeMiss
  BY <1>2, <1>4 DEF ReuseHit, BumpAlloc, FreeHit, FreeInterior, FreeMiss, HeapReturn
<1>5. CASE ReuseNext
  <2>1. h_pc = "reuse" /\ h_cursor < kheap.current
    BY <1>5 DEF ReuseNext
  <2>2. HeaderValid(h_cursor)
    BY <2>1, WalkFacts
  <2> QED BY <1>3, <1>5, <2>1, <2>2 DEF ReuseNext
<1>6. CASE FreeNext
  BY <1>3, <1>6 DEF FreeNext
<1>7. CASE ReuseMiss
  <2>1. CASE h_pc' = "grow"
    <3>1. h_pc = "reuse" /\ h_cursor \in 0 .. HEAP_END
      BY <1>7 DEF ReuseMiss, HeapInv, HeapCallOK, CallTyped
    <3> QED BY <1>0, <1>1, <2>1, <3>1 DEF HeapStepsLeft
  <2> QED BY <1>2, <1>7, <2>1 DEF ReuseMiss, HeapReturn
<1>8. CASE \E outcome \in GrowOutcomes : GrowStep(outcome)
  <2>1. CASE h_pc' = "grow"
    <3>1. h_pc = "grow" /\ kheap' = [kheap EXCEPT !.mapped_end_exclusive = @ + PAGE_SIZE]
      BY <1>8, <2>1 DEF GrowStep, HeapReturn
    <3>2. kheap'.mapped_end_exclusive = kheap.mapped_end_exclusive + PAGE_SIZE
      BY <3>1 DEF HeapInv, HeapOK, HeapTyped
    <3>3. kheap.mapped_end_exclusive \in Nat
      BY WindowFacts DEF HeapInv
    <3> QED BY <1>1, <2>1, <3>1, <3>2, <3>3 DEF HeapStepsLeft
  <2> QED BY <1>2, <1>8, <2>1 DEF GrowStep, HeapReturn
<1> QED BY <1>4, <1>5, <1>6, <1>7, <1>8
        DEF HeapNext, AllocStep, FreeStep, stage8c_kheap_bootstrap_init, AllocCall, FreeCall

(* Every loop of kheap.c is bounded: a call of kmalloc or kfree ends after *)
(* at most 2 + 2 * HEAP_END of its steps, whatever the blocks are and      *)
(* however growth fails.                                                   *)
THEOREM HeapLoopsEnd == HeapBehaviour => CallMakesProgress
<1>1. HeapInv /\ [HeapNext]_heap_vars =>
        [h_pc # "idle" => HeapStepsLeft' \in 0 .. HeapStepsLeft - 1]_heap_vars
  BY HeapProgress
<1> QED BY <1>1, HeapInvariant, PTL DEF HeapBehaviour, CallMakesProgress
=============================================================================
