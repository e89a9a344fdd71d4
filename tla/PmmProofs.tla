----------------------------- MODULE PmmProofs -----------------------------
(***************************************************************************)
(* Proofs about the frame allocator for every table of ranges, every word  *)
(* width, frame size and FIFO capacity.                                    *)
(*                                                                         *)
(* Two inductive invariants.  PmmInv holds for every map: every frame      *)
(* issued so far, and every frame of a range the cursor has passed, lies   *)
(* below the cursor.  ExactInv holds for ascending maps: the frames that         *)
(* was_frame_issued reports are exactly the held and the waiting ones.     *)
(***************************************************************************)
EXTENDS Pmm, FiniteSetTheorems, SequenceTheorems, TLAPS

(* add_clamp_u64 stays in the word and adds when there is no overflow.     *)
LEMMA AddClamp ==
    ASSUME NEW a \in Word, NEW b \in Word
    PROVE  /\ add_clamp_u64(a, b) \in Word
           /\ a + b <= UINT64_MAX => add_clamp_u64(a, b) = a + b
BY WordAssumption DEF add_clamp_u64, Word

(* checked_add_u64 accepts a sum that fits the word.                       *)
LEMMA CheckedAdd ==
    ASSUME NEW a \in Nat, NEW b \in Nat, a + b <= UINT64_MAX
    PROVE  ~ checked_add_overflows(a, b)
BY WordAssumption DEF checked_add_overflows, Word

(* A quotient of naturals is a natural no larger than the dividend.        *)
LEMMA DivSmall ==
    ASSUME NEW x \in Nat, NEW d \in Nat \ {0}
    PROVE  x \div d \in Nat /\ x \div d <= x
OBVIOUS

(* A multiple of the frame size is the quotient times the frame size.      *)
LEMMA DivExact ==
    ASSUME NEW x \in Nat, NEW d \in Nat \ {0}, x % d = 0
    PROVE  x = (x \div d) * d
OBVIOUS

(* The largest frame number is a natural that fits the word.               *)
LEMMA MaxFrame == MAX_FRAME \in Nat /\ MAX_FRAME <= UINT64_MAX
BY DivSmall, WordAssumption, PmmAssumption DEF MAX_FRAME

(* What the ranges of a table that Stage 5C produced look like: the        *)
(* overflow test of RangeEnd never fires.                                  *)
LEMMA RangeFacts ==
    ASSUME ValidTable(frames), NEW i \in 0 .. RangeCount - 1
    PROVE  /\ RangeCount \in Nat
           /\ RangeAt(i).start_frame \in Nat
           /\ RangeAt(i).frame_count \in Nat \ {0}
           /\ RangeAt(i).frame_count <= frames.eligible_frames
           /\ RangeEnd(i) = RangeAt(i).start_frame + RangeAt(i).frame_count
           /\ RangeEnd(i) <= MAX_FRAME
<1>1. /\ frames.ranges \in Seq(FrameRange)
      /\ frames.eligible_frames \in Word
  BY DEF ValidTable
<1>2. RangeCount \in Nat /\ i + 1 \in 1 .. Len(frames.ranges)
  BY <1>1 DEF RangeCount
<1>3. RangeAt(i) \in FrameRange
  BY <1>1, <1>2 DEF RangeAt
<1>4. /\ RangeAt(i).start_frame + RangeAt(i).frame_count <= MAX_FRAME
      /\ RangeAt(i).frame_count \in 1 .. frames.eligible_frames
  BY <1>2 DEF RangeAt, ValidTable
<1>5. ~ checked_add_overflows(RangeAt(i).start_frame, RangeAt(i).frame_count)
  BY <1>3, <1>4, MaxFrame, CheckedAdd, WordAssumption DEF FrameRange
<1> QED
  BY <1>1, <1>2, <1>3, <1>4, <1>5 DEF FrameRange, RangeEnd, Word

(* The number of ranges and the total are naturals.                        *)
LEMMA TableFacts ==
    ASSUME ValidTable(frames)
    PROVE  RangeCount \in Nat /\ frames.eligible_frames \in Word
BY DEF ValidTable, RangeCount

-----------------------------------------------------------------------------
(* A well-typed allocator state whose cursor is past every range before    *)
(* its own.                                                                *)
GoodState(s) ==
    /\ s \in PmmState
    /\ s.range_index <= RangeCount
    /\ \A i \in 0 .. s.range_index - 1 : RangeEnd(i) <= s.next_frame_index

(* The cursor stands on a frame of a range.                                *)
OnFrame(s) ==
    s.range_index < RangeCount =>
        /\ s.next_frame_index >= RangeAt(s.range_index).start_frame
        /\ s.next_frame_index < RangeEnd(s.range_index)

(* Advancing keeps a good state good, only moves the cursor up, and leaves *)
(* it on a frame or at the end of the table.                               *)
LEMMA AdvanceGood ==
    ASSUME ValidTable(frames), NEW s, GoodState(s),
           NEW t \in stage6a_pmm_advance_to_next_eligible(s)
    PROVE  /\ GoodState(t)
           /\ OnFrame(t)
           /\ t.range_index >= s.range_index
           /\ t.next_frame_index >= s.next_frame_index
           /\ t.is_initialized = s.is_initialized
           /\ t.remaining_frame_count = s.remaining_frame_count
           /\ t.allocation_count = s.allocation_count
           /\ t.next_frame_index = AtLeastStart(t.range_index, s.next_frame_index)
           /\ \A j \in s.range_index .. t.range_index - 1 :
                    RangeEnd(j) <= s.next_frame_index
<1>1. PICK i \in s.range_index .. RangeCount :
            /\ \A j \in s.range_index .. i - 1 :
                    ~ HasFrameAtOrAfter(j, s.next_frame_index)
            /\ i < RangeCount => HasFrameAtOrAfter(i, s.next_frame_index)
            /\ t = [s EXCEPT !.range_index = i,
                        !.next_frame_index = AtLeastStart(i, s.next_frame_index)]
  BY DEF stage6a_pmm_advance_to_next_eligible
<1>2. /\ s \in PmmState /\ RangeCount \in Nat
      /\ s.range_index \in Nat /\ s.next_frame_index \in Nat
  BY TableFacts DEF GoodState, PmmState
<1>3. i \in Nat /\ i <= RangeCount /\ i >= s.range_index
  BY <1>1, <1>2
<1>4. /\ AtLeastStart(i, s.next_frame_index) \in Nat
      /\ AtLeastStart(i, s.next_frame_index) >= s.next_frame_index
      /\ i < RangeCount =>
            /\ AtLeastStart(i, s.next_frame_index) >= RangeAt(i).start_frame
            /\ AtLeastStart(i, s.next_frame_index) < RangeEnd(i)
  <2>1. CASE i < RangeCount
    BY <2>1, <1>1, <1>2, <1>3, RangeFacts DEF AtLeastStart, HasFrameAtOrAfter
  <2>2. CASE ~ (i < RangeCount)
    BY <2>2, <1>2, <1>3 DEF AtLeastStart
  <2> QED BY <2>1, <2>2
<1>5. \A j \in s.range_index .. i - 1 : RangeEnd(j) <= s.next_frame_index
  <2> TAKE j \in s.range_index .. i - 1
  <2>1. j \in 0 .. RangeCount - 1 /\ ~ HasFrameAtOrAfter(j, s.next_frame_index)
    BY <1>1, <1>2, <1>3
  <2>2. RangeEnd(j) \in Nat /\ RangeAt(j).frame_count # 0
    BY <2>1, RangeFacts
  <2> QED BY <2>1, <2>2, <1>2 DEF HasFrameAtOrAfter
<1>6. /\ t \in PmmState
      /\ t.range_index = i
      /\ t.next_frame_index = AtLeastStart(i, s.next_frame_index)
      /\ t.is_initialized = s.is_initialized
      /\ t.remaining_frame_count = s.remaining_frame_count
      /\ t.allocation_count = s.allocation_count
  BY <1>1, <1>2, <1>3, <1>4 DEF PmmState
<1>7. \A j \in 0 .. i - 1 : RangeEnd(j) <= t.next_frame_index
  <2> TAKE j \in 0 .. i - 1
  <2>1. RangeEnd(j) <= s.next_frame_index
    BY <1>2, <1>3, <1>5 DEF GoodState
  <2>2. RangeEnd(j) \in Nat
    BY <1>2, <1>3, RangeFacts
  <2> QED BY <2>1, <2>2, <1>2, <1>4, <1>6
<1> QED
  BY <1>3, <1>4, <1>5, <1>6, <1>7 DEF GoodState, OnFrame

(* Seeding produces a good initialised state with the whole budget, on the *)
(* first frame of the first range when there is one.                       *)
LEMMA SeedGood ==
    ASSUME ValidTable(frames), NEW t \in stage6a_pmm_seed_from_stage5c
    PROVE  /\ GoodState(t)
           /\ OnFrame(t)
           /\ t.is_initialized = 1
           /\ t.remaining_frame_count = frames.eligible_frames
           /\ t.allocation_count = 0
           /\ t.range_index = 0
           /\ RangeCount > 0 => t.next_frame_index = RangeAt(0).start_frame
<1>1. RangeCount \in Nat /\ frames.eligible_frames \in Word /\ 0 \in Word
  BY TableFacts, WordAssumption DEF Word
<1>2. \A n \in Nat : GoodState(SeedState(n))
  BY <1>1 DEF GoodState, PmmState, SeedState
<1>3. CASE RangeCount = 0 \/ frames.eligible_frames = 0
  <2>1. RangeCount = 0
    BY <1>1, <1>3, RangeFacts
  <2>2. t = SeedState(0)
    BY <1>3 DEF stage6a_pmm_seed_from_stage5c
  <2> QED BY <2>1, <2>2, <1>2 DEF OnFrame, SeedState
<1>4. CASE ~ (RangeCount = 0 \/ frames.eligible_frames = 0)
  <2> DEFINE n == RangeAt(0).start_frame
  <2>1. /\ n \in Nat /\ RangeEnd(0) > n /\ 0 \in 0 .. RangeCount - 1
        /\ RangeEnd(0) \in Nat
    BY <1>1, <1>4, RangeFacts
  <2>2. t \in stage6a_pmm_advance_to_next_eligible(SeedState(n))
    BY <1>4 DEF stage6a_pmm_seed_from_stage5c
  <2>3. GoodState(SeedState(n)) /\ SeedState(n).range_index = 0 /\ SeedState(n).next_frame_index = n
    BY <2>1, <1>2 DEF SeedState
  <2> HIDE DEF n
  <2>4. /\ GoodState(t) /\ OnFrame(t)
        /\ t.is_initialized = SeedState(n).is_initialized
        /\ t.remaining_frame_count = SeedState(n).remaining_frame_count
        /\ t.allocation_count = SeedState(n).allocation_count
        /\ t.next_frame_index = AtLeastStart(t.range_index, n)
        /\ \A j \in 0 .. t.range_index - 1 : RangeEnd(j) <= n
    BY <2>2, <2>3, AdvanceGood
  <2>5. t.range_index = 0
    <3>1. t.range_index \in Nat
      BY <2>4 DEF GoodState, PmmState
    <3> QED BY <3>1, <2>1, <2>4
  <2>6. t.next_frame_index = n
    BY <2>1, <2>4, <2>5 DEF AtLeastStart, n
  <2> QED BY <2>4, <2>5, <2>6 DEF SeedState, n
<1> QED BY <1>3, <1>4

-----------------------------------------------------------------------------
(* Every frame issued so far lies below the cursor.                        *)
BelowCursor == \A f \in held \cup PendingFrames : f < pmm.next_frame_index

(* Nothing was issued before the allocator was seeded.                     *)
Unseeded == pmm.is_initialized = 0 => held = {} /\ pending = <<>>

PmmInv ==
    /\ PmmTypeOK
    /\ GoodState(pmm)
    /\ OneOwner
    /\ BelowCursor
    /\ Unseeded
    /\ CursorInsideRange

(* The first test of stage6a_pmm_try_allocate_frame, seeded or not, leaves *)
(* an initialised good state above every issued frame.                     *)
LEMMA SeededGood ==
    ASSUME PmmInv, NEW s \in Seeded
    PROVE  /\ GoodState(s)
           /\ s.is_initialized = 1
           /\ \A f \in held \cup PendingFrames : f < s.next_frame_index
<1>1. CASE pmm.is_initialized = 0
  <2>1. held = {} /\ PendingFrames = {}
    BY <1>1 DEF PmmInv, Unseeded, PendingFrames
  <2>2. s \in stage6a_pmm_seed_from_stage5c /\ ValidTable(frames)
    BY <1>1 DEF Seeded, PmmInv, PmmTypeOK
  <2> QED BY <2>1, <2>2, SeedGood
<1>2. CASE pmm.is_initialized # 0
  BY <1>2 DEF Seeded, PmmInv, BelowCursor, PmmTypeOK, PmmState
<1> QED BY <1>1, <1>2

(* Popping the FIFO removes its head and keeps the order of the others.    *)
LEMMA PopFacts ==
    ASSUME PmmInv, pending # <<>>, pending' = Tail(pending)
    PROVE  /\ Head(pending) \in PendingFrames
           /\ Head(pending) \in 0 .. MAX_FRAME
           /\ pending' \in Seq(0 .. MAX_FRAME)
           /\ Len(pending') = Len(pending) - 1
           /\ \A i \in 1 .. Len(pending') : pending'[i] = pending[i + 1]
           /\ PendingFrames' = PendingFrames \ {Head(pending)}
<1>1. /\ pending \in Seq(0 .. MAX_FRAME)
      /\ \A i, j \in 1 .. Len(pending) : pending[i] = pending[j] => i = j
  BY DEF PmmInv, PmmTypeOK, OneOwner
<1>0. Len(pending) \in Nat \ {0} /\ Head(pending) = pending[1]
  BY <1>1
<1>2. /\ pending' \in Seq(0 .. MAX_FRAME)
      /\ Len(pending') = Len(pending) - 1
      /\ \A i \in 1 .. Len(pending') : pending'[i] = pending[i + 1]
  BY <1>0, <1>1
<1>3. Head(pending) \in PendingFrames /\ Head(pending) \in 0 .. MAX_FRAME
  <2>1. 1 \in 1 .. Len(pending)
    BY <1>0
  <2>2. pending[1] \in 0 .. MAX_FRAME
    BY <2>1, <1>1, ElementOfSeq
  <2> QED BY <2>1, <2>2, <1>0 DEF PendingFrames
<1>4. ASSUME NEW f \in PendingFrames'
      PROVE  f \in PendingFrames \ {Head(pending)}
  <2>1. PICK i \in 1 .. Len(pending') : f = pending'[i]
    BY <1>4 DEF PendingFrames
  <2> QED BY <2>1, <1>0, <1>1, <1>2 DEF PendingFrames
<1>5. ASSUME NEW f \in PendingFrames \ {Head(pending)}
      PROVE  f \in PendingFrames'
  <2>1. PICK i \in 1 .. Len(pending) : f = pending[i]
    BY <1>5 DEF PendingFrames
  <2>2. i - 1 \in 1 .. Len(pending') /\ pending'[i - 1] = f
    BY <2>1, <1>0, <1>1, <1>2, <1>5
  <2> QED BY <2>2 DEF PendingFrames
<1> QED BY <1>2, <1>3, <1>4, <1>5

(* A frame that was_frame_issued reports lies below the cursor.            *)
LEMMA IssuedBelowCursor ==
    ASSUME PmmInv, NEW f \in Nat, stage6d_pmm_was_frame_issued(f)
    PROVE  f < pmm.next_frame_index
<1>1. PICK i \in 0 .. RangeCount - 1 :
            /\ stage6d_pmm_find_frame_range(f, i)
            /\ \/ pmm.range_index >= RangeCount
               \/ i < pmm.range_index
               \/ i = pmm.range_index /\ f < pmm.next_frame_index
  BY DEF stage6d_pmm_was_frame_issued
<1>2. /\ RangeCount \in Nat /\ RangeEnd(i) \in Nat /\ f < RangeEnd(i)
      /\ pmm.range_index \in Nat /\ pmm.next_frame_index \in Nat
  BY <1>1, RangeFacts DEF stage6d_pmm_find_frame_range, InRange, PmmInv,
        PmmTypeOK, PmmState
<1>3. CASE i < pmm.range_index \/ pmm.range_index >= RangeCount
  <2>1. RangeEnd(i) <= pmm.next_frame_index
    BY <1>2, <1>3 DEF PmmInv, GoodState
  <2> QED BY <2>1, <1>2
<1> QED BY <1>1, <1>3

(* Appending a frame that is not waiting keeps the FIFO free of repeats.   *)
LEMMA AppendFacts ==
    ASSUME PmmInv, NEW f \in 0 .. MAX_FRAME, f \notin PendingFrames,
           pending' = Append(pending, f)
    PROVE  /\ pending' \in Seq(0 .. MAX_FRAME)
           /\ Len(pending') = Len(pending) + 1
           /\ PendingFrames' = PendingFrames \cup {f}
           /\ \A i, j \in 1 .. Len(pending') : pending'[i] = pending'[j] => i = j
<1>1. /\ pending \in Seq(0 .. MAX_FRAME)
      /\ \A i, j \in 1 .. Len(pending) : pending[i] = pending[j] => i = j
  BY DEF PmmInv, PmmTypeOK, OneOwner
<1>2. /\ Len(pending) \in Nat
      /\ Len(pending') = Len(pending) + 1
      /\ \A i \in 1 .. Len(pending) : pending'[i] = pending[i]
      /\ pending'[Len(pending) + 1] = f
  BY <1>1, AppendProperties
<1>3. pending' \in Seq(0 .. MAX_FRAME)
  BY <1>1, AppendProperties
<1>4. \A i \in 1 .. Len(pending) : pending[i] # f
  BY DEF PendingFrames
<1>5. \A i, j \in 1 .. Len(pending') : pending'[i] = pending'[j] => i = j
  <2> TAKE i, j \in 1 .. Len(pending')
  <2>1. CASE i \in 1 .. Len(pending) /\ j \in 1 .. Len(pending)
    BY <2>1, <1>1, <1>2
  <2>2. CASE i \in 1 .. Len(pending) /\ j = Len(pending) + 1
    BY <2>2, <1>2, <1>4
  <2>3. CASE i = Len(pending) + 1 /\ j \in 1 .. Len(pending)
    BY <2>3, <1>2, <1>4
  <2>4. CASE i = Len(pending) + 1 /\ j = Len(pending) + 1
    BY <2>4
  <2> QED BY <1>2, <2>1, <2>2, <2>3, <2>4
<1>6. PendingFrames' = PendingFrames \cup {f}
  <2>1. ASSUME NEW g \in PendingFrames' PROVE g \in PendingFrames \cup {f}
    <3>1. PICK i \in 1 .. Len(pending') : g = pending'[i]
      BY <2>1 DEF PendingFrames
    <3>2. i \in 1 .. Len(pending) \/ i = Len(pending) + 1
      BY <1>2
    <3> QED BY <3>1, <3>2, <1>2 DEF PendingFrames
  <2>2. ASSUME NEW g \in PendingFrames PROVE g \in PendingFrames'
    <3>1. PICK i \in 1 .. Len(pending) : g = pending[i]
      BY <2>2 DEF PendingFrames
    <3>2. i \in 1 .. Len(pending') /\ pending'[i] = g
      BY <3>1, <1>2
    <3> QED BY <3>2 DEF PendingFrames
  <2>3. f \in PendingFrames'
    <3>1. Len(pending) + 1 \in 1 .. Len(pending')
      BY <1>2
    <3> QED BY <3>1, <1>2 DEF PendingFrames
  <2> QED BY <2>1, <2>2, <2>3
<1> QED BY <1>2, <1>3, <1>5, <1>6

(* Spending one frame of a budget that is not empty.                       *)
LEMMA SpendFacts ==
    ASSUME NEW s \in PmmState, s.remaining_frame_count # 0
    PROVE  /\ SpendOne(s) \in PmmState
           /\ SpendOne(s).is_initialized = s.is_initialized
           /\ SpendOne(s).range_index = s.range_index
           /\ SpendOne(s).next_frame_index = s.next_frame_index
           /\ SpendOne(s).remaining_frame_count = s.remaining_frame_count - 1
<1>1. /\ s.remaining_frame_count - 1 \in Word
      /\ s.allocation_count \in Word /\ 1 \in Word
  BY WordAssumption DEF PmmState, Word
<1>2. add_clamp_u64(s.allocation_count, 1) \in Word
  BY <1>1, AddClamp
<1> QED BY <1>1, <1>2 DEF SpendOne, PmmState

(* What a fresh allocation does: the frame under the cursor is above every *)
(* frame issued before, and the cursor ends just behind it.                *)
LEMMA FreshFacts ==
    ASSUME PmmInv, AllocFresh
    PROVE  \E f \in 0 .. MAX_FRAME :
                /\ \A g \in held \cup PendingFrames : g < f
                /\ held' = held \cup {f}
                /\ last_alloc' = f
                /\ pending' = pending /\ pending = <<>>
                /\ GoodState(pmm)' /\ pmm'.is_initialized = 1
                /\ pmm'.next_frame_index = f + 1
                /\ \E s0 \in Seeded :
                        /\ s0.remaining_frame_count # 0
                        /\ pmm'.remaining_frame_count
                                = s0.remaining_frame_count - 1
                /\ pmm'.range_index < RangeCount
                /\ RangeAt(pmm'.range_index).start_frame <= f
                /\ f < RangeEnd(pmm'.range_index)
                /\ frames' = frames
<1>1. PICK s0 \in Seeded : \E s \in stage6a_pmm_advance_to_next_eligible(s0) :
            /\ s0.remaining_frame_count # 0
            /\ s.range_index < RangeCount
            /\ pmm' = SpendOne([s EXCEPT !.next_frame_index = @ + 1])
            /\ IF s.next_frame_index > MAX_FRAME
                THEN AllocFails
                ELSE /\ held' = held \cup {s.next_frame_index}
                     /\ last_alloc' = s.next_frame_index
  BY DEF AllocFresh
<1>2. PICK s \in stage6a_pmm_advance_to_next_eligible(s0) :
            /\ s0.remaining_frame_count # 0
            /\ s.range_index < RangeCount
            /\ pmm' = SpendOne([s EXCEPT !.next_frame_index = @ + 1])
            /\ IF s.next_frame_index > MAX_FRAME
                THEN AllocFails
                ELSE /\ held' = held \cup {s.next_frame_index}
                     /\ last_alloc' = s.next_frame_index
  BY <1>1
<1>3. ValidTable(frames) /\ frames' = frames
  BY DEF PmmInv, PmmTypeOK, AllocFresh
<1>4. /\ GoodState(s0) /\ s0.is_initialized = 1
      /\ \A f \in held \cup PendingFrames : f < s0.next_frame_index
  BY SeededGood
<1>5. /\ GoodState(s) /\ OnFrame(s)
      /\ s.next_frame_index >= s0.next_frame_index
      /\ s.remaining_frame_count = s0.remaining_frame_count
      /\ s.is_initialized = 1
  BY <1>3, <1>4, AdvanceGood
<1>6. /\ s \in PmmState /\ s0 \in PmmState
      /\ s.range_index \in Nat /\ s.next_frame_index \in Nat
      /\ s.remaining_frame_count \in Word /\ s.remaining_frame_count # 0
      /\ s.allocation_count \in Word /\ 1 \in Word
      /\ s0.next_frame_index \in Nat
  BY <1>2, <1>4, <1>5, WordAssumption DEF GoodState, PmmState, Word
<1>7. /\ RangeAt(s.range_index).start_frame <= s.next_frame_index
      /\ s.next_frame_index < RangeEnd(s.range_index)
      /\ RangeEnd(s.range_index) <= MAX_FRAME
      /\ RangeEnd(s.range_index) \in Nat
      /\ RangeAt(s.range_index).start_frame \in Nat
  BY <1>2, <1>3, <1>5, <1>6, RangeFacts, TableFacts DEF OnFrame
<1>8. s.next_frame_index \in 0 .. MAX_FRAME
  BY <1>6, <1>7, MaxFrame
<1>9. held' = held \cup {s.next_frame_index} /\ last_alloc' = s.next_frame_index
  BY <1>2, <1>8, MaxFrame
<1>10. \A g \in held \cup PendingFrames : g < s.next_frame_index
  <2> TAKE g \in held \cup PendingFrames
  <2>1. g \in Nat
    <3>1. held \subseteq 0 .. MAX_FRAME /\ pending \in Seq(0 .. MAX_FRAME)
      BY DEF PmmInv, PmmTypeOK
    <3> QED BY <3>1, ElementOfSeq, MaxFrame DEF PendingFrames
  <2> QED BY <2>1, <1>4, <1>5, <1>6
<1>11. pending = <<>> /\ pending' = pending
  <2>1. ~ ReuseSucceeds /\ pending' = IF PopsPending THEN Tail(pending) ELSE pending
    BY DEF AllocFresh
  <2>2. ASSUME pending # <<>> PROVE FALSE
    <3>1. pmm.is_initialized # 0
      BY <2>2 DEF PmmInv, Unseeded
    <3>2. pmm.remaining_frame_count # 0
      BY <3>1, <1>2 DEF Seeded
    <3>3. Head(pending) <= MAX_FRAME
      BY <2>2, HeadTailProperties, MaxFrame DEF PmmInv, PmmTypeOK
    <3> QED BY <2>1, <2>2, <3>2, <3>3 DEF ReuseSucceeds, PopsPending
  <2> QED BY <2>1, <2>2 DEF PopsPending
<1>12. /\ [s EXCEPT !.next_frame_index = @ + 1] \in PmmState
       /\ [s EXCEPT !.next_frame_index = @ + 1].remaining_frame_count # 0
  BY <1>6 DEF PmmState
<1>13. /\ pmm' \in PmmState
       /\ pmm'.range_index = s.range_index
       /\ pmm'.next_frame_index = s.next_frame_index + 1
       /\ pmm'.is_initialized = s.is_initialized
       /\ pmm'.remaining_frame_count = s.remaining_frame_count - 1
  BY <1>2, <1>6, <1>12, SpendFacts DEF PmmState
<1>14. GoodState(pmm)'
  <2>1. \A i \in 0 .. s.range_index - 1 : RangeEnd(i) <= s.next_frame_index + 1
    <3> TAKE i \in 0 .. s.range_index - 1
    <3>1. RangeEnd(i) \in Nat
      BY <1>2, <1>3, <1>6, RangeFacts, TableFacts
    <3> QED BY <3>1, <1>5, <1>6 DEF GoodState
  <2>2. RangeCount' = RangeCount /\ \A i : RangeEnd(i)' = RangeEnd(i)
    BY <1>3 DEF RangeCount, RangeEnd, RangeAt
  <2> QED BY <2>1, <2>2, <1>2, <1>13, <1>5 DEF GoodState
<1>15. /\ pmm'.is_initialized = 1
       /\ pmm'.range_index < RangeCount
       /\ RangeAt(pmm'.range_index).start_frame <= s.next_frame_index
       /\ s.next_frame_index < RangeEnd(pmm'.range_index)
  BY <1>2, <1>5, <1>7, <1>13
<1>16. pmm'.remaining_frame_count = s0.remaining_frame_count - 1
  BY <1>5, <1>13
<1> WITNESS s.next_frame_index \in 0 .. MAX_FRAME
<1> QED
  BY <1>2, <1>3, <1>9, <1>10, <1>11, <1>13, <1>14, <1>15, <1>16

-----------------------------------------------------------------------------
(* The table never changes, so what is derived from it does not either.    *)
LEMMA TableUnchanged ==
    ASSUME frames' = frames
    PROVE  /\ RangeCount' = RangeCount
           /\ \A i : RangeEnd(i)' = RangeEnd(i)
           /\ \A i : RangeAt(i)' = RangeAt(i)
BY DEF RangeCount, RangeEnd, RangeAt

(* A failed allocation may seed the allocator or move its cursor to the    *)
(* end of the table, and nothing else.                                     *)
LEMMA FailFacts ==
    ASSUME PmmInv, AllocNoRange \/ AllocExhausted
    PROVE  /\ GoodState(pmm)'
           /\ pmm'.is_initialized = 1
           /\ \A f \in held \cup PendingFrames : f < pmm'.next_frame_index
           /\ CursorInsideRange'
           /\ \E s0 \in Seeded :
                    pmm'.remaining_frame_count = s0.remaining_frame_count
           /\ pending' = pending /\ held' = held /\ frames' = frames
           /\ last_alloc' = NoFrame
<1>1. ValidTable(frames) /\ frames' = frames
  BY DEF PmmInv, PmmTypeOK, AllocNoRange, AllocExhausted
<1>2. held' = held /\ last_alloc' = NoFrame
  BY DEF AllocNoRange, AllocExhausted, AllocFails
<1>3. PICK s0 \in Seeded :
        \/ pmm' = s0 /\ s0.remaining_frame_count = 0
        \/ \E s \in stage6a_pmm_advance_to_next_eligible(s0) :
                /\ pmm' = s /\ s.range_index >= RangeCount
                /\ s0.remaining_frame_count # 0
  BY DEF AllocNoRange, AllocExhausted
<1>4. /\ GoodState(s0) /\ s0.is_initialized = 1
      /\ \A f \in held \cup PendingFrames : f < s0.next_frame_index
  BY SeededGood
<1>5. pending' = pending
  <2>1. ~ ReuseSucceeds /\ pending' = IF PopsPending THEN Tail(pending) ELSE pending
    BY DEF AllocNoRange, AllocExhausted
  <2>2. CASE pending = <<>>
    BY <2>1, <2>2 DEF PopsPending
  <2>3. CASE pending # <<>>
    <3>1. Head(pending) <= MAX_FRAME
      BY <2>3, HeadTailProperties, MaxFrame DEF PmmInv, PmmTypeOK
    <3> QED BY <2>1, <3>1 DEF ReuseSucceeds
  <2> QED BY <2>2, <2>3
<1>6. RangeCount \in Nat /\ RangeCount' = RangeCount
  BY <1>1, TableFacts, TableUnchanged
<1>7. CASE pmm' = s0
  <2>1. GoodState(pmm)'
    BY <1>1, <1>4, <1>7, TableUnchanged DEF GoodState
  <2>2. CursorInsideRange'
    <3>1. CASE pmm.is_initialized = 0
      <4>1. OnFrame(s0) /\ s0.range_index = 0
        BY <3>1, <1>1, SeedGood DEF Seeded
      <4>2. CASE RangeCount = 0
        BY <4>1, <4>2, <1>6, <1>7 DEF CursorInsideRange
      <4>3. CASE RangeCount # 0
        <5>1. 0 < RangeCount /\ 0 \in 0 .. RangeCount - 1
          BY <4>3, <1>6
        <5>2. RangeAt(0).start_frame \in Nat /\ RangeEnd(0) \in Nat
              /\ s0.next_frame_index \in Nat
          BY <5>1, <1>1, <1>4, RangeFacts DEF GoodState, PmmState
        <5> QED
          BY <4>1, <5>1, <5>2, <1>1, <1>6, <1>7, TableUnchanged
          DEF CursorInsideRange, OnFrame
      <4> QED BY <4>2, <4>3
    <3>2. CASE pmm.is_initialized # 0
      <4>1. pmm' = pmm /\ CursorInsideRange
        BY <3>2, <1>7 DEF Seeded, PmmInv
      <4> QED BY <4>1, <1>1 DEF CursorInsideRange, RangeCount, RangeEnd, RangeAt
    <3> QED BY <3>1, <3>2
  <2> QED BY <2>1, <2>2, <1>1, <1>2, <1>4, <1>5, <1>7
<1>8. CASE pmm' # s0
  <2>1. PICK s \in stage6a_pmm_advance_to_next_eligible(s0) :
            pmm' = s /\ s.range_index >= RangeCount
    BY <1>3, <1>8
  <2>2. /\ GoodState(s) /\ s.is_initialized = 1
        /\ s.next_frame_index >= s0.next_frame_index
        /\ s.remaining_frame_count = s0.remaining_frame_count
    BY <1>1, <1>4, AdvanceGood
  <2>3. GoodState(pmm)'
    BY <1>1, <2>1, <2>2, TableUnchanged DEF GoodState
  <2>4. CursorInsideRange'
    <3>1. s.range_index \in Nat
      BY <2>2 DEF GoodState, PmmState
    <3> QED BY <3>1, <2>1, <1>6 DEF CursorInsideRange
  <2>5. \A f \in held \cup PendingFrames : f < pmm'.next_frame_index
    <3> TAKE f \in held \cup PendingFrames
    <3>1. f \in Nat
      <4>1. held \subseteq 0 .. MAX_FRAME /\ pending \in Seq(0 .. MAX_FRAME)
        BY DEF PmmInv, PmmTypeOK
      <4> QED BY <4>1, ElementOfSeq, MaxFrame DEF PendingFrames
    <3>2. s0.next_frame_index \in Nat /\ s.next_frame_index \in Nat
      BY <1>4, <2>2 DEF GoodState, PmmState
    <3> QED BY <3>1, <3>2, <1>4, <2>1, <2>2
  <2> QED BY <1>1, <1>2, <1>5, <2>1, <2>2, <2>3, <2>4, <2>5
<1> QED BY <1>7, <1>8

(* An allocator that was not seeded satisfies the invariant.               *)
LEMMA PmmResetInv ==
    ASSUME ValidTable(frames), PmmReset
    PROVE  PmmInv
<1>1. ValidTable(frames) /\ RangeCount \in Nat
  BY TableFacts
<1>2. pmm = stage6a_pmm_reset_state /\ pmm \in PmmState
  BY WordAssumption DEF PmmReset, stage6a_pmm_reset_state, PmmState, Word
<1>3. pmm.range_index = 0 /\ pmm.is_initialized = 0
  BY <1>2 DEF stage6a_pmm_reset_state
<1>4. pending = <<>> /\ held = {} /\ PendingFrames = {} /\ last_alloc = NoFrame
  BY DEF PmmReset, PendingFrames
<1>5. PmmTypeOK
  BY <1>1, <1>2, <1>3, <1>4, PmmAssumption DEF PmmTypeOK, Word
<1>6. GoodState(pmm)
  BY <1>1, <1>2, <1>3 DEF GoodState
<1> QED
  BY <1>3, <1>4, <1>5, <1>6
  DEF PmmInv, OneOwner, BelowCursor, Unseeded, CursorInsideRange

(* The initial states satisfy the invariant.                               *)
LEMMA PmmInitInv == PmmInit => PmmInv
BY FrameMapsAssumption, PmmResetInv DEF PmmInit

(* Every action preserves the invariant.                                   *)
LEMMA PmmNextInv == PmmInv /\ [PmmNext]_pmm_vars => PmmInv'
<1> SUFFICES ASSUME PmmInv, [PmmNext]_pmm_vars PROVE PmmInv'
  OBVIOUS
<1>0. /\ PmmTypeOK /\ GoodState(pmm) /\ OneOwner /\ BelowCursor /\ Unseeded
      /\ CursorInsideRange
  BY DEF PmmInv
<1>a. /\ ValidTable(frames) /\ pmm \in PmmState
      /\ pmm.range_index \in Nat /\ pmm.next_frame_index \in Nat
      /\ pmm.remaining_frame_count \in Word
      /\ pending \in Seq(0 .. MAX_FRAME) /\ Len(pending) \in Nat
      /\ Len(pending) <= MAX_PENDING_FREE /\ MAX_PENDING_FREE \in Nat
      /\ held \subseteq 0 .. MAX_FRAME
  BY <1>0, PmmAssumption DEF PmmTypeOK, PmmState, Word
<1>b. \A f \in held \cup PendingFrames : f \in 0 .. MAX_FRAME
  BY <1>a, ElementOfSeq DEF PendingFrames
<1>1. CASE BootSeed
  <2>1. /\ pmm' \in stage6a_pmm_seed_from_stage5c
        /\ frames' = frames /\ held' = held /\ pending' = pending
        /\ held = {} /\ pending = <<>> /\ last_alloc' = NoFrame
    BY <1>1, <1>0 DEF BootSeed, Unseeded
  <2>2. GoodState(pmm') /\ OnFrame(pmm') /\ pmm'.is_initialized = 1
    BY <2>1, <1>a, SeedGood
  <2>3. GoodState(pmm)'
    BY <2>1, <2>2, TableUnchanged DEF GoodState
  <2>4. PmmTypeOK'
    BY <2>1, <2>3, <1>a DEF PmmTypeOK, GoodState
  <2>5. CursorInsideRange'
    <3>1. /\ pmm'.range_index < RangeCount =>
                /\ RangeEnd(pmm'.range_index) \in Nat
          /\ pmm'.next_frame_index \in Nat
      <4>1. pmm'.range_index \in Nat /\ pmm'.next_frame_index \in Nat
        BY <2>2 DEF GoodState, PmmState
      <4>2. RangeCount \in Nat
        BY <1>a, TableFacts
      <4>3. ASSUME pmm'.range_index < RangeCount
            PROVE  RangeEnd(pmm'.range_index) \in Nat
        <5>1. pmm'.range_index \in 0 .. RangeCount - 1
          BY <4>1, <4>2, <4>3
        <5>2. /\ RangeAt(pmm'.range_index).start_frame \in Nat
              /\ RangeAt(pmm'.range_index).frame_count \in Nat
              /\ RangeEnd(pmm'.range_index) = RangeAt(pmm'.range_index).start_frame
                                      + RangeAt(pmm'.range_index).frame_count
          BY <5>1, <1>a, RangeFacts
        <5> QED BY <5>2
      <4> QED BY <4>1, <4>3
    <3> QED BY <2>1, <2>2, <3>1, TableUnchanged DEF CursorInsideRange, OnFrame
  <2>6. (OneOwner /\ BelowCursor /\ Unseeded)'
    BY <2>1, <2>2 DEF OneOwner, BelowCursor, Unseeded, PendingFrames
  <2> QED BY <2>3, <2>4, <2>5, <2>6 DEF PmmInv
<1>2. CASE stage6d_pmm_try_allocate_reused_frame
  <2>1. /\ pending # <<>> /\ pending' = Tail(pending)
        /\ pmm.remaining_frame_count # 0 /\ pmm' = SpendOne(pmm)
        /\ held' = held \cup {Head(pending)} /\ last_alloc' = Head(pending)
        /\ frames' = frames
    BY <1>2 DEF stage6d_pmm_try_allocate_reused_frame, ReuseSucceeds, PopsPending
  <2>2. /\ Head(pending) \in PendingFrames /\ Head(pending) \in 0 .. MAX_FRAME
        /\ pending' \in Seq(0 .. MAX_FRAME) /\ Len(pending') = Len(pending) - 1
        /\ \A i \in 1 .. Len(pending') : pending'[i] = pending[i + 1]
        /\ PendingFrames' = PendingFrames \ {Head(pending)}
    BY <2>1, PopFacts
  <2>3. /\ pmm' \in PmmState
        /\ pmm'.is_initialized = pmm.is_initialized
        /\ pmm'.range_index = pmm.range_index
        /\ pmm'.next_frame_index = pmm.next_frame_index
    BY <2>1, <1>a, SpendFacts
  <2>4. GoodState(pmm)'
    BY <2>1, <2>3, <1>0, TableUnchanged DEF GoodState
  <2>5. PmmTypeOK'
    <3>1. Len(pending') <= MAX_PENDING_FREE
      BY <2>2, <1>a
    <3>2. held' \subseteq 0 .. MAX_FRAME
      BY <2>1, <2>2, <1>a
    <3> QED BY <2>1, <2>2, <2>4, <1>a, <3>1, <3>2 DEF PmmTypeOK, GoodState
  <2>6. OneOwner'
    <3>1. held' \cap PendingFrames' = {}
      BY <2>1, <2>2, <1>0 DEF OneOwner
    <3>2. \A i, j \in 1 .. Len(pending') : pending'[i] = pending'[j] => i = j
      <4> TAKE i, j \in 1 .. Len(pending')
      <4>1. i + 1 \in 1 .. Len(pending) /\ j + 1 \in 1 .. Len(pending)
        BY <2>2, <1>a
      <4> QED BY <4>1, <2>2, <1>0 DEF OneOwner
    <3> QED BY <3>1, <3>2 DEF OneOwner
  <2>7. (BelowCursor /\ Unseeded)'
    BY <2>1, <2>2, <2>3, <1>0 DEF BelowCursor, Unseeded
  <2>8. CursorInsideRange'
    BY <2>1, <2>3, <1>0, TableUnchanged DEF CursorInsideRange
  <2> QED BY <2>4, <2>5, <2>6, <2>7, <2>8 DEF PmmInv
<1>3. CASE AllocFresh
  <2>1. PICK f \in 0 .. MAX_FRAME :
            /\ \A g \in held \cup PendingFrames : g < f
            /\ held' = held \cup {f} /\ last_alloc' = f
            /\ pending' = pending /\ pending = <<>>
            /\ GoodState(pmm)' /\ pmm'.is_initialized = 1
            /\ pmm'.next_frame_index = f + 1
            /\ pmm'.range_index < RangeCount
            /\ RangeAt(pmm'.range_index).start_frame <= f
            /\ f < RangeEnd(pmm'.range_index)
            /\ frames' = frames
    BY <1>3, FreshFacts
  <2>2. PendingFrames = {} /\ PendingFrames' = {} /\ f \in Nat
    BY <2>1, MaxFrame DEF PendingFrames
  <2>3. PmmTypeOK'
    <3>1. held' \subseteq 0 .. MAX_FRAME
      BY <2>1, <1>a
    <3> QED BY <2>1, <3>1, <1>a DEF PmmTypeOK, GoodState
  <2>4. OneOwner'
    BY <2>1, <2>2 DEF OneOwner
  <2>5. BelowCursor'
    <3>1. ASSUME NEW g \in held \cup {f} PROVE g < f + 1
      <4>1. g \in Nat
        BY <2>2, <1>b, MaxFrame
      <4>2. g < f \/ g = f
        BY <2>1
      <4> QED BY <4>1, <4>2, <2>2
    <3> QED BY <3>1, <2>1, <2>2 DEF BelowCursor
  <2>6. Unseeded'
    BY <2>1 DEF Unseeded
  <2>7. CursorInsideRange'
    <3>1. PICK r \in 0 .. RangeCount - 1 : r = pmm'.range_index
      BY <2>1, <1>a, TableFacts DEF GoodState, PmmState
    <3>2. RangeEnd(r) \in Nat /\ RangeAt(r).start_frame \in Nat
      BY <1>a, RangeFacts
    <3> QED BY <2>1, <2>2, <3>1, <3>2, TableUnchanged DEF CursorInsideRange
  <2> QED BY <2>1, <2>3, <2>4, <2>5, <2>6, <2>7 DEF PmmInv
<1>4. CASE AllocNoRange \/ AllocExhausted
  <2>1. /\ GoodState(pmm)' /\ pmm'.is_initialized = 1 /\ CursorInsideRange'
        /\ \A f \in held \cup PendingFrames : f < pmm'.next_frame_index
        /\ pending' = pending /\ held' = held /\ frames' = frames
        /\ last_alloc' = NoFrame
    BY <1>4, FailFacts
  <2>2. PmmTypeOK'
    BY <2>1, <1>a DEF PmmTypeOK, GoodState
  <2>3. (OneOwner /\ BelowCursor /\ Unseeded)'
    BY <2>1, <1>0 DEF OneOwner, BelowCursor, Unseeded, PendingFrames
  <2> QED BY <2>1, <2>2, <2>3 DEF PmmInv
<1>5. ASSUME NEW a \in Word, stage6c_pmm_free_frame(a)
      PROVE  PmmInv'
  <2> DEFINE f == a \div FRAME_SIZE
  <2>1. /\ FreeAccepted(a) /\ pending' = Append(pending, f)
        /\ pmm' = [pmm EXCEPT !.remaining_frame_count = add_clamp_u64(@, 1)]
        /\ held' = held \ {f} /\ last_alloc' = NoFrame /\ frames' = frames
    BY <1>5 DEF stage6c_pmm_free_frame
  <2>2. /\ f \notin PendingFrames /\ Len(pending) < MAX_PENDING_FREE
        /\ stage6d_pmm_was_frame_issued(f) /\ stage6c_is_eligible_frame(f)
    BY <2>1 DEF FreeAccepted
  <2>3. f \in 0 .. MAX_FRAME
    <3>1. f \in Nat
      BY DivSmall, PmmAssumption DEF Word
    <3>2. PICK i \in 0 .. RangeCount - 1 : f < RangeEnd(i)
      BY <2>2 DEF stage6c_is_eligible_frame, InRange
    <3>3. RangeEnd(i) \in Nat /\ RangeEnd(i) <= MAX_FRAME
      BY <1>a, RangeFacts
    <3> HIDE DEF f
    <3> QED BY <3>1, <3>2, <3>3, MaxFrame
  <2> HIDE DEF f
  <2>4. f \in Nat /\ f < pmm.next_frame_index
    BY <2>2, <2>3, MaxFrame, IssuedBelowCursor
  <2>5. /\ pending' \in Seq(0 .. MAX_FRAME) /\ Len(pending') = Len(pending) + 1
        /\ PendingFrames' = PendingFrames \cup {f}
        /\ \A i, j \in 1 .. Len(pending') : pending'[i] = pending'[j] => i = j
    BY <2>1, <2>2, <2>3, AppendFacts
  <2>6. add_clamp_u64(pmm.remaining_frame_count, 1) \in Word
    <3>1. 1 \in Word
      BY WordAssumption DEF Word
    <3> QED BY <3>1, <1>a, AddClamp
  <2>7. /\ pmm' \in PmmState
        /\ pmm'.is_initialized = pmm.is_initialized
        /\ pmm'.range_index = pmm.range_index
        /\ pmm'.next_frame_index = pmm.next_frame_index
    BY <2>1, <2>6, <1>a DEF PmmState
  <2>8. GoodState(pmm)'
    BY <2>1, <2>7, <1>0, TableUnchanged DEF GoodState
  <2>9. PmmTypeOK'
    <3>1. Len(pending') <= MAX_PENDING_FREE
      BY <2>2, <2>5, <1>a
    <3>2. held' \subseteq 0 .. MAX_FRAME
      BY <2>1, <1>a
    <3> QED BY <2>1, <2>5, <2>8, <1>a, <3>1, <3>2 DEF PmmTypeOK, GoodState
  <2>10. OneOwner'
    BY <2>1, <2>5, <1>0 DEF OneOwner
  <2>11. BelowCursor'
    BY <2>1, <2>4, <2>5, <2>7, <1>0 DEF BelowCursor
  <2>12. Unseeded'
    <3>1. pmm.is_initialized # 0
      BY <2>2 DEF stage6d_pmm_was_frame_issued
    <3> QED BY <3>1, <2>7 DEF Unseeded
  <2>13. CursorInsideRange'
    BY <2>1, <2>7, <1>0, TableUnchanged DEF CursorInsideRange
  <2> QED BY <2>8, <2>9, <2>10, <2>11, <2>12, <2>13 DEF PmmInv
<1>6. CASE (\E a \in Word : FreeRejected(a)) \/ UNCHANGED pmm_vars
  <2>1. /\ frames' = frames /\ pmm' = pmm /\ pending' = pending /\ held' = held
        /\ last_alloc' \in {NoFrame, last_alloc}
    BY <1>6 DEF FreeRejected, pmm_vars
  <2> QED
    BY <2>1, <1>0
    DEF PmmInv, PmmTypeOK, GoodState, OneOwner, BelowCursor, Unseeded,
        CursorInsideRange, PendingFrames, RangeCount, RangeEnd, RangeAt
<1> QED
  BY <1>1, <1>2, <1>3, <1>4, <1>5, <1>6 DEF PmmNext, stage6b_pmm_alloc_frame

(* The type invariant of the allocator, for every map and every capacity.  *)
THEOREM TypeCorrect == PmmSpec => []PmmTypeOK
<1>1. PmmInv => PmmTypeOK
  BY DEF PmmInv
<1> QED BY <1>1, PmmInitInv, PmmNextInv, PTL DEF PmmSpec

(* Every issued frame has one owner: held and waiting frames never mix.    *)
THEOREM OwnershipIsUnique == PmmSpec => []OneOwner
<1>1. PmmInv => OneOwner
  BY DEF PmmInv
<1> QED BY <1>1, PmmInitInv, PmmNextInv, PTL DEF PmmSpec

(* The cursor invariant that the Stage 6A comment documents.               *)
THEOREM CursorDocumented == PmmSpec => []CursorInsideRange
<1>1. PmmInv => CursorInsideRange
  BY DEF PmmInv
<1> QED BY <1>1, PmmInitInv, PmmNextInv, PTL DEF PmmSpec

(* Both together: what struct stage6a_pmm_state and the FIFO may hold.     *)
THEOREM StateWellFormed == PmmSpec => []PmmWellFormed
BY TypeCorrect, CursorDocumented, PTL DEF PmmWellFormed

(* No call returns a frame that a caller still holds, in any order and     *)
(* overlap of the ranges: a waiting frame is not held, and a fresh frame   *)
(* lies above every frame issued before.                                   *)
THEOREM NoDoubleIssue == PmmSpec => NeverIssueHeldFrame
<1>1. PmmInv /\ [PmmNext]_pmm_vars => [last_alloc' # NoFrame => last_alloc' \notin held]_pmm_vars
  <2> SUFFICES ASSUME PmmInv, PmmNext, last_alloc' # NoFrame
               PROVE  last_alloc' \notin held
    OBVIOUS
  <2>1. CASE stage6d_pmm_try_allocate_reused_frame
    <3>1. /\ pending # <<>> /\ pending' = Tail(pending)
          /\ last_alloc' = Head(pending)
      BY <2>1 DEF stage6d_pmm_try_allocate_reused_frame, ReuseSucceeds, PopsPending
    <3> QED BY <3>1, PopFacts DEF PmmInv, OneOwner
  <2>2. CASE AllocFresh
    <3>1. \E f \in 0 .. MAX_FRAME :
                last_alloc' = f /\ \A g \in held \cup PendingFrames : g < f
      BY <2>2, FreshFacts
    <3> QED BY <3>1, MaxFrame
  <2>3. CASE AllocNoRange \/ AllocExhausted
    BY <2>3 DEF AllocNoRange, AllocExhausted, AllocFails
  <2>4. CASE BootSeed
    BY <2>4 DEF BootSeed
  <2>5. CASE \E a \in Word : stage6c_pmm_free_frame(a) \/ FreeRejected(a)
    BY <2>5 DEF stage6c_pmm_free_frame, FreeRejected
  <2> QED BY <2>1, <2>2, <2>3, <2>4, <2>5 DEF PmmNext, stage6b_pmm_alloc_frame
<1> QED BY <1>1, PmmInitInv, PmmNextInv, PTL DEF PmmSpec, NeverIssueHeldFrame

-----------------------------------------------------------------------------
(***************************************************************************)
(* Ascending maps.  IssuedBy restates was_frame_issued for a cursor s; on  *)
(* an ascending map a frame lies in at most one range, so the two agree.   *)
(***************************************************************************)
IssuedBy(s, f) ==
    /\ s.is_initialized # 0
    /\ \E i \in 0 .. RangeCount - 1 :
            /\ InRange(f, i)
            /\ i < s.range_index \/ (i = s.range_index /\ f < s.next_frame_index)

CursorIn(s) ==
    s.range_index < RangeCount =>
        /\ s.next_frame_index >= RangeAt(s.range_index).start_frame
        /\ s.next_frame_index <= RangeEnd(s.range_index)

(* Ranges of an ascending table do not overlap.                            *)
LEMMA RangesAscend ==
    ASSUME Ascending(frames), ValidTable(frames),
           NEW i \in 0 .. RangeCount - 1, NEW j \in 0 .. RangeCount - 1, i < j
    PROVE  RangeEnd(i) <= RangeAt(j).start_frame
<1>1. /\ RangeCount \in Nat
      /\ RangeEnd(i) = RangeAt(i).start_frame + RangeAt(i).frame_count
  BY RangeFacts
<1>2. /\ i + 1 \in 1 .. Len(frames.ranges) /\ j + 1 \in 1 .. Len(frames.ranges)
      /\ i + 1 < j + 1
  BY <1>1 DEF RangeCount
<1> QED BY <1>1, <1>2 DEF Ascending, RangeAt

(* A frame lies in at most one range of an ascending table.                *)
LEMMA RangeUnique ==
    ASSUME Ascending(frames), ValidTable(frames), NEW f \in Nat,
           NEW i \in 0 .. RangeCount - 1, NEW j \in 0 .. RangeCount - 1,
           InRange(f, i), InRange(f, j)
    PROVE  i = j
<1>1. /\ RangeCount \in Nat
      /\ RangeEnd(i) \in Nat /\ RangeAt(i).start_frame \in Nat
      /\ RangeEnd(j) \in Nat /\ RangeAt(j).start_frame \in Nat
  BY RangeFacts
<1>2. CASE i < j
  BY <1>1, <1>2, RangesAscend DEF InRange
<1>3. CASE j < i
  BY <1>1, <1>3, RangesAscend DEF InRange
<1> QED BY <1>1, <1>2, <1>3

(* On an ascending map was_frame_issued is IssuedBy of the current cursor. *)
LEMMA WasIssued ==
    ASSUME Ascending(frames), PmmInv, NEW f \in Nat
    PROVE  stage6d_pmm_was_frame_issued(f) <=> IssuedBy(pmm, f)
<1>1. ValidTable(frames) /\ RangeCount \in Nat /\ pmm.range_index \in Nat
  BY TableFacts DEF PmmInv, PmmTypeOK, PmmState
<1>2. \A i \in 0 .. RangeCount - 1 :
            stage6d_pmm_find_frame_range(f, i) <=> InRange(f, i)
  <2> TAKE i \in 0 .. RangeCount - 1
  <2>1. ASSUME InRange(f, i), NEW j \in 0 .. i - 1, InRange(f, j) PROVE FALSE
    <3>1. j \in 0 .. RangeCount - 1 /\ i # j
      BY <1>1
    <3> QED BY <3>1, <2>1, <1>1, RangeUnique
  <2> QED BY <2>1 DEF stage6d_pmm_find_frame_range
<1>3. \A i \in 0 .. RangeCount - 1 :
            pmm.range_index >= RangeCount => i < pmm.range_index
  BY <1>1
<1> QED BY <1>2, <1>3 DEF stage6d_pmm_was_frame_issued, IssuedBy

(* Advancing the cursor issues nothing: on an ascending map it only passes *)
(* a range whose frames have all been issued.                              *)
LEMMA AdvanceIssued ==
    ASSUME Ascending(frames), ValidTable(frames), NEW s, GoodState(s), CursorIn(s),
           NEW t \in stage6a_pmm_advance_to_next_eligible(s), NEW f \in Nat
    PROVE  IssuedBy(t, f) <=> IssuedBy(s, f)
<1>1. /\ GoodState(t) /\ t.range_index >= s.range_index
      /\ t.next_frame_index >= s.next_frame_index
      /\ t.is_initialized = s.is_initialized
      /\ t.next_frame_index = AtLeastStart(t.range_index, s.next_frame_index)
      /\ \A j \in s.range_index .. t.range_index - 1 :
                RangeEnd(j) <= s.next_frame_index
  BY AdvanceGood
<1>2. /\ RangeCount \in Nat
      /\ s.range_index \in Nat /\ s.next_frame_index \in Nat
      /\ t.range_index \in Nat /\ t.next_frame_index \in Nat
  BY <1>1, TableFacts DEF GoodState, PmmState
<1>3. \A i \in 0 .. RangeCount - 1 :
            /\ RangeEnd(i) \in Nat /\ RangeAt(i).start_frame \in Nat
            /\ RangeAt(i).start_frame < RangeEnd(i)
  BY RangeFacts
<1>4. ASSUME NEW i \in 0 .. RangeCount - 1, i > s.range_index
      PROVE  s.next_frame_index <= RangeAt(i).start_frame
  <2>1. s.range_index \in 0 .. RangeCount - 1
    BY <1>2, <1>4
  <2>2. /\ s.next_frame_index <= RangeEnd(s.range_index)
        /\ RangeEnd(s.range_index) <= RangeAt(i).start_frame
    BY <2>1, <1>2, <1>4, RangesAscend DEF CursorIn
  <2> QED BY <2>1, <2>2, <1>2, <1>3
<1>5. ASSUME NEW i \in 0 .. RangeCount - 1, InRange(f, i)
      PROVE  (i < t.range_index \/ (i = t.range_index /\ f < t.next_frame_index))
             <=> (i < s.range_index \/ (i = s.range_index /\ f < s.next_frame_index))
  <2>1. /\ f >= RangeAt(i).start_frame /\ f < RangeEnd(i)
    BY <1>5 DEF InRange
  <2>2. CASE i < s.range_index
    BY <2>2, <1>1, <1>2
  <2>3. CASE i = s.range_index
    <3>1. CASE i < t.range_index
      BY <3>1, <2>1, <2>3, <1>1, <1>2, <1>3
    <3>2. CASE i = t.range_index
      <4>1. t.next_frame_index = s.next_frame_index
        <5>1. s.next_frame_index >= RangeAt(i).start_frame
          BY <2>3, <1>2 DEF CursorIn
        <5>2. ~ (s.next_frame_index < RangeAt(t.range_index).start_frame)
          BY <5>1, <3>2, <1>2, <1>3
        <5> QED BY <5>2, <1>1 DEF AtLeastStart
      <4> QED BY <4>1, <3>2, <2>3, <1>2
    <3> QED BY <3>1, <3>2, <2>3, <1>1, <1>2
  <2>4. CASE i > s.range_index
    <3>1. s.next_frame_index <= RangeAt(i).start_frame
      BY <2>4, <1>4
    <3>2. CASE i < t.range_index
      BY <3>1, <3>2, <2>4, <1>1, <1>2, <1>3
    <3>3. CASE i = t.range_index
      <4>1. t.next_frame_index <= RangeAt(i).start_frame
        BY <3>1, <3>3, <1>1, <1>2, <1>3 DEF AtLeastStart
      <4> QED BY <4>1, <3>3, <2>1, <2>4, <1>2, <1>3
    <3>4. CASE i > t.range_index
      BY <3>4, <2>4, <1>2
    <3> QED BY <3>2, <3>3, <3>4, <1>2
  <2> QED BY <2>2, <2>3, <2>4, <1>2
<1> QED BY <1>1, <1>5 DEF IssuedBy

(* A seeded cursor has issued nothing.                                     *)
LEMMA SeedIssued ==
    ASSUME ValidTable(frames), NEW t \in stage6a_pmm_seed_from_stage5c,
           NEW f \in Nat
    PROVE  ~ IssuedBy(t, f) /\ CursorIn(t)
<1>1. /\ t.range_index = 0 /\ GoodState(t) /\ OnFrame(t)
      /\ RangeCount > 0 => t.next_frame_index = RangeAt(0).start_frame
  BY SeedGood
<1>2. RangeCount \in Nat /\ t.next_frame_index \in Nat
  BY <1>1, TableFacts DEF GoodState, PmmState
<1>3. CASE RangeCount = 0
  BY <1>1, <1>2, <1>3 DEF IssuedBy, CursorIn
<1>4. CASE RangeCount > 0
  <2>1. 0 \in 0 .. RangeCount - 1
    BY <1>2, <1>4
  <2>2. RangeEnd(0) \in Nat /\ RangeAt(0).start_frame \in Nat
    BY <2>1, RangeFacts
  <2> QED BY <2>2, <1>1, <1>2, <1>4 DEF IssuedBy, CursorIn, OnFrame, InRange
<1> QED BY <1>2, <1>3, <1>4

(* The state the allocation starts from, seeded now or before.             *)
LEMMA SeededIssued ==
    ASSUME Ascending(frames), PmmInv, NEW s \in Seeded, NEW f \in Nat
    PROVE  (IssuedBy(s, f) <=> IssuedBy(pmm, f)) /\ CursorIn(s)
<1>1. ValidTable(frames) /\ pmm \in PmmState
  BY DEF PmmInv, PmmTypeOK
<1>2. CASE pmm.is_initialized = 0
  BY <1>1, <1>2, SeedIssued DEF Seeded, IssuedBy
<1>3. CASE pmm.is_initialized # 0
  BY <1>1, <1>3 DEF Seeded, CursorIn, PmmInv, CursorInsideRange, PmmState
<1> QED BY <1>2, <1>3

(* A fresh allocation issues the frame it returns and no other.            *)
LEMMA FreshIssued ==
    ASSUME Ascending(frames), PmmInv, AllocFresh, NEW f \in Nat
    PROVE  IssuedBy(pmm, f)' <=> IssuedBy(pmm, f) \/ f = last_alloc'
<1>1. PICK s0 \in Seeded : \E s \in stage6a_pmm_advance_to_next_eligible(s0) :
            /\ s.range_index < RangeCount
            /\ pmm' = SpendOne([s EXCEPT !.next_frame_index = @ + 1])
            /\ s0.remaining_frame_count # 0
  BY DEF AllocFresh
<1>2. PICK s \in stage6a_pmm_advance_to_next_eligible(s0) :
            /\ s.range_index < RangeCount
            /\ pmm' = SpendOne([s EXCEPT !.next_frame_index = @ + 1])
            /\ s0.remaining_frame_count # 0
  BY <1>1
<1>3. ValidTable(frames) /\ frames' = frames
  BY DEF PmmInv, PmmTypeOK, AllocFresh
<1>4. /\ GoodState(s0) /\ CursorIn(s0) /\ s0.is_initialized = 1
      /\ IssuedBy(s0, f) <=> IssuedBy(pmm, f)
  BY SeededGood, SeededIssued
<1>5. /\ GoodState(s) /\ OnFrame(s) /\ s.is_initialized = 1
      /\ s.remaining_frame_count = s0.remaining_frame_count
      /\ IssuedBy(s, f) <=> IssuedBy(s0, f)
  BY <1>3, <1>4, AdvanceGood, AdvanceIssued
<1>6. s \in PmmState /\ s.range_index \in Nat /\ s.next_frame_index \in Nat
  BY <1>5 DEF GoodState, PmmState
<1>7. /\ [s EXCEPT !.next_frame_index = @ + 1] \in PmmState
      /\ [s EXCEPT !.next_frame_index = @ + 1].remaining_frame_count # 0
  BY <1>2, <1>5, <1>6 DEF PmmState
<1>8. /\ pmm'.range_index = s.range_index
      /\ pmm'.next_frame_index = s.next_frame_index + 1
      /\ pmm'.is_initialized = 1
  BY <1>2, <1>5, <1>6, <1>7, SpendFacts DEF PmmState
<1>9. last_alloc' = s.next_frame_index
  <2>1. PICK g \in 0 .. MAX_FRAME :
            last_alloc' = g /\ pmm'.next_frame_index = g + 1
    BY FreshFacts
  <2> QED BY <2>1, <1>6, <1>8, MaxFrame
<1>10. s.range_index \in 0 .. RangeCount - 1 /\ InRange(s.next_frame_index, s.range_index)
  <2>1. s.range_index \in 0 .. RangeCount - 1
    BY <1>2, <1>3, <1>6, TableFacts
  <2>2. RangeAt(s.range_index).frame_count # 0
    BY <2>1, <1>3, RangeFacts
  <2> QED BY <2>1, <2>2, <1>2, <1>5 DEF InRange, OnFrame
<1>11. RangeCount' = RangeCount /\ \A i : InRange(f, i)' <=> InRange(f, i)
  BY <1>3 DEF RangeCount, InRange, RangeEnd, RangeAt
<1>12. ASSUME IssuedBy(pmm, f)' PROVE IssuedBy(s, f) \/ f = s.next_frame_index
  <2>1. PICK i \in 0 .. RangeCount - 1 :
            /\ InRange(f, i)
            /\ i < s.range_index \/ (i = s.range_index /\ f < s.next_frame_index + 1)
    BY <1>12, <1>8, <1>11 DEF IssuedBy
  <2>2. f < s.next_frame_index + 1 => f < s.next_frame_index \/ f = s.next_frame_index
    BY <1>6
  <2> QED BY <2>1, <2>2, <1>5 DEF IssuedBy
<1>13. ASSUME IssuedBy(s, f) PROVE IssuedBy(pmm, f)'
  <2>1. PICK i \in 0 .. RangeCount - 1 :
            /\ InRange(f, i)
            /\ i < s.range_index \/ (i = s.range_index /\ f < s.next_frame_index)
    BY <1>13 DEF IssuedBy
  <2>2. f < s.next_frame_index => f < s.next_frame_index + 1
    BY <1>6
  <2> QED BY <2>1, <2>2, <1>8, <1>11 DEF IssuedBy
<1>14. ASSUME f = s.next_frame_index PROVE IssuedBy(pmm, f)'
  BY <1>14, <1>6, <1>8, <1>10, <1>11 DEF IssuedBy
<1> QED BY <1>4, <1>5, <1>9, <1>12, <1>13, <1>14

(* A failed allocation issues nothing.                                     *)
LEMMA FailIssued ==
    ASSUME Ascending(frames), PmmInv, AllocNoRange \/ AllocExhausted, NEW f \in Nat
    PROVE  IssuedBy(pmm, f)' <=> IssuedBy(pmm, f)
<1>1. PICK s0 \in Seeded :
            \/ pmm' = s0
            \/ pmm' \in stage6a_pmm_advance_to_next_eligible(s0)
  BY DEF AllocNoRange, AllocExhausted
<1>2. ValidTable(frames) /\ frames' = frames
  BY DEF PmmInv, PmmTypeOK, AllocNoRange, AllocExhausted
<1>3. /\ GoodState(s0) /\ CursorIn(s0)
      /\ IssuedBy(s0, f) <=> IssuedBy(pmm, f)
  BY SeededGood, SeededIssued
<1>4. IssuedBy(pmm', f) <=> IssuedBy(pmm, f)
  BY <1>1, <1>2, <1>3, AdvanceIssued
<1> QED
  BY <1>2, <1>4 DEF IssuedBy, RangeCount, InRange, RangeEnd, RangeAt

-----------------------------------------------------------------------------
(* was_frame_issued knows exactly the frames that are held or waiting.     *)
IssuedExactly ==
    \A f \in Nat : IssuedBy(pmm, f) <=> f \in held \cup PendingFrames

(* The budget and the held frames add up to the frames counted.            *)
Account ==
    pmm.is_initialized = 1 =>
        pmm.remaining_frame_count + Cardinality(held) = frames.eligible_frames

ExactInv == PmmInv /\ IssuedExactly /\ Account

(* The set of held frames is finite, and its size moves with its members.  *)
LEMMA HeldFinite ==
    ASSUME PmmInv
    PROVE  /\ IsFiniteSet(held) /\ Cardinality(held) \in Nat
           /\ \A f : f \notin held =>
                    Cardinality(held \cup {f}) = Cardinality(held) + 1
           /\ \A f \in held : /\ Cardinality(held \ {f}) = Cardinality(held) - 1
                             /\ Cardinality(held \ {f}) \in Nat
<1>1. held \subseteq 0 .. MAX_FRAME /\ IsFiniteSet(0 .. MAX_FRAME)
  BY FS_Interval, MaxFrame DEF PmmInv, PmmTypeOK
<1>2. IsFiniteSet(held)
  BY <1>1, FS_Subset
<1> QED BY <1>2, FS_CardinalityType, FS_AddElement, FS_RemoveElement

(* A free that passes the checks gives back a held frame.                  *)
LEMMA FreedIsHeld ==
    ASSUME Ascending(frames), PmmInv, IssuedExactly, NEW a \in Word, FreeAccepted(a)
    PROVE  a \div FRAME_SIZE \in held
<1> DEFINE f == a \div FRAME_SIZE
<1>1. f \in Nat
  BY DivSmall, PmmAssumption DEF Word
<1>2. stage6d_pmm_was_frame_issued(f) /\ f \notin PendingFrames
  BY DEF FreeAccepted
<1> HIDE DEF f
<1>3. f \in held
  BY <1>1, <1>2, WasIssued DEF IssuedExactly
<1> QED BY <1>3 DEF f

(* The budget and the held frames of the state an allocation starts from.  *)
LEMMA SeededConserved ==
    ASSUME ExactInv, NEW s \in Seeded
    PROVE  s.remaining_frame_count + Cardinality(held) = frames.eligible_frames
<1>1. ValidTable(frames) /\ pmm \in PmmState
  BY DEF ExactInv, PmmInv, PmmTypeOK
<1>2. CASE pmm.is_initialized = 0
  <2>1. held = {} /\ s.remaining_frame_count = frames.eligible_frames
    BY <1>1, <1>2, SeedGood DEF ExactInv, PmmInv, Unseeded, Seeded
  <2> QED BY <2>1, <1>1, FS_EmptySet, TableFacts DEF Word
<1>3. CASE pmm.is_initialized # 0
  BY <1>1, <1>3 DEF Seeded, ExactInv, Account, PmmState
<1> QED BY <1>2, <1>3

(* Every action keeps the exact account, on ascending maps.                *)
LEMMA NextExact ==
    ASSUME Ascending(frames), ExactInv, [PmmNext]_pmm_vars
    PROVE  ExactInv'
<1>0. /\ PmmInv /\ IssuedExactly /\ Account /\ PmmInv'
      /\ ValidTable(frames) /\ pmm \in PmmState
      /\ pmm.remaining_frame_count \in Word /\ frames.eligible_frames \in Word
  BY PmmNextInv, TableFacts DEF ExactInv, PmmInv, PmmTypeOK, PmmState
<1>1. CASE BootSeed
  <2>1. /\ pmm' \in stage6a_pmm_seed_from_stage5c /\ frames' = frames
        /\ held' = held /\ pending' = pending /\ held = {} /\ pending = <<>>
    BY <1>0, <1>1 DEF BootSeed, PmmInv, Unseeded
  <2>2. IssuedExactly'
    <3>1. \A f \in Nat : ~ IssuedBy(pmm', f)
      BY <2>1, <1>0, SeedIssued
    <3>2. \A f \in Nat : ~ IssuedBy(pmm, f)'
      BY <3>1, <2>1 DEF IssuedBy, RangeCount, InRange, RangeEnd, RangeAt
    <3>3. held' = {} /\ PendingFrames' = {}
      BY <2>1 DEF PendingFrames
    <3> QED BY <3>2, <3>3 DEF IssuedExactly
  <2>3. Account'
    <3>1. pmm'.remaining_frame_count = frames.eligible_frames
      BY <2>1, <1>0, SeedGood
    <3> QED BY <3>1, <2>1, <1>0, FS_EmptySet DEF Account, Word
  <2> QED BY <2>2, <2>3, <1>0 DEF ExactInv
<1>2. CASE stage6d_pmm_try_allocate_reused_frame
  <2>1. /\ pending # <<>> /\ pending' = Tail(pending)
        /\ pmm.remaining_frame_count # 0 /\ pmm' = SpendOne(pmm)
        /\ held' = held \cup {Head(pending)} /\ frames' = frames
    BY <1>2 DEF stage6d_pmm_try_allocate_reused_frame, ReuseSucceeds, PopsPending
  <2>2. /\ Head(pending) \in PendingFrames
        /\ PendingFrames' = PendingFrames \ {Head(pending)}
    BY <2>1, <1>0, PopFacts
  <2>3. /\ pmm'.is_initialized = pmm.is_initialized
        /\ pmm'.range_index = pmm.range_index
        /\ pmm'.next_frame_index = pmm.next_frame_index
        /\ pmm'.remaining_frame_count = pmm.remaining_frame_count - 1
    BY <2>1, <1>0, SpendFacts
  <2>4. IssuedExactly'
    <3>1. \A f \in Nat : IssuedBy(pmm, f)' <=> IssuedBy(pmm, f)
      BY <2>1, <2>3 DEF IssuedBy, RangeCount, InRange, RangeEnd, RangeAt
    <3>2. held' \cup PendingFrames' = held \cup PendingFrames
      BY <2>1, <2>2
    <3> QED BY <3>1, <3>2, <1>0 DEF IssuedExactly
  <2>5. Account'
    <3>1. Head(pending) \notin held
      BY <2>2, <1>0 DEF PmmInv, OneOwner
    <3>2. /\ Cardinality(held') = Cardinality(held) + 1
          /\ Cardinality(held) \in Nat
      BY <3>1, <2>1, <1>0, HeldFinite
    <3> QED BY <3>2, <2>1, <2>3, <1>0 DEF Account, Word
  <2> QED BY <2>4, <2>5, <1>0 DEF ExactInv
<1>3. CASE AllocFresh
  <2>1. PICK f \in 0 .. MAX_FRAME :
            /\ \A g \in held \cup PendingFrames : g < f
            /\ held' = held \cup {f} /\ last_alloc' = f
            /\ pending' = pending /\ frames' = frames
            /\ \E s0 \in Seeded :
                    /\ s0.remaining_frame_count # 0
                    /\ pmm'.remaining_frame_count = s0.remaining_frame_count - 1
    BY <1>3, <1>0, FreshFacts
  <2>2. f \notin held
    BY <2>1, MaxFrame
  <2>3. IssuedExactly'
    <3>1. \A g \in Nat : IssuedBy(pmm, g)' <=> IssuedBy(pmm, g) \/ g = f
      BY <1>3, <1>0, <2>1, FreshIssued
    <3>2. PendingFrames' = PendingFrames
      BY <2>1 DEF PendingFrames
    <3> QED BY <3>1, <3>2, <2>1, <1>0 DEF IssuedExactly
  <2>4. Account'
    <3>1. PICK s0 \in Seeded :
                pmm'.remaining_frame_count = s0.remaining_frame_count - 1
      BY <2>1
    <3>2. /\ s0.remaining_frame_count + Cardinality(held) = frames.eligible_frames
          /\ s0.remaining_frame_count \in Nat
      BY <1>0, SeededConserved, SeededGood DEF ExactInv, GoodState, PmmState, Word
    <3>3. /\ Cardinality(held') = Cardinality(held) + 1
          /\ Cardinality(held) \in Nat
      BY <2>1, <2>2, <1>0, HeldFinite
    <3> QED BY <3>1, <3>2, <3>3, <2>1 DEF Account
  <2> QED BY <2>3, <2>4, <1>0 DEF ExactInv
<1>4. CASE AllocNoRange \/ AllocExhausted
  <2>1. /\ pending' = pending /\ held' = held /\ frames' = frames
        /\ \E s0 \in Seeded :
                pmm'.remaining_frame_count = s0.remaining_frame_count
    BY <1>4, <1>0, FailFacts
  <2>2. IssuedExactly'
    <3>1. \A g \in Nat : IssuedBy(pmm, g)' <=> IssuedBy(pmm, g)
      BY <1>4, <1>0, FailIssued
    <3> QED BY <3>1, <2>1, <1>0 DEF IssuedExactly, PendingFrames
  <2>3. Account'
    BY <2>1, <1>0, SeededConserved DEF Account, ExactInv
  <2> QED BY <2>2, <2>3, <1>0 DEF ExactInv
<1>5. ASSUME NEW a \in Word, stage6c_pmm_free_frame(a)
      PROVE  ExactInv'
  <2> DEFINE f == a \div FRAME_SIZE
  <2>1. /\ FreeAccepted(a) /\ pending' = Append(pending, f)
        /\ pmm' = [pmm EXCEPT !.remaining_frame_count = add_clamp_u64(@, 1)]
        /\ held' = held \ {f} /\ frames' = frames
    BY <1>5 DEF stage6c_pmm_free_frame
  <2>2. f \in held /\ f \notin PendingFrames /\ pmm.is_initialized # 0
    BY <2>1, <1>0, FreedIsHeld DEF FreeAccepted, stage6d_pmm_was_frame_issued
  <2> HIDE DEF f
  <2>3. f \in 0 .. MAX_FRAME
    BY <2>2, <1>0 DEF PmmInv, PmmTypeOK
  <2>4. PendingFrames' = PendingFrames \cup {f}
    BY <2>1, <2>2, <2>3, <1>0, AppendFacts
  <2>5. /\ Cardinality(held') = Cardinality(held) - 1
        /\ Cardinality(held) \in Nat /\ Cardinality(held') \in Nat
    BY <2>1, <2>2, <1>0, HeldFinite
  <2>6. pmm.remaining_frame_count + Cardinality(held) = frames.eligible_frames
    BY <2>2, <1>0 DEF Account, PmmState
  <2>7. /\ pmm.remaining_frame_count \in Nat /\ 1 \in Word
        /\ pmm.remaining_frame_count + 1 <= UINT64_MAX
    <3>1. /\ pmm.remaining_frame_count \in Nat /\ 1 \in Word
          /\ frames.eligible_frames <= UINT64_MAX
          /\ frames.eligible_frames \in Nat
      BY <1>0, WordAssumption DEF Word
    <3>2. Cardinality(held) >= 1
      BY <2>5
    <3> QED BY <3>1, <3>2, <2>5, <2>6, WordAssumption
  <2>8. add_clamp_u64(pmm.remaining_frame_count, 1) = pmm.remaining_frame_count + 1
    BY <2>7, <1>0, AddClamp
  <2>9. /\ pmm'.is_initialized = pmm.is_initialized
        /\ pmm'.range_index = pmm.range_index
        /\ pmm'.next_frame_index = pmm.next_frame_index
        /\ pmm'.remaining_frame_count = pmm.remaining_frame_count + 1
    BY <2>1, <2>8, <1>0 DEF PmmState
  <2>10. IssuedExactly'
    <3>1. \A g \in Nat : IssuedBy(pmm, g)' <=> IssuedBy(pmm, g)
      BY <2>1, <2>9 DEF IssuedBy, RangeCount, InRange, RangeEnd, RangeAt
    <3>2. held' \cup PendingFrames' = held \cup PendingFrames
      BY <2>1, <2>2, <2>4
    <3> QED BY <3>1, <3>2, <1>0 DEF IssuedExactly
  <2>11. Account'
    BY <2>1, <2>5, <2>6, <2>7, <2>9 DEF Account
  <2> QED BY <2>10, <2>11, <1>0 DEF ExactInv
<1>6. CASE (\E a \in Word : FreeRejected(a)) \/ UNCHANGED pmm_vars
  <2>1. frames' = frames /\ pmm' = pmm /\ pending' = pending /\ held' = held
    BY <1>6 DEF FreeRejected, pmm_vars
  <2> QED
    BY <2>1, <1>0
    DEF ExactInv, IssuedExactly, Account, PendingFrames, IssuedBy,
        RangeCount, InRange, RangeEnd, RangeAt
<1> QED
  BY <1>1, <1>2, <1>3, <1>4, <1>5, <1>6 DEF PmmNext, stage6b_pmm_alloc_frame

(* An allocator that was not seeded satisfies the exact account.           *)
LEMMA ResetExact ==
    ASSUME ValidTable(frames), PmmReset
    PROVE  ExactInv
<1>1. pmm.is_initialized = 0 /\ held = {} /\ PendingFrames = {}
  BY DEF PmmReset, stage6a_pmm_reset_state, PendingFrames
<1> QED BY <1>1, PmmResetInv DEF ExactInv, IssuedExactly, Account, IssuedBy

LEMMA InitExact == PmmInit => ExactInv
BY FrameMapsAssumption, ResetExact DEF PmmInit

(* The range table never changes, so the account is kept on every run whose *)
(* ranges ascend, and the other runs keep PmmInv.                          *)
ExactIfAscending == PmmInv /\ (Ascending(frames) => ExactInv)

LEMMA InitExactIfAscending == PmmInit => ExactIfAscending
BY PmmInitInv, InitExact DEF ExactIfAscending

LEMMA NextExactIfAscending ==
    ExactIfAscending /\ [PmmNext]_pmm_vars => ExactIfAscending'
<1> SUFFICES ASSUME ExactIfAscending, [PmmNext]_pmm_vars PROVE ExactIfAscending'
  OBVIOUS
<1>1. PmmInv /\ PmmInv'
  BY PmmNextInv DEF ExactIfAscending
<1>2. frames' = frames
  BY DEF PmmNext, pmm_vars, BootSeed, stage6b_pmm_alloc_frame, AllocFresh,
         AllocNoRange, AllocExhausted, stage6d_pmm_try_allocate_reused_frame,
         stage6c_pmm_free_frame, FreeRejected
<1>3. Ascending(frames)' <=> Ascending(frames)
  BY <1>2 DEF Ascending
<1> QED BY <1>1, <1>3, NextExact DEF ExactIfAscending

LEMMA SpecExact == PmmSpec => []ExactIfAscending
BY InitExactIfAscending, NextExactIfAscending, PTL DEF PmmSpec

(* With ascending ranges a free is accepted exactly for a held frame while *)
(* the FIFO has room: the already-issued check of Stage 6D is exact.       *)
THEOREM FreeIsExact == PmmSpec => []FreeAcceptsExactlyHeld
<1>1. ExactIfAscending => FreeAcceptsExactlyHeld
  <2> SUFFICES ASSUME ExactInv, Ascending(frames), NEW a \in Word
               PROVE  FreeAccepted(a) <=>
                        /\ a % FRAME_SIZE = 0
                        /\ a \div FRAME_SIZE \in held
                        /\ Len(pending) < MAX_PENDING_FREE
    BY DEF FreeAcceptsExactlyHeld, ExactIfAscending
  <2>0. PmmInv /\ IssuedExactly /\ ValidTable(frames)
    BY DEF ExactInv, PmmInv, PmmTypeOK
  <2>1. ASSUME FreeAccepted(a)
        PROVE  /\ a % FRAME_SIZE = 0 /\ a \div FRAME_SIZE \in held
               /\ Len(pending) < MAX_PENDING_FREE
    BY <2>0, <2>1, FreedIsHeld DEF FreeAccepted
  <2>2. ASSUME a % FRAME_SIZE = 0, a \div FRAME_SIZE \in held,
               Len(pending) < MAX_PENDING_FREE
        PROVE  FreeAccepted(a)
    <3> DEFINE f == a \div FRAME_SIZE
    <3>1. /\ a \in Nat /\ FRAME_SIZE \in Nat \ {0} /\ POLICY_MIN_ADDR \in Nat
      BY PmmAssumption DEF Word
    <3>2. f \in Nat /\ a = f * FRAME_SIZE
      BY <3>1, <2>2, DivSmall, DivExact
    <3>3. f \in held
      BY <2>2
    <3> HIDE DEF f
    <3>4. f \notin PendingFrames /\ IssuedBy(pmm, f)
      BY <3>2, <3>3, <2>0 DEF PmmInv, OneOwner, IssuedExactly
    <3>5. stage6d_pmm_was_frame_issued(f)
      BY <3>2, <3>4, <2>0, WasIssued
    <3>6. PICK i \in 0 .. RangeCount - 1 : InRange(f, i)
      BY <3>4 DEF IssuedBy
    <3>7. stage6c_is_eligible_frame(f)
      BY <3>6 DEF stage6c_is_eligible_frame
    <3>8. a >= POLICY_MIN_ADDR
      <4>1. /\ RangeAt(i).start_frame \in Nat
            /\ f >= RangeAt(i).start_frame
            /\ i + 1 \in 1 .. Len(frames.ranges)
        BY <3>6, <2>0, RangeFacts DEF InRange, RangeCount
      <4>2. RangeAt(i).start_frame * FRAME_SIZE >= POLICY_MIN_ADDR
        BY <4>1, <2>0 DEF Ascending, RangeAt
      <4>3. f * FRAME_SIZE >= RangeAt(i).start_frame * FRAME_SIZE
        BY <4>1, <3>1, <3>2
      <4> QED BY <4>1, <4>2, <4>3, <3>1, <3>2
    <3> QED BY <3>4, <3>5, <3>7, <3>8, <2>2 DEF FreeAccepted, f
  <2> QED BY <2>1, <2>2
<1> QED BY <1>1, SpecExact, PTL

(* With ascending ranges no frame is lost or invented by any sequence of   *)
(* allocations and frees.                                                  *)
THEOREM Conservation == PmmSpec => []FramesConserved
<1>1. ExactIfAscending => FramesConserved
  BY DEF ExactIfAscending, ExactInv, Account, FramesConserved
<1> QED BY <1>1, SpecExact, PTL

-----------------------------------------------------------------------------
(* The frames of the range table.                                          *)
Eligible == {f \in 0 .. MAX_FRAME : stage6c_is_eligible_frame(f)}

(* The FIFO holds as many frames as it has entries.                        *)
LEMMA PendingCount ==
    ASSUME PmmInv
    PROVE  /\ IsFiniteSet(PendingFrames) /\ Cardinality(PendingFrames) = Len(pending)
           /\ Len(pending) \in Nat
<1> DEFINE n == Len(pending)
           g == [k \in 1 .. n |-> pending[k]]
<1>1. n \in Nat /\ \A k, j \in 1 .. n : pending[k] = pending[j] => k = j
  BY DEF PmmInv, PmmTypeOK, OneOwner
<1>2. g \in Bijection(1 .. n, PendingFrames)
  BY <1>1 DEF PendingFrames, Bijection, Injection, Surjection, IsInjective
<1>3. ExistsBijection(1 .. n, PendingFrames)
  BY <1>2 DEF ExistsBijection
<1> HIDE DEF n, g
<1>4. Cardinality(PendingFrames) = n /\ IsFiniteSet(PendingFrames)
  BY <1>1, <1>3, FS_CountingElements, FS_NatBijection
<1> QED BY <1>1, <1>4 DEF n

(* A frame that was issued is one of the table.                            *)
LEMMA IssuedEligible ==
    ASSUME ExactInv
    PROVE  held \cup PendingFrames \subseteq Eligible
<1> SUFFICES ASSUME NEW f \in held \cup PendingFrames PROVE f \in Eligible
  OBVIOUS
<1>1. f \in 0 .. MAX_FRAME
  <2>1. pending \in Seq(0 .. MAX_FRAME) /\ held \subseteq 0 .. MAX_FRAME
    BY DEF ExactInv, PmmInv, PmmTypeOK
  <2>2. PendingFrames \subseteq 0 .. MAX_FRAME
    BY <2>1, ElementOfSeq DEF PendingFrames
  <2> QED BY <2>1, <2>2
<1>2. IssuedBy(pmm, f)
  <2>1. f \in Nat
    BY <1>1, MaxFrame
  <2> QED BY <2>1 DEF ExactInv, IssuedExactly
<1> QED BY <1>1, <1>2 DEF Eligible, IssuedBy, stage6c_is_eligible_frame

(* The size of a disjoint union.                                           *)
LEMMA DisjointUnion ==
    ASSUME NEW S, NEW T, IsFiniteSet(S), IsFiniteSet(T), S \cap T = {}
    PROVE  /\ IsFiniteSet(S \cup T)
           /\ Cardinality(S \cup T) = Cardinality(S) + Cardinality(T)
<1>1. /\ IsFiniteSet(S \cup T)
      /\ Cardinality(S \cup T) = Cardinality(S) + Cardinality(T) - Cardinality(S \cap T)
  BY FS_Union
<1>2. Cardinality(S \cap T) = 0
  BY FS_EmptySet
<1>3. Cardinality(S) \in Nat /\ Cardinality(T) \in Nat
  BY FS_CardinalityType
<1> QED BY <1>1, <1>2, <1>3

(* The eligible frames are the held, the waiting and the unissued ones.    *)
LEMMA EligibleSplit ==
    ASSUME ExactInv
    PROVE  /\ IsFiniteSet(Unissued) /\ Cardinality(Unissued) \in Nat
           /\ Cardinality(Eligible) =
                    Cardinality(Unissued) + Len(pending) + Cardinality(held)
<1>1. Eligible = (Unissued \cup PendingFrames) \cup held
  BY IssuedEligible DEF Eligible, Unissued
<1>2. /\ Unissued \cap PendingFrames = {}
      /\ (Unissued \cup PendingFrames) \cap held = {}
  BY DEF ExactInv, PmmInv, OneOwner, Unissued
<1>3. IsFiniteSet(Unissued)
  <2>1. Unissued \in SUBSET (0 .. MAX_FRAME) /\ IsFiniteSet(0 .. MAX_FRAME)
    BY FS_Interval, MaxFrame DEF Unissued
  <2> QED BY <2>1, FS_Subset
<1>4. /\ IsFiniteSet(PendingFrames) /\ Cardinality(PendingFrames) = Len(pending)
      /\ IsFiniteSet(held) /\ Cardinality(held) \in Nat /\ Len(pending) \in Nat
      /\ Cardinality(Unissued) \in Nat
  BY <1>3, PendingCount, HeldFinite, FS_CardinalityType DEF ExactInv
<1>5. \A S, T : IsFiniteSet(S) /\ IsFiniteSet(T) /\ S \cap T = {} =>
            /\ IsFiniteSet(S \cup T)
            /\ Cardinality(S \cup T) = Cardinality(S) + Cardinality(T)
  BY DisjointUnion
<1>6. /\ IsFiniteSet(Unissued \cup PendingFrames)
      /\ Cardinality(Unissued \cup PendingFrames) = Cardinality(Unissued) + Len(pending)
  BY <1>2, <1>3, <1>4, <1>5
<1>7. Cardinality(Eligible) = Cardinality(Unissued \cup PendingFrames) + Cardinality(held)
  BY <1>1, <1>2, <1>4, <1>5, <1>6
<1> QED BY <1>3, <1>4, <1>6, <1>7

(* On an ascending, complete map, get_remaining_frames is the number of    *)
(* frames that allocation can still return.                                *)
THEOREM RemainingCounts == PmmSpec => []RemainingIsHonest
<1>1. ExactIfAscending => RemainingIsHonest
  <2> SUFFICES ASSUME ExactInv, Complete, pmm.is_initialized = 1
               PROVE  pmm.remaining_frame_count = Cardinality(Unissued) + Len(pending)
    BY DEF RemainingIsHonest, ExactIfAscending
  <2>1. pmm.remaining_frame_count + Cardinality(held) = Cardinality(Eligible)
    BY DEF ExactInv, Account, Complete, Eligible
  <2>2. /\ Cardinality(held) \in Nat /\ Len(pending) \in Nat
        /\ pmm.remaining_frame_count \in Nat
    BY HeldFinite, PendingCount DEF ExactInv, PmmInv, PmmTypeOK, PmmState, Word
  <2> QED BY <2>1, <2>2, EligibleSplit
<1> QED BY <1>1, SpecExact, PTL

(* remaining_frame_count is exact in both senses: nothing is lost or       *)
(* invented by allocation and free, and what it promises can be had.       *)
THEOREM BudgetIsExact == PmmSpec => []BudgetExact
BY Conservation, RemainingCounts, PTL DEF BudgetExact

(* The frames that are eligible are those of the map's ranges.             *)
LEMMA EligibleIsMap ==
    ASSUME ValidTable(frames)
    PROVE  Eligible = MapFrames(frames)
<1>1. ASSUME NEW i \in 0 .. RangeCount - 1, NEW f
      PROVE  f \in 0 .. MAX_FRAME /\ InRange(f, i) <=>
                  f \in RangeAt(i).start_frame ..
                          RangeAt(i).start_frame + RangeAt(i).frame_count - 1
  BY RangeFacts, MaxFrame DEF InRange
<1>2. RangeCount \in Nat /\ RangeCount = Len(frames.ranges)
  BY TableFacts DEF RangeCount
<1>3. \A i \in 0 .. RangeCount - 1 : i + 1 \in 1 .. Len(frames.ranges)
  BY <1>2
<1>4. \A k \in 1 .. Len(frames.ranges) :
            k - 1 \in 0 .. RangeCount - 1 /\ RangeAt(k - 1) = frames.ranges[k]
  BY <1>2 DEF RangeAt
<1>5. ASSUME NEW f \in Eligible PROVE f \in MapFrames(frames)
  <2>1. PICK i \in 0 .. RangeCount - 1 : f \in 0 .. MAX_FRAME /\ InRange(f, i)
    BY DEF Eligible, stage6c_is_eligible_frame
  <2> QED BY <1>1, <1>3, <2>1 DEF MapFrames, RangeAt
<1>6. ASSUME NEW f \in MapFrames(frames) PROVE f \in Eligible
  <2>1. PICK k \in 1 .. Len(frames.ranges) :
              f \in frames.ranges[k].start_frame ..
                      frames.ranges[k].start_frame + frames.ranges[k].frame_count - 1
    BY DEF MapFrames
  <2> QED BY <1>1, <1>4, <2>1 DEF Eligible, stage6c_is_eligible_frame
<1> QED BY <1>5, <1>6

(* Stage 5C counted every frame of the table, so the budget covers the     *)
(* waiting and the unissued frames.                                        *)
LEMMA BudgetCovers ==
    ASSUME ExactInv, NEW s \in Seeded
    PROVE  /\ s.remaining_frame_count \in Nat
           /\ s.remaining_frame_count >= Cardinality(Unissued) + Len(pending)
<1>1. ValidTable(frames) /\ s \in PmmState
  BY SeededGood DEF ExactInv, PmmInv, PmmTypeOK, GoodState
<1>2. Eligible = MapFrames(frames)
  BY <1>1, EligibleIsMap
<1>3. Cardinality(Eligible) <= frames.eligible_frames
  BY <1>1, <1>2 DEF ValidTable
<1>4. s.remaining_frame_count + Cardinality(held) = frames.eligible_frames
  BY SeededConserved
<1>5. /\ s.remaining_frame_count \in Nat /\ frames.eligible_frames \in Nat
      /\ Cardinality(held) \in Nat /\ Len(pending) \in Nat
  BY <1>1, HeldFinite, PendingCount, TableFacts DEF ExactInv, PmmState, Word
<1> QED BY <1>3, <1>4, <1>5, EligibleSplit

(* A fresh allocation on an ascending map returns the lowest frame that    *)
(* was never issued.                                                       *)
LEMMA FreshIsLowest ==
    ASSUME Ascending(frames), ExactInv, AllocFresh
    PROVE  last_alloc' \in Unissued /\ \A f \in Unissued : last_alloc' <= f
<1>0. PmmInv /\ ValidTable(frames) /\ RangeCount \in Nat
  BY TableFacts DEF ExactInv, PmmInv, PmmTypeOK
<1>1. PICK g \in 0 .. MAX_FRAME :
            /\ \A h \in held \cup PendingFrames : h < g
            /\ last_alloc' = g /\ pmm'.next_frame_index = g + 1
            /\ GoodState(pmm)' /\ pmm'.is_initialized = 1
            /\ pmm'.range_index < RangeCount
            /\ RangeAt(pmm'.range_index).start_frame <= g
            /\ g < RangeEnd(pmm'.range_index)
            /\ frames' = frames
  BY <1>0, FreshFacts
<1>2. PICK r \in 0 .. RangeCount - 1 : r = pmm'.range_index
  BY <1>0, <1>1 DEF GoodState, PmmState
<1>3. InRange(g, r)
  BY <1>0, <1>1, <1>2, RangeFacts DEF InRange
<1>4. g \in Unissued
  <2>1. g \notin held \cup PendingFrames
    BY <1>1, MaxFrame
  <2> QED BY <1>3, <2>1 DEF Unissued, stage6c_is_eligible_frame
<1>5. ASSUME NEW f \in Unissued, f < g PROVE FALSE
  <2>1. PICK i \in 0 .. RangeCount - 1 : f \in 0 .. MAX_FRAME /\ InRange(f, i)
    BY DEF Unissued, stage6c_is_eligible_frame
  <2>2. f \in Nat
    BY <2>1, MaxFrame
  <2>3. i <= r
    BY <1>0, <1>1, <1>2, <1>5, <2>1, <2>2, RangesAscend, RangeFacts DEF InRange
  <2>4. RangeCount' = RangeCount /\ (InRange(f, i)' <=> InRange(f, i))
    BY <1>1 DEF RangeCount, InRange, RangeEnd, RangeAt
  <2>5. IssuedBy(pmm, f)'
    <3>1. f < g + 1
      BY <1>5, <2>2, MaxFrame
    <3> QED BY <1>1, <1>2, <2>1, <2>3, <2>4, <3>1 DEF IssuedBy
  <2>6. IssuedBy(pmm, f) \/ f = g
    BY <1>0, <1>1, <2>2, <2>5, FreshIssued
  <2>7. f \in held \cup PendingFrames
    BY <1>5, <2>2, <2>6, MaxFrame DEF ExactInv, IssuedExactly
  <2> QED BY <2>7 DEF Unissued
<1>6. \A f \in Unissued : f \in Nat
  BY MaxFrame DEF Unissued
<1> QED BY <1>1, <1>4, <1>5, <1>6

(* alloc_frame finds no range only when every eligible frame was issued.   *)
LEMMA NoRangeAllIssued ==
    ASSUME Ascending(frames), ExactInv, AllocNoRange
    PROVE  Unissued = {}
<1>0. PmmInv /\ ValidTable(frames) /\ RangeCount \in Nat
  BY TableFacts DEF ExactInv, PmmInv, PmmTypeOK
<1>1. PICK s0 \in Seeded : \E s \in stage6a_pmm_advance_to_next_eligible(s0) :
            s.range_index >= RangeCount
  BY DEF AllocNoRange
<1>2. PICK s \in stage6a_pmm_advance_to_next_eligible(s0) : s.range_index >= RangeCount
  BY <1>1
<1> SUFFICES ASSUME NEW f \in Unissued PROVE FALSE
  OBVIOUS
<1>3. PICK i \in 0 .. RangeCount - 1 : f \in 0 .. MAX_FRAME /\ InRange(f, i)
  BY DEF Unissued, stage6c_is_eligible_frame
<1>4. f \in Nat
  BY <1>3, MaxFrame
<1>5. /\ GoodState(s0) /\ CursorIn(s0) /\ s0.is_initialized = 1
      /\ IssuedBy(s0, f) <=> IssuedBy(pmm, f)
  BY <1>0, <1>4, SeededGood, SeededIssued
<1>6. /\ GoodState(s) /\ s.is_initialized = 1
      /\ IssuedBy(s, f) <=> IssuedBy(s0, f)
  BY <1>0, <1>4, <1>5, AdvanceGood, AdvanceIssued
<1>7. i < s.range_index
  BY <1>0, <1>2, <1>3, <1>6 DEF GoodState, PmmState
<1>8. IssuedBy(s, f)
  BY <1>3, <1>6, <1>7 DEF IssuedBy
<1>9. f \in held \cup PendingFrames
  BY <1>4, <1>5, <1>6, <1>8 DEF ExactInv, IssuedExactly
<1> QED BY <1>9 DEF Unissued

(* The frame that alloc_frame returns on an ascending map.                 *)
Ordered ==
    IF pending # <<>> THEN last_alloc' = Head(pending)
    ELSE IF Unissued # {}
        THEN /\ last_alloc' \in Unissued
             /\ \A f \in Unissued : last_alloc' <= f
        ELSE last_alloc' = NoFrame

LEMMA AllocOrdered ==
    ASSUME ExactIfAscending, Ascending(frames), stage6b_pmm_alloc_frame
    PROVE  Ordered
<1> USE DEF Ordered
<1>0. ExactInv /\ PmmInv /\ pmm \in PmmState
  BY DEF ExactIfAscending, ExactInv, PmmInv, PmmTypeOK
<1>1. /\ Len(pending) \in Nat /\ Cardinality(Unissued) \in Nat
      /\ pending # <<>> => Len(pending) > 0
      /\ Unissued # {} => Cardinality(Unissued) > 0
      /\ pending \in Seq(0 .. MAX_FRAME)
  <2>1. pending \in Seq(0 .. MAX_FRAME)
    BY <1>0 DEF PmmInv, PmmTypeOK
  <2>2. pending # <<>> => Len(pending) > 0
    BY <2>1, EmptySeq
  <2>3. Unissued # {} => Cardinality(Unissued) # 0
    BY <1>0, EligibleSplit, FS_EmptySet
  <2> QED BY <1>0, <2>1, <2>2, <2>3, EligibleSplit, PendingCount
<1>2. CASE pending # <<>>
  <2>1. pmm.is_initialized = 1
    BY <1>0, <1>2 DEF PmmInv, Unseeded, PmmState
  <2>2. pmm \in Seeded
    BY <2>1 DEF Seeded
  <2>3. pmm.remaining_frame_count # 0
    BY <1>0, <1>1, <1>2, <2>2, BudgetCovers
  <2>4. Head(pending) \in 0 .. MAX_FRAME
    <3>1. 1 \in 1 .. Len(pending) /\ Head(pending) = pending[1]
      BY <1>1, <1>2
    <3>2. pending[1] \in 0 .. MAX_FRAME
      BY <1>1, <3>1, ElementOfSeq
    <3> QED BY <3>1, <3>2
  <2>5. ReuseSucceeds
    BY <1>2, <2>3, <2>4, MaxFrame DEF ReuseSucceeds, PopsPending
  <2> QED BY <1>2, <2>5
      DEF stage6b_pmm_alloc_frame, AllocFresh, AllocNoRange, AllocExhausted,
          stage6d_pmm_try_allocate_reused_frame
<1>3. CASE pending = <<>> /\ AllocFresh
  BY <1>0, <1>3, FreshIsLowest
<1>4. CASE pending = <<>> /\ AllocNoRange
  BY <1>0, <1>4, NoRangeAllIssued DEF AllocNoRange, AllocFails
<1>5. CASE pending = <<>> /\ AllocExhausted
  <2>1. Unissued = {}
    BY <1>0, <1>1, <1>5, BudgetCovers DEF AllocExhausted
  <2> QED BY <1>5, <2>1 DEF AllocExhausted, AllocFails
<1>6. CASE stage6d_pmm_try_allocate_reused_frame
  BY <1>2, <1>6 DEF stage6d_pmm_try_allocate_reused_frame, ReuseSucceeds, PopsPending
<1> QED BY <1>2, <1>3, <1>4, <1>5, <1>6 DEF stage6b_pmm_alloc_frame

(* On an ascending map alloc_frame returns the frame freed longest ago,    *)
(* else the lowest eligible frame never issued, and fails only when there  *)
(* is neither.                                                             *)
THEOREM AllocationOrder == PmmSpec => AllocOrder
<1>1. ExactIfAscending /\ [PmmNext]_pmm_vars =>
        [Ascending(frames) /\ stage6b_pmm_alloc_frame => Ordered]_pmm_vars
  BY AllocOrdered
<1> QED BY <1>1, SpecExact, PTL DEF PmmSpec, AllocOrder, Ordered


-----------------------------------------------------------------------------
(***************************************************************************)
(* What callers see of the allocator on every map, ascending or not: the   *)
(* frames they are given belong to the map, and the budget covers the      *)
(* FIFO, so a waiting frame is always served.                              *)
(***************************************************************************)
Served ==
    /\ held \cup PendingFrames \subseteq MapFrames(frames)
    /\ pmm.remaining_frame_count >= Len(pending)

LEMMA ServedReset == PmmReset => Served
<1> SUFFICES ASSUME PmmReset PROVE Served
  OBVIOUS
<1>1. held = {} /\ PendingFrames = {} /\ pending = <<>> /\ pmm.remaining_frame_count = 0
  BY DEF PmmReset, stage6a_pmm_reset_state, PendingFrames
<1> QED BY <1>1 DEF Served

LEMMA ServedInit == PmmInit => Served
BY ServedReset DEF PmmInit

(* An allocation fails with an empty FIFO only; a frame it returns belongs *)
(* to the map and to nobody else, and is the head of a FIFO with members.  *)
LEMMA AllocEffect ==
    ASSUME PmmInv, Served, stage6b_pmm_alloc_frame
    PROVE  /\ frames' = frames
           /\ \/ /\ last_alloc' = NoFrame /\ held' = held
                 /\ pending' = pending /\ pending = <<>>
              \/ /\ last_alloc' \in MapFrames(frames) /\ last_alloc' \in 0 .. MAX_FRAME
                 /\ last_alloc' \notin held /\ held' = held \cup {last_alloc'}
                 /\ PendingFrames' = PendingFrames \ {last_alloc'}
                 /\ pending # <<>> => last_alloc' = Head(pending)
           /\ Served'
<1>1. /\ pmm \in PmmState /\ pmm.remaining_frame_count \in Nat /\ ValidTable(frames)
      /\ pending \in Seq(0 .. MAX_FRAME) /\ Len(pending) \in Nat
      /\ held \cap PendingFrames = {}
  BY DEF PmmInv, PmmTypeOK, PmmState, Word, OneOwner
<1>2. CASE pending # <<>>
  <2>1. Len(pending) > 0
    BY <1>1, <1>2, EmptySeq
  <2>2. PICK h : h = Head(pending) /\ h = pending[1]
    BY <1>1, <1>2
  <2>3. h \in 0 .. MAX_FRAME
    <3>1. 1 \in 1 .. Len(pending)
      BY <1>1, <2>1
    <3>2. pending[1] \in 0 .. MAX_FRAME
      BY <1>1, <3>1, ElementOfSeq
    <3> QED BY <2>2, <3>2
  <2>4. ReuseSucceeds
    <3>1. pmm.remaining_frame_count # 0
      BY <1>1, <2>1 DEF Served
    <3> QED BY <1>2, <2>2, <2>3, <3>1, MaxFrame DEF ReuseSucceeds, PopsPending
  <2>5. stage6d_pmm_try_allocate_reused_frame
    BY <2>4 DEF stage6b_pmm_alloc_frame, AllocFresh, AllocNoRange, AllocExhausted
  <2>6. /\ pending' = Tail(pending) /\ pmm' = SpendOne(pmm) /\ frames' = frames
        /\ held' = held \cup {h} /\ last_alloc' = h
    BY <2>2, <2>5 DEF stage6d_pmm_try_allocate_reused_frame
  <2>7. /\ h \in PendingFrames /\ PendingFrames' = PendingFrames \ {h}
        /\ Len(pending') = Len(pending) - 1
    BY <1>2, <2>2, <2>6, PopFacts
  <2>8. pmm'.remaining_frame_count = pmm.remaining_frame_count - 1
    BY <1>1, <2>4, <2>6, SpendFacts DEF ReuseSucceeds, PopsPending
  <2>9. Served'
    BY <1>1, <2>1, <2>6, <2>7, <2>8 DEF Served
  <2>10. h \in MapFrames(frames) /\ h \notin held
    BY <1>1, <2>7 DEF Served
  <2> QED BY <2>2, <2>3, <2>6, <2>7, <2>9, <2>10
<1>3. CASE pending = <<>> /\ AllocFresh
  <2>1. PICK f \in 0 .. MAX_FRAME :
                /\ \A g \in held \cup PendingFrames : g < f
                /\ held' = held \cup {f} /\ last_alloc' = f
                /\ pending' = pending /\ GoodState(pmm)'
                /\ pmm'.range_index < RangeCount
                /\ RangeAt(pmm'.range_index).start_frame <= f
                /\ f < RangeEnd(pmm'.range_index)
                /\ frames' = frames
    BY <1>3, FreshFacts
  <2>2. f \notin held /\ PendingFrames = {} /\ PendingFrames' = {}
    BY <1>3, <2>1, MaxFrame DEF PendingFrames
  <2>3. PICK r \in 0 .. RangeCount - 1 : r = pmm'.range_index
    BY <1>1, <2>1, TableFacts DEF GoodState, PmmState
  <2>4. InRange(f, r)
    BY <1>1, <2>1, <2>3, RangeFacts DEF InRange
  <2>5. f \in MapFrames(frames)
    BY <1>1, <2>4, EligibleIsMap DEF Eligible, stage6c_is_eligible_frame
  <2>6. pmm'.remaining_frame_count >= Len(pending')
    <3>1. pmm'.remaining_frame_count \in Nat
      BY <2>1 DEF GoodState, PmmState, Word
    <3> QED BY <1>3, <2>1, <3>1
  <2>7. Served'
    BY <2>1, <2>2, <2>5, <2>6 DEF Served
  <2> QED BY <1>3, <2>1, <2>2, <2>5, <2>7
<1>4. CASE pending = <<>> /\ (AllocNoRange \/ AllocExhausted)
  <2>1. /\ pending' = pending /\ held' = held /\ frames' = frames
        /\ last_alloc' = NoFrame /\ GoodState(pmm)'
    BY <1>4, FailFacts
  <2>2. pmm'.remaining_frame_count \in Nat
    BY <2>1 DEF GoodState, PmmState, Word
  <2>3. PendingFrames' = PendingFrames /\ Len(pending') = 0
    BY <1>4, <2>1 DEF PendingFrames
  <2> QED BY <1>4, <2>1, <2>2, <2>3 DEF Served
<1> QED BY <1>2, <1>3, <1>4
    DEF stage6b_pmm_alloc_frame, stage6d_pmm_try_allocate_reused_frame,
        ReuseSucceeds, PopsPending

(* A free moves a frame of the map to the FIFO and pays for it.            *)
LEMMA FreeServed ==
    ASSUME PmmInv, Served, NEW a \in Word, stage6c_pmm_free_frame(a)
    PROVE  /\ Served' /\ frames' = frames
           /\ held' = held \ {a \div FRAME_SIZE}
           /\ PendingFrames' = PendingFrames \cup {a \div FRAME_SIZE}
<1> DEFINE f == a \div FRAME_SIZE
<1>1. /\ FreeAccepted(a) /\ pending' = Append(pending, f)
      /\ pmm' = [pmm EXCEPT !.remaining_frame_count = add_clamp_u64(@, 1)]
      /\ held' = held \ {f} /\ frames' = frames
  BY DEF stage6c_pmm_free_frame
<1>2. /\ pmm \in PmmState /\ pmm.remaining_frame_count \in Word /\ ValidTable(frames)
      /\ Len(pending) \in Nat /\ Len(pending) <= MAX_PENDING_FREE
  BY DEF PmmInv, PmmTypeOK, PmmState
<1>3. f \in Eligible /\ f \notin PendingFrames /\ Len(pending) < MAX_PENDING_FREE
  <2>1. f \in Nat
    BY DivSmall, PmmAssumption DEF Word
  <2>2. /\ stage6c_is_eligible_frame(f) /\ f \notin PendingFrames
        /\ Len(pending) < MAX_PENDING_FREE
    BY <1>1 DEF FreeAccepted
  <2>3. PICK i \in 0 .. RangeCount - 1 : f < RangeEnd(i)
    BY <2>2 DEF stage6c_is_eligible_frame, InRange
  <2>4. RangeEnd(i) \in Nat /\ RangeEnd(i) <= MAX_FRAME
    BY <1>2, RangeFacts
  <2> HIDE DEF f
  <2> QED BY <2>1, <2>2, <2>3, <2>4, MaxFrame DEF Eligible
<1> HIDE DEF f
<1>4. PendingFrames' = PendingFrames \cup {f} /\ Len(pending') = Len(pending) + 1
  BY <1>1, <1>3, AppendFacts DEF Eligible
<1>5. pmm'.remaining_frame_count >= Len(pending')
  <2>1. pmm'.remaining_frame_count = add_clamp_u64(pmm.remaining_frame_count, 1)
    BY <1>1, <1>2 DEF PmmState
  <2>2. ASSUME NEW w \in Word PROVE add_clamp_u64(w, 1) \in {w + 1, UINT64_MAX}
    <3>1. CASE w + 1 <= UINT64_MAX
      BY <3>1, WordAssumption DEF add_clamp_u64, Word
    <3>2. CASE w = UINT64_MAX
      <4>1. (w + 1) % (UINT64_MAX + 1) = 0
        BY <3>2, WordAssumption
      <4> QED BY <3>2, <4>1, WordAssumption DEF add_clamp_u64
    <3> QED BY <3>1, <3>2, WordAssumption DEF Word
  <2>3. pmm.remaining_frame_count >= Len(pending) /\ Len(pending') <= UINT64_MAX
    BY <1>2, <1>3, <1>4, PmmAssumption, WordAssumption DEF Served, Word
  <2> QED BY <1>2, <1>4, <2>1, <2>2, <2>3 DEF Word
<1>6. f \in MapFrames(frames)
  BY <1>2, <1>3, EligibleIsMap
<1>7. Served'
  BY <1>1, <1>4, <1>5, <1>6 DEF Served
<1> QED BY <1>1, <1>4, <1>7 DEF f

(* Every call keeps this.                                                  *)
(* The allocator never writes the table it works on.                       *)
LEMMA FramesFixed == [PmmNext]_pmm_vars => frames' = frames
BY DEF PmmNext, BootSeed, stage6b_pmm_alloc_frame, stage6d_pmm_try_allocate_reused_frame,
       AllocFresh, AllocNoRange, AllocExhausted, stage6c_pmm_free_frame, FreeRejected,
       pmm_vars

LEMMA ServedNext == PmmInv /\ Served /\ [PmmNext]_pmm_vars => Served'
<1> SUFFICES ASSUME PmmInv, Served, [PmmNext]_pmm_vars PROVE Served'
  OBVIOUS
<1>1. CASE BootSeed
  <2>1. frames' = frames /\ held' = held /\ pending' = pending /\ pending = <<>>
    BY <1>1 DEF BootSeed, PmmInv, Unseeded
  <2>2. pmm'.remaining_frame_count \in Nat
    <3>1. PmmInv'
      BY PmmNextInv
    <3> QED BY <3>1 DEF PmmInv, PmmTypeOK, PmmState, Word
  <2>3. PendingFrames' = PendingFrames /\ Len(pending') = 0
    BY <2>1 DEF PendingFrames
  <2> QED BY <2>1, <2>2, <2>3 DEF Served
<1>2. CASE stage6b_pmm_alloc_frame
  BY <1>2, AllocEffect
<1>3. ASSUME NEW a \in Word, stage6c_pmm_free_frame(a) PROVE Served'
  BY <1>3, FreeServed
<1>4. CASE UNCHANGED <<frames, pmm, pending, held>>
  BY <1>4 DEF Served, PendingFrames
<1> QED BY <1>1, <1>2, <1>3, <1>4 DEF PmmNext, FreeRejected, pmm_vars
=============================================================================
