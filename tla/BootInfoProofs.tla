-------------------------- MODULE BootInfoProofs --------------------------
(***************************************************************************)
(* Proofs about the boot information parser and the frame bookkeeping, for *)
(* every structure, word size, frame size, kernel placement and table      *)
(* size.                                                                   *)
(*                                                                         *)
(* The frames of a region are described without rounding: a frame belongs  *)
(* to start .. end when it starts at or after the one and ends at or       *)
(* before the other (Span).  What Stage 5C records are intervals of frame  *)
(* numbers that are exactly such spans.                                    *)
(***************************************************************************)
EXTENDS BringUp, PmmProofs

(* Division with remainder.                                                *)
LEMMA DivMod ==
    ASSUME NEW x \in Nat, NEW d \in Nat \ {0}
    PROVE  /\ x \div d \in Nat /\ x % d \in 0 .. d - 1
           /\ x = (d * (x \div d)) + (x % d)
OBVIOUS

(* Multiples keep the order of their factors.                              *)
LEMMA MultOrder ==
    ASSUME NEW a \in Nat, NEW b \in Nat, NEW d \in Nat \ {0}
    PROVE  (a * d < b * d <=> a < b) /\ (a * d <= b * d <=> a <= b)
<1>1. a < b => a * d < b * d
  OBVIOUS
<1>2. b <= a => b * d <= a * d
  OBVIOUS
<1>3. b < a => b * d < a * d
  OBVIOUS
<1>4. a <= b => a * d <= b * d
  OBVIOUS
<1> QED BY <1>1, <1>2, <1>3, <1>4

(* The guarded additions of Stage 5: a sum that leaves the word is         *)
(* reported, or clamped.                                                   *)
LEMMA Additions ==
    ASSUME NEW a \in Word, NEW b \in Word
    PROVE  /\ checked_add_overflows(a, b) <=> a + b > UINT64_MAX
           /\ add_clamp_u64(a, b) = IF a + b > UINT64_MAX THEN UINT64_MAX ELSE a + b
           /\ add_clamp_u64(a, b) \in Word
           /\ UINT64_MAX \in Nat /\ a \in Nat /\ b \in Nat
<1>1. UINT64_MAX \in Nat /\ a \in Nat /\ b \in Nat /\ a <= UINT64_MAX /\ b <= UINT64_MAX
  BY WordAssumption DEF Word
<1>2. a + b <= UINT64_MAX => (a + b) % (UINT64_MAX + 1) = a + b
  BY <1>1
<1>3. a + b > UINT64_MAX => (a + b) % (UINT64_MAX + 1) = a + b - (UINT64_MAX + 1)
  BY <1>1
<1>4. checked_add_overflows(a, b) <=> a + b > UINT64_MAX
  BY <1>1, <1>2, <1>3 DEF checked_add_overflows
<1>5. add_clamp_u64(a, b) = IF a + b > UINT64_MAX THEN UINT64_MAX ELSE a + b
  BY <1>1, <1>2, <1>3 DEF add_clamp_u64
<1> QED BY <1>1, <1>4, <1>5 DEF Word

(* The constants of the frame bookkeeping.                                 *)
LEMMA FrameConstants ==
    /\ FRAME_SIZE \in Nat \ {0} /\ UINT64_MAX \in Nat /\ FRAME_SIZE - 1 \in Word
    /\ POLICY_MIN_ADDR \in Nat /\ MAX_REGIONS \in Nat /\ MAX_RANGES \in Nat
    /\ KERNEL_PHYS_START \in Word /\ KERNEL_PHYS_END \in Word
    /\ KERNEL_PHYS_START < KERNEL_PHYS_END
<1>1. FRAME_SIZE \in Nat \ {0} /\ UINT64_MAX \in Nat /\ (UINT64_MAX + 1) % FRAME_SIZE = 0
  BY MemoryMapAssumption, WordAssumption
<1>2. FRAME_SIZE <= UINT64_MAX + 1
  BY <1>1
<1> QED BY <1>1, <1>2, MemoryMapAssumption DEF Word

-----------------------------------------------------------------------------
(* The frames that lie wholly in start .. end - 1.                         *)
Span(start, end) == {x \in Nat : start <= FrameStart(x) /\ FrameEnd(x) <= end}

(* Rounding an end down loses no whole frame.                              *)
LEMMA RoundDown ==
    ASSUME NEW a \in Nat
    PROVE  /\ AlignDown(a) = (a \div FRAME_SIZE) * FRAME_SIZE
           /\ AlignDown(a) \in Nat /\ AlignDown(a) <= a /\ a \div FRAME_SIZE \in Nat
           /\ AlignDown(a) \div FRAME_SIZE = a \div FRAME_SIZE
           /\ \A x \in Nat : FrameEnd(x) <= a <=> x < a \div FRAME_SIZE
<1> DEFINE q == a \div FRAME_SIZE
           r == a % FRAME_SIZE
<1>1. FRAME_SIZE \in Nat \ {0}
  BY FrameConstants
<1>2. q \in Nat /\ r \in 0 .. FRAME_SIZE - 1 /\ a = (FRAME_SIZE * q) + r
  BY <1>1, DivMod
<1>3. AlignDown(a) = a - r
  BY DEF AlignDown
<1>4. (q * FRAME_SIZE) \div FRAME_SIZE = q
  BY <1>1, <1>2
<1> HIDE DEF q, r
<1>5. AlignDown(a) = q * FRAME_SIZE /\ AlignDown(a) \in Nat /\ AlignDown(a) <= a
  BY <1>1, <1>2, <1>3
<1>6. ASSUME NEW x \in Nat PROVE FrameEnd(x) <= a <=> x < q
  <2>1. FrameEnd(x) = (x + 1) * FRAME_SIZE /\ x + 1 \in Nat
    BY <1>1 DEF FrameEnd
  <2>2. CASE x < q
    <3>1. (x + 1) * FRAME_SIZE <= q * FRAME_SIZE
      BY <1>1, <1>2, <2>2, <2>1, MultOrder
    <3> QED BY <1>1, <1>2, <2>1, <2>2, <3>1
  <2>3. CASE q <= x
    <3>1. (q + 1) * FRAME_SIZE <= (x + 1) * FRAME_SIZE
      BY <1>1, <1>2, <2>3, MultOrder
    <3>2. (q + 1) * FRAME_SIZE = (FRAME_SIZE * q) + FRAME_SIZE
      BY <1>1, <1>2
    <3>3. (x + 1) * FRAME_SIZE \in Nat /\ (FRAME_SIZE * q) \in Nat
      BY <1>1, <1>2, <2>1
    <3> QED BY <1>1, <1>2, <2>1, <2>3, <3>1, <3>2, <3>3
  <2> QED BY <1>2, <2>2, <2>3
<1> QED BY <1>2, <1>4, <1>5, <1>6 DEF q

(* Rounding a start up loses none either.                                  *)
LEMMA RoundUp ==
    ASSUME NEW a \in Nat
    PROVE  /\ stage5c_align_up_4k(a) \in Nat
           /\ stage5c_align_up_4k(a) = (stage5c_align_up_4k(a) \div FRAME_SIZE) * FRAME_SIZE
           /\ stage5c_align_up_4k(a) \div FRAME_SIZE \in Nat
           /\ \A x \in Nat : a <= FrameStart(x) <=> stage5c_align_up_4k(a) \div FRAME_SIZE <= x
<1>1. FRAME_SIZE \in Nat \ {0}
  BY FrameConstants
<1>2. PICK b \in Nat : b = a + FRAME_SIZE - 1
  BY <1>1
<1>3. stage5c_align_up_4k(a) = AlignDown(b)
  BY <1>2 DEF stage5c_align_up_4k
<1>4. PICK q \in Nat : q = b \div FRAME_SIZE
  BY RoundDown
<1>5. /\ AlignDown(b) = q * FRAME_SIZE /\ AlignDown(b) \in Nat
      /\ AlignDown(b) \div FRAME_SIZE = q
      /\ \A x \in Nat : FrameEnd(x) <= b <=> x < q
  BY <1>4, RoundDown
<1>6. ASSUME NEW x \in Nat PROVE a <= FrameStart(x) <=> q <= x
  <2>1. x * FRAME_SIZE \in Nat /\ FrameEnd(x) = FrameStart(x) + FRAME_SIZE
        /\ FrameStart(x) = x * FRAME_SIZE
    BY <1>1 DEF FrameEnd, FrameStart
  <2>2. FrameEnd(x) <= b <=> ~ (a <= FrameStart(x))
    BY <1>1, <1>2, <2>1
  <2> QED BY <1>4, <1>5, <2>2
<1> QED BY <1>3, <1>5, <1>6

(* What a call of stage5c_record_eligible_span does: nothing when the span *)
(* holds no frame; otherwise its frames are counted, and recorded as one   *)
(* range while the table has room.                                         *)
RangeRec == [start_frame : Nat, frame_count : Nat \ {0}]

TableRec ==
    [ranges : Seq(RangeRec), dropped_ranges : Nat, eligible_frames : Word,
     highest_eligible_frame : Word]

SpanRecorded(f, g, lo, hi) ==
    /\ g \in TableRec
    /\ g.eligible_frames = add_clamp_u64(f.eligible_frames, hi - lo)
    /\ \/ /\ Len(f.ranges) >= MAX_RANGES
          /\ g.ranges = f.ranges /\ g.dropped_ranges = f.dropped_ranges + 1
       \/ /\ Len(f.ranges) < MAX_RANGES
          /\ g.ranges = Append(f.ranges, [start_frame |-> lo, frame_count |-> hi - lo])
          /\ g.dropped_ranges = f.dropped_ranges

LEMMA RecordSpan ==
    ASSUME NEW f \in TableRec, NEW start \in Word, NEW end \in Word,
           NEW g, g = stage5c_record_eligible_span(f, start, end)
    PROVE  \/ g = f /\ Span(start, end) = {}
           \/ \E lo, hi \in Nat :
                /\ lo < hi /\ hi <= UINT64_MAX \div FRAME_SIZE
                /\ Span(start, end) = lo .. hi - 1
                /\ SpanRecorded(f, g, lo, hi)
<1>1. FRAME_SIZE \in Nat \ {0} /\ UINT64_MAX \in Nat /\ FRAME_SIZE - 1 \in Word
      /\ start \in Nat /\ end \in Nat /\ end <= UINT64_MAX
  BY FrameConstants, Additions DEF Word
<1>2. PICK lo \in Nat : lo = stage5c_align_up_4k(start) \div FRAME_SIZE
  BY <1>1, RoundUp
<1>3. PICK hi \in Nat : hi = end \div FRAME_SIZE
  BY <1>1, RoundDown
<1>4. /\ stage5c_align_up_4k(start) = lo * FRAME_SIZE
      /\ \A x \in Nat : start <= FrameStart(x) <=> lo <= x
  BY <1>1, <1>2, RoundUp
<1>5. /\ AlignDown(end) = hi * FRAME_SIZE
      /\ \A x \in Nat : FrameEnd(x) <= end <=> x < hi
  BY <1>1, <1>3, RoundDown
<1>6. Span(start, end) = lo .. hi - 1
  BY <1>4, <1>5 DEF Span
<1>7. AlignDown(end) <= stage5c_align_up_4k(start) <=> hi <= lo
  BY <1>1, <1>4, <1>5, MultOrder
<1>8. ASSUME NEW x \in Span(start, end) PROVE ~ AlignUpOverflows(start) /\ start < end
  <2>1. x * FRAME_SIZE \in Nat /\ start <= x * FRAME_SIZE /\ x * FRAME_SIZE + FRAME_SIZE <= end
    BY <1>1 DEF Span, FrameStart, FrameEnd
  <2>2. start + (FRAME_SIZE - 1) <= UINT64_MAX /\ start < end
    BY <1>1, <2>1
  <2> QED BY <1>1, <2>2, Additions DEF AlignUpOverflows
<1>9. CASE hi <= lo
  <2>1. Span(start, end) = {}
    BY <1>6, <1>9
  <2> QED BY <1>7, <1>9, <2>1 DEF stage5c_record_eligible_span
<1>10. CASE lo < hi
  <2>1. lo \in Span(start, end)
    BY <1>6, <1>10
  <2>2. ~ (end <= start \/ AlignUpOverflows(start)
            \/ AlignDown(end) <= stage5c_align_up_4k(start))
    BY <1>1, <1>7, <1>8, <1>10, <2>1
  <2>3. (AlignDown(end) - stage5c_align_up_4k(start)) \div FRAME_SIZE = hi - lo
    <3>1. AlignDown(end) - stage5c_align_up_4k(start) = (hi - lo) * FRAME_SIZE
      BY <1>1, <1>4, <1>5
    <3>2. PICK d \in Nat : d = hi - lo
      BY <1>10
    <3>3. (d * FRAME_SIZE) \div FRAME_SIZE = d
      BY <1>1, <3>2
    <3> QED BY <3>1, <3>2, <3>3
  <2>4. PICK top \in Word : top = (AlignDown(end) - FRAME_SIZE) \div FRAME_SIZE
    <3>1. AlignDown(end) - FRAME_SIZE = (hi - 1) * FRAME_SIZE /\ hi - 1 \in Nat
      BY <1>1, <1>5, <1>10
    <3>2. ((hi - 1) * FRAME_SIZE) \div FRAME_SIZE = hi - 1
      BY <1>1, <3>1
    <3>3. hi <= end
      BY <1>1, <1>3
    <3> QED BY <1>1, <3>1, <3>2, <3>3 DEF Word
  <2>5. PICK h \in Word : h = Larger(f.highest_eligible_frame, top)
    BY DEF Larger, TableRec
  <2>6. hi - lo \in Nat \ {0} /\ hi - lo \in Word /\ hi <= UINT64_MAX \div FRAME_SIZE
    <3>1. hi <= end /\ end \div FRAME_SIZE <= UINT64_MAX \div FRAME_SIZE
      BY <1>1, <1>3
    <3> QED BY <1>1, <1>3, <1>10, <3>1 DEF Word
  <2>7. PICK e \in Word : e = add_clamp_u64(f.eligible_frames, hi - lo)
    BY <2>6, Additions DEF TableRec
  <2>8. [start_frame |-> lo, frame_count |-> hi - lo] \in RangeRec
    BY <2>6 DEF RangeRec
  <2> DEFINE rr == stage5c_record_range(f, lo, hi - lo)
  <2>9. /\ rr \in TableRec /\ rr.eligible_frames = f.eligible_frames
        /\ rr.highest_eligible_frame = f.highest_eligible_frame
        /\ \/ /\ Len(f.ranges) >= MAX_RANGES
              /\ rr.ranges = f.ranges /\ rr.dropped_ranges = f.dropped_ranges + 1
           \/ /\ Len(f.ranges) < MAX_RANGES
              /\ rr.ranges = Append(f.ranges, [start_frame |-> lo, frame_count |-> hi - lo])
              /\ rr.dropped_ranges = f.dropped_ranges
    <3>1. f.ranges \in Seq(RangeRec) /\ Len(f.ranges) \in Nat /\ f.dropped_ranges + 1 \in Nat
          /\ MAX_RANGES \in Nat
      BY FrameConstants DEF TableRec
    <3>2. Append(f.ranges, [start_frame |-> lo, frame_count |-> hi - lo]) \in Seq(RangeRec)
      BY <2>8, <3>1
    <3>3. CASE Len(f.ranges) >= MAX_RANGES
      <4>1. rr = [f EXCEPT !.dropped_ranges = @ + 1]
        BY <3>3 DEF stage5c_record_range
      <4> HIDE DEF rr
      <4> QED BY <3>1, <3>3, <4>1 DEF TableRec
    <3>4. CASE Len(f.ranges) < MAX_RANGES
      <4>1. rr = [f EXCEPT !.ranges =
                    Append(@, [start_frame |-> lo, frame_count |-> hi - lo])]
        BY <3>1, <3>4 DEF stage5c_record_range
      <4> HIDE DEF rr
      <4> QED BY <3>1, <3>2, <3>4, <4>1 DEF TableRec
    <3> QED BY <3>1, <3>3, <3>4
  <2>10. g = [rr EXCEPT !.eligible_frames = add_clamp_u64(@, hi - lo),
                        !.highest_eligible_frame = Larger(@, top)]
    BY <1>2, <2>2, <2>3, <2>4 DEF stage5c_record_eligible_span
  <2> HIDE DEF rr
  <2>11. g = [rr EXCEPT !.eligible_frames = e, !.highest_eligible_frame = h]
    BY <2>5, <2>7, <2>9, <2>10 DEF TableRec
  <2>12. SpanRecorded(f, g, lo, hi)
    BY <2>7, <2>9, <2>11 DEF SpanRecorded, TableRec
  <2> QED BY <1>6, <1>10, <2>6, <2>12
<1> QED BY <1>9, <1>10

-----------------------------------------------------------------------------
(* The frames a table records, and what holds of every table that Stage 5C *)
(* builds: ranges are below the last frame and counted, and so are their   *)
(* frames together.                                                        *)
RecordedIn(f) == UNION {FramesOf(f.ranges[k]) : k \in DOMAIN f.ranges}

TableOK(f) ==
    /\ f \in TableRec /\ Len(f.ranges) <= MAX_RANGES
    /\ \A k \in 1 .. Len(f.ranges) :
            /\ f.ranges[k].start_frame + f.ranges[k].frame_count <= UINT64_MAX \div FRAME_SIZE
            /\ f.ranges[k].frame_count <= f.eligible_frames
    /\ IsFiniteSet(RecordedIn(f)) /\ Cardinality(RecordedIn(f)) <= f.eligible_frames

TableAscends(f) ==
    \A a, b \in DOMAIN f.ranges :
        a < b => f.ranges[a].start_frame + f.ranges[a].frame_count <= f.ranges[b].start_frame

(* Without a dropped range the total of an ordered table is exact.         *)
TableExact(f) ==
    /\ TableAscends(f)
    /\ f.dropped_ranges = 0 => f.eligible_frames = Cardinality(RecordedIn(f))

(* Appending a range adds its frames.                                      *)
LEMMA AppendRange ==
    ASSUME NEW f \in TableRec, NEW g \in TableRec, NEW r \in RangeRec,
           g.ranges = Append(f.ranges, r)
    PROVE  /\ Len(g.ranges) = Len(f.ranges) + 1 /\ Len(f.ranges) \in Nat
           /\ DOMAIN f.ranges = 1 .. Len(f.ranges) /\ DOMAIN g.ranges = 1 .. Len(f.ranges) + 1
           /\ \A k \in 1 .. Len(f.ranges) : g.ranges[k] = f.ranges[k] /\ f.ranges[k] \in RangeRec
           /\ g.ranges[Len(f.ranges) + 1] = r
           /\ RecordedIn(g) = RecordedIn(f) \cup FramesOf(r)
<1>1. f.ranges \in Seq(RangeRec) /\ g.ranges \in Seq(RangeRec)
  BY DEF TableRec
<1>2. PICK n \in Nat : n = Len(f.ranges)
  BY <1>1
<1>3. /\ Len(g.ranges) = n + 1
      /\ DOMAIN f.ranges = 1 .. n /\ DOMAIN g.ranges = 1 .. n + 1
      /\ \A k \in 1 .. n : g.ranges[k] = f.ranges[k]
      /\ g.ranges[n + 1] = r
  BY <1>1, <1>2
<1>4. \A k \in 1 .. n : f.ranges[k] \in RangeRec
  BY <1>1, <1>2, ElementOfSeq
<1>5. 1 .. n + 1 = (1 .. n) \cup {n + 1}
  OBVIOUS
<1>6. RecordedIn(g) = RecordedIn(f) \cup FramesOf(r)
  <2>1. ASSUME NEW x \in RecordedIn(g) PROVE x \in RecordedIn(f) \cup FramesOf(r)
    <3>1. PICK k \in 1 .. n + 1 : x \in FramesOf(g.ranges[k])
      BY <1>3 DEF RecordedIn
    <3> QED BY <1>3, <1>5, <3>1 DEF RecordedIn
  <2>2. ASSUME NEW x \in RecordedIn(f) PROVE x \in RecordedIn(g)
    <3>1. PICK k \in 1 .. n : x \in FramesOf(f.ranges[k])
      BY <1>3 DEF RecordedIn
    <3>2. k \in 1 .. n + 1 /\ x \in FramesOf(g.ranges[k])
      BY <1>3, <1>5, <3>1
    <3> QED BY <1>3, <3>2 DEF RecordedIn
  <2>3. ASSUME NEW x \in FramesOf(r) PROVE x \in RecordedIn(g)
    BY <1>3, <1>5, <2>3 DEF RecordedIn
  <2> QED BY <2>1, <2>2, <2>3
<1> QED BY <1>2, <1>3, <1>4, <1>6

(* The total covers the frames of a recorded span.                         *)
LEMMA CountCovers ==
    ASSUME NEW S, NEW T, NEW lo \in Nat, NEW hi \in Nat, lo < hi, hi <= UINT64_MAX,
           NEW e \in Word, IsFiniteSet(S), Cardinality(S) <= e,
           S \subseteq 0 .. UINT64_MAX - 1, T = S \cup (lo .. hi - 1)
    PROVE  IsFiniteSet(T) /\ Cardinality(T) <= add_clamp_u64(e, hi - lo)
<1>1. UINT64_MAX \in Nat /\ e \in Nat /\ hi - lo \in Word /\ hi - lo \in Nat
  BY WordAssumption DEF Word
<1>2. IsFiniteSet(lo .. hi - 1) /\ Cardinality(lo .. hi - 1) = hi - lo
  BY FS_Interval
<1>3. /\ IsFiniteSet(T)
      /\ Cardinality(T) = Cardinality(S) + (hi - lo) - Cardinality(S \cap (lo .. hi - 1))
  BY <1>2, FS_Union
<1>4. Cardinality(S) \in Nat /\ Cardinality(S \cap (lo .. hi - 1)) \in Nat /\ Cardinality(T) \in Nat
  BY <1>2, <1>3, FS_CardinalityType, FS_Intersection
<1>5. Cardinality(T) <= e + (hi - lo)
  BY <1>1, <1>3, <1>4
<1>6. Cardinality(T) <= UINT64_MAX
  <2>1. IsFiniteSet(0 .. UINT64_MAX - 1) /\ Cardinality(0 .. UINT64_MAX - 1) = UINT64_MAX
    BY <1>1, WordAssumption, FS_Interval
  <2>2. T \in SUBSET (0 .. UINT64_MAX - 1)
    BY <1>1
  <2>3. Cardinality(T) <= Cardinality(0 .. UINT64_MAX - 1)
    BY <2>1, <2>2, FS_Subset
  <2> QED BY <2>1, <2>3
<1> QED BY <1>1, <1>3, <1>4, <1>5, <1>6, Additions

(* Frames that were not counted before make the total exact.               *)
LEMMA CountExact ==
    ASSUME NEW S, NEW T, NEW lo \in Nat, NEW hi \in Nat, lo < hi, hi <= UINT64_MAX,
           NEW e \in Word, IsFiniteSet(S), e = Cardinality(S),
           S \subseteq 0 .. UINT64_MAX - 1, T = S \cup (lo .. hi - 1),
           S \cap (lo .. hi - 1) = {}
    PROVE  add_clamp_u64(e, hi - lo) = Cardinality(T)
<1>1. UINT64_MAX \in Nat /\ e \in Nat /\ hi - lo \in Word /\ hi - lo \in Nat
  BY WordAssumption DEF Word
<1>2. IsFiniteSet(lo .. hi - 1) /\ Cardinality(lo .. hi - 1) = hi - lo
  BY FS_Interval
<1>3. Cardinality(T) = Cardinality(S) + (hi - lo) - Cardinality(S \cap (lo .. hi - 1))
  BY <1>2, FS_Union
<1>4. Cardinality(S \cap (lo .. hi - 1)) = 0
  BY FS_EmptySet
<1>5. Cardinality(T) = e + (hi - lo)
  BY <1>1, <1>3, <1>4
<1>6. Cardinality(S) <= e
  BY <1>1
<1>7. Cardinality(T) <= add_clamp_u64(e, hi - lo)
  BY <1>6, CountCovers
<1> QED BY <1>1, <1>5, <1>7, Additions

(* The frames of a table are below the last one.                           *)
LEMMA RecordedBelow ==
    ASSUME NEW f, TableOK(f)
    PROVE  RecordedIn(f) \subseteq 0 .. UINT64_MAX - 1 /\ UINT64_MAX \div FRAME_SIZE \in Nat
           /\ UINT64_MAX \div FRAME_SIZE <= UINT64_MAX
<1>1. FRAME_SIZE \in Nat \ {0} /\ UINT64_MAX \in Nat
  BY FrameConstants
<1>2. UINT64_MAX \div FRAME_SIZE \in Nat /\ UINT64_MAX \div FRAME_SIZE <= UINT64_MAX
  BY <1>1
<1>3. ASSUME NEW x \in RecordedIn(f) PROVE x \in 0 .. UINT64_MAX - 1
  <2>1. f.ranges \in Seq(RangeRec)
    BY DEF TableOK, TableRec
  <2>2. PICK k \in 1 .. Len(f.ranges) : x \in FramesOf(f.ranges[k])
    BY <2>1 DEF RecordedIn
  <2>3. f.ranges[k] \in RangeRec
    BY <2>1, <2>2, ElementOfSeq
  <2>4. f.ranges[k].start_frame + f.ranges[k].frame_count <= UINT64_MAX \div FRAME_SIZE
    BY <2>2 DEF TableOK
  <2> QED BY <1>1, <1>2, <2>2, <2>3, <2>4 DEF RangeRec, FramesOf
<1> QED BY <1>2, <1>3

(* Recording a span keeps the table good, adds at most the span's frames,  *)
(* adds all of them unless a range is dropped, and keeps the order of the  *)
(* ranges when the span lies behind them.                                  *)
LEMMA SpanStep ==
    ASSUME NEW f, TableOK(f), NEW start \in Word, NEW end \in Word,
           NEW g, g = stage5c_record_eligible_span(f, start, end)
    PROVE  /\ TableOK(g)
           /\ RecordedIn(g) \subseteq RecordedIn(f) \cup Span(start, end)
           /\ g.dropped_ranges = 0 =>
                    /\ f.dropped_ranges = 0
                    /\ RecordedIn(g) = RecordedIn(f) \cup Span(start, end)
           /\ TableExact(f) /\ (\A x \in RecordedIn(f), y \in Span(start, end) : x < y)
                    => TableExact(g)
<1>1. f \in TableRec /\ f.dropped_ranges \in Nat
  BY DEF TableOK, TableRec
<1>2. CASE g = f /\ Span(start, end) = {}
  BY <1>2
<1>3. ASSUME NEW lo \in Nat, NEW hi \in Nat, lo < hi, hi <= UINT64_MAX \div FRAME_SIZE,
             Span(start, end) = lo .. hi - 1, SpanRecorded(f, g, lo, hi)
      PROVE  /\ TableOK(g)
             /\ RecordedIn(g) \subseteq RecordedIn(f) \cup Span(start, end)
             /\ g.dropped_ranges = 0 =>
                    /\ f.dropped_ranges = 0
                    /\ RecordedIn(g) = RecordedIn(f) \cup Span(start, end)
             /\ TableExact(f) /\ (\A x \in RecordedIn(f), y \in Span(start, end) : x < y)
                    => TableExact(g)
  <2>1. hi <= UINT64_MAX /\ UINT64_MAX \in Nat /\ hi - lo \in Nat \ {0} /\ hi - lo \in Word
        /\ RecordedIn(f) \subseteq 0 .. UINT64_MAX - 1
    BY <1>3, RecordedBelow, WordAssumption DEF Word
  <2>2. PICK r \in RangeRec : r = [start_frame |-> lo, frame_count |-> hi - lo]
    BY <2>1 DEF RangeRec
  <2>3. FramesOf(r) = lo .. hi - 1
    BY <2>2 DEF FramesOf
  <2>4. /\ g \in TableRec /\ f.eligible_frames \in Word
        /\ g.eligible_frames = add_clamp_u64(f.eligible_frames, hi - lo)
    BY <1>1, <1>3 DEF SpanRecorded, TableRec
  <2>5. /\ f.eligible_frames <= g.eligible_frames /\ hi - lo <= g.eligible_frames
        /\ f.eligible_frames \in Nat /\ g.eligible_frames \in Nat
    <3>1. PICK d \in Word : d = hi - lo
      BY <2>1
    <3>2. PICK e \in Word : e = f.eligible_frames
      BY <2>4
    <3>3. g.eligible_frames = IF e + d > UINT64_MAX THEN UINT64_MAX ELSE e + d
      BY <2>4, <3>1, <3>2, Additions
    <3> QED BY <2>1, <3>1, <3>2, <3>3 DEF Word
  <2>6. f.ranges \in Seq(RangeRec) /\ \A k \in 1 .. Len(f.ranges) : f.ranges[k] \in RangeRec
    BY <1>1, ElementOfSeq DEF TableRec
  <2>7. CASE g.ranges = f.ranges /\ g.dropped_ranges = f.dropped_ranges + 1
    <3>1. RecordedIn(g) = RecordedIn(f) /\ (TableAscends(g) <=> TableAscends(f))
      BY <2>7 DEF RecordedIn, TableAscends
    <3>2. Cardinality(RecordedIn(f)) \in Nat
      BY FS_CardinalityType DEF TableOK
    <3>3. TableOK(g)
      <4>1. /\ g \in TableRec /\ Len(g.ranges) <= MAX_RANGES
            /\ \A k \in 1 .. Len(g.ranges) :
                    g.ranges[k].start_frame + g.ranges[k].frame_count
                        <= UINT64_MAX \div FRAME_SIZE
        BY <2>4, <2>7 DEF TableOK
      <4>2. \A k \in 1 .. Len(g.ranges) : g.ranges[k].frame_count <= g.eligible_frames
        <5>1. \A k \in 1 .. Len(f.ranges) :
                /\ f.ranges[k].frame_count \in Nat
                /\ f.ranges[k].frame_count <= f.eligible_frames
          BY <2>6 DEF TableOK, RangeRec
        <5> QED BY <2>5, <2>7, <5>1
      <4>3. IsFiniteSet(RecordedIn(g)) /\ Cardinality(RecordedIn(g)) <= g.eligible_frames
        <5>1. IsFiniteSet(RecordedIn(f)) /\ Cardinality(RecordedIn(f)) <= f.eligible_frames
          BY DEF TableOK
        <5> QED BY <2>5, <3>1, <3>2, <5>1
      <4> QED BY <4>1, <4>2, <4>3 DEF TableOK
    <3>4. g.dropped_ranges # 0
      BY <1>1, <2>7
    <3> QED BY <3>1, <3>3, <3>4 DEF TableExact
  <2>8. CASE /\ Len(f.ranges) < MAX_RANGES
             /\ g.ranges = Append(f.ranges, r) /\ g.dropped_ranges = f.dropped_ranges
    <3>1. PICK n \in Nat : n = Len(f.ranges)
      BY <2>6
    <3>2. /\ Len(g.ranges) = n + 1
          /\ DOMAIN f.ranges = 1 .. n /\ DOMAIN g.ranges = 1 .. n + 1
          /\ \A k \in 1 .. n : g.ranges[k] = f.ranges[k] /\ f.ranges[k] \in RangeRec
          /\ g.ranges[n + 1] = r
          /\ RecordedIn(g) = RecordedIn(f) \cup (lo .. hi - 1)
      BY <1>1, <2>3, <2>4, <2>8, <3>1, AppendRange
    <3>3. IsFiniteSet(RecordedIn(g)) /\ Cardinality(RecordedIn(g)) <= g.eligible_frames
      <4>1. IsFiniteSet(RecordedIn(f)) /\ Cardinality(RecordedIn(f)) <= f.eligible_frames
        BY DEF TableOK
      <4>2. PICK e \in Word : e = f.eligible_frames
        BY <2>4
      <4>3. /\ IsFiniteSet(RecordedIn(g))
            /\ Cardinality(RecordedIn(g)) <= add_clamp_u64(e, hi - lo)
        BY <1>3, <2>1, <3>2, <4>1, <4>2, CountCovers
      <4> QED BY <2>4, <4>2, <4>3
    <3>4. \A k \in 1 .. n + 1 :
            /\ g.ranges[k].start_frame + g.ranges[k].frame_count <= UINT64_MAX \div FRAME_SIZE
            /\ g.ranges[k].frame_count <= g.eligible_frames
      <4>1. r.start_frame + r.frame_count = hi /\ r.frame_count = hi - lo
        BY <2>2
      <4>2. \A k \in 1 .. n :
            /\ f.ranges[k].start_frame + f.ranges[k].frame_count <= UINT64_MAX \div FRAME_SIZE
            /\ f.ranges[k].frame_count <= f.eligible_frames
            /\ f.ranges[k].frame_count \in Nat
        BY <3>1, <3>2 DEF TableOK, RangeRec
      <4>3. \A k \in 1 .. n + 1 : k \in 1 .. n \/ k = n + 1
        OBVIOUS
      <4>4. ASSUME NEW k \in 1 .. n
            PROVE  /\ g.ranges[k].start_frame + g.ranges[k].frame_count <= UINT64_MAX \div FRAME_SIZE
                   /\ g.ranges[k].frame_count <= g.eligible_frames
        <5>1. PICK c \in Nat : c = f.ranges[k].frame_count /\ c <= f.eligible_frames
          BY <4>2
        <5>2. g.ranges[k] = f.ranges[k]
          BY <3>2, <4>4
        <5>3. c <= g.eligible_frames
          BY <2>5, <5>1
        <5> QED BY <4>2, <4>4, <5>1, <5>2, <5>3
      <4>5. /\ g.ranges[n + 1].start_frame + g.ranges[n + 1].frame_count <= UINT64_MAX \div FRAME_SIZE
            /\ g.ranges[n + 1].frame_count <= g.eligible_frames
        BY <1>3, <2>5, <3>2, <4>1
      <4> QED BY <4>3, <4>4, <4>5
    <3>5. n + 1 <= MAX_RANGES
      BY <2>8, <3>1, FrameConstants
    <3>6. TableOK(g)
      BY <2>4, <3>2, <3>3, <3>4, <3>5 DEF TableOK
    <3>7. ASSUME TableAscends(f), \A x \in RecordedIn(f), y \in Span(start, end) : x < y,
                 NEW a \in 1 .. n + 1, NEW b \in 1 .. n + 1, a < b
          PROVE  g.ranges[a].start_frame + g.ranges[a].frame_count <= g.ranges[b].start_frame
      <4>1. a \in 1 .. n
        BY <3>7
      <4>2. CASE b \in 1 .. n
        BY <3>2, <3>7, <4>1, <4>2 DEF TableAscends
      <4>3. CASE b = n + 1
        <5>1. PICK s, c \in Nat : s = f.ranges[a].start_frame /\ c = f.ranges[a].frame_count /\ c # 0
          BY <3>2, <4>1 DEF RangeRec
        <5>2. s + c - 1 \in FramesOf(f.ranges[a])
          BY <5>1 DEF FramesOf
        <5>3. s + c - 1 \in RecordedIn(f)
          BY <3>2, <4>1, <5>2 DEF RecordedIn
        <5>4. lo \in Span(start, end)
          BY <1>3
        <5>5. s + c - 1 < lo
          BY <3>7, <5>3, <5>4
        <5>6. g.ranges[a] = f.ranges[a] /\ g.ranges[b].start_frame = lo
          BY <2>2, <3>2, <4>1, <4>3
        <5>7. s + c <= lo
          BY <5>1, <5>5
        <5> QED BY <5>1, <5>6, <5>7
      <4> QED BY <3>7, <4>2, <4>3
    <3>8. TableExact(f) /\ (\A x \in RecordedIn(f), y \in Span(start, end) : x < y) => TableExact(g)
      <4> SUFFICES ASSUME TableExact(f), \A x \in RecordedIn(f), y \in Span(start, end) : x < y
                   PROVE  TableExact(g)
        OBVIOUS
      <4>1. TableAscends(g)
        BY <3>2, <3>7 DEF TableAscends, TableExact
      <4>2. ASSUME g.dropped_ranges = 0 PROVE g.eligible_frames = Cardinality(RecordedIn(g))
        <5>1. f.eligible_frames = Cardinality(RecordedIn(f)) /\ IsFiniteSet(RecordedIn(f))
          BY <2>8, <4>2 DEF TableExact, TableOK
        <5>2. RecordedIn(f) \cap (lo .. hi - 1) = {}
          <6>1. ASSUME NEW x \in RecordedIn(f), x \in lo .. hi - 1 PROVE FALSE
            BY <1>3, <2>1, <6>1
          <6> QED BY <6>1
        <5>3. PICK e \in Word : e = f.eligible_frames
          BY <2>4
        <5>4. /\ lo < hi /\ hi <= UINT64_MAX /\ e = Cardinality(RecordedIn(f))
              /\ RecordedIn(f) \subseteq 0 .. UINT64_MAX - 1 /\ IsFiniteSet(RecordedIn(f))
          BY <1>3, <2>1, <5>1, <5>3
        <5>5. RecordedIn(g) = RecordedIn(f) \cup (lo .. hi - 1)
          BY <3>2
        <5>6. add_clamp_u64(e, hi - lo) = Cardinality(RecordedIn(g))
          BY <5>2, <5>4, <5>5, CountExact
        <5> QED BY <2>4, <5>3, <5>6
      <4> QED BY <4>1, <4>2 DEF TableExact
    <3> QED BY <1>3, <2>8, <3>2, <3>6, <3>8
  <2> QED BY <1>3, <2>2, <2>7, <2>8 DEF SpanRecorded
<1> QED BY <1>1, <1>2, <1>3, RecordSpan


-----------------------------------------------------------------------------
(* What Stage 5C makes of one region: its whole frames at or above the     *)
(* policy minimum that hold no byte of the kernel image.                   *)
ClearOfKernel(x) == FrameEnd(x) <= KERNEL_PHYS_START \/ FrameStart(x) >= KERNEL_PHYS_END

RegionFrames(r) ==
    {x \in Nat : /\ r.policy_usable /\ r.type = AVAILABLE
                 /\ r.base <= FrameStart(x) /\ FrameEnd(x) <= r.end
                 /\ FrameStart(x) >= POLICY_MIN_ADDR /\ ClearOfKernel(x)}

RegionRec == [base : Word, end : Word, type : Nat, policy_usable : BOOLEAN]

LEMMA FrameOrder ==
    ASSUME NEW x \in Nat, NEW y \in Nat
    PROVE  /\ FrameStart(x) \in Nat /\ FrameEnd(x) \in Nat /\ FrameStart(x) < FrameEnd(x)
           /\ FrameEnd(x) <= FrameStart(y) => x < y
<1>1. FRAME_SIZE \in Nat \ {0}
  BY FrameConstants
<1>2. x * FRAME_SIZE \in Nat /\ y * FRAME_SIZE \in Nat
  BY <1>1
<1>3. x * FRAME_SIZE < y * FRAME_SIZE <=> x < y
  BY <1>1, MultOrder
<1> QED BY <1>1, <1>2, <1>3 DEF FrameStart, FrameEnd

(* Rounding the kernel image outwards to frames takes exactly the frames   *)
(* that hold one of its bytes.                                             *)
LEMMA KernelFrames ==
    ASSUME ~ KernelBoundsInvalid
    PROVE  /\ kernel_reserved_start \in Word /\ kernel_reserved_end \in Word
           /\ kernel_reserved_start < kernel_reserved_end
           /\ \A x \in Nat :
                /\ FrameEnd(x) <= KERNEL_PHYS_START <=> FrameEnd(x) <= kernel_reserved_start
                /\ FrameStart(x) >= KERNEL_PHYS_END <=> FrameStart(x) >= kernel_reserved_end
<1>1. /\ KERNEL_PHYS_START \in Word /\ KERNEL_PHYS_END \in Word /\ UINT64_MAX \in Nat
      /\ KERNEL_PHYS_START \in Nat /\ KERNEL_PHYS_END \in Nat
      /\ FRAME_SIZE \in Nat \ {0} /\ FRAME_SIZE - 1 \in Word
  BY FrameConstants DEF Word
<1>2. PICK s \in Nat : s = kernel_reserved_start
  BY <1>1, RoundDown DEF kernel_reserved_start
<1>3. s <= KERNEL_PHYS_START /\ s \in Word
  BY <1>1, <1>2, RoundDown DEF kernel_reserved_start, Word
<1>4. \A x \in Nat : FrameEnd(x) <= KERNEL_PHYS_START <=> FrameEnd(x) <= s
  <2>1. s \div FRAME_SIZE = KERNEL_PHYS_START \div FRAME_SIZE
    BY <1>1, <1>2, RoundDown DEF kernel_reserved_start
  <2>2. \A x \in Nat : FrameEnd(x) <= KERNEL_PHYS_START <=> x < KERNEL_PHYS_START \div FRAME_SIZE
    BY <1>1, RoundDown
  <2>3. \A x \in Nat : FrameEnd(x) <= s <=> x < s \div FRAME_SIZE
    BY RoundDown
  <2> QED BY <2>1, <2>2, <2>3
<1>5. PICK e \in Nat : e = kernel_reserved_end
  BY <1>1, RoundUp DEF kernel_reserved_end
<1>6. \A x \in Nat : FrameStart(x) >= KERNEL_PHYS_END <=> FrameStart(x) >= e
  <2>1. PICK q \in Nat : q = e \div FRAME_SIZE
    BY <1>1, <1>5, RoundUp DEF kernel_reserved_end
  <2>2. /\ e = q * FRAME_SIZE
        /\ \A x \in Nat : KERNEL_PHYS_END <= FrameStart(x) <=> q <= x
    BY <1>1, <1>5, <2>1, RoundUp DEF kernel_reserved_end
  <2>3. ASSUME NEW x \in Nat PROVE FrameStart(x) >= e <=> q <= x
    BY <1>1, <2>2, MultOrder DEF FrameStart
  <2> QED BY <1>1, <2>2, <2>3, FrameOrder
<1>7. e \in Word
  <2>1. KERNEL_PHYS_END + (FRAME_SIZE - 1) <= UINT64_MAX
    BY <1>1, Additions DEF KernelBoundsInvalid, AlignUpOverflows
  <2>2. PICK b \in Nat : b = KERNEL_PHYS_END + FRAME_SIZE - 1 /\ b <= UINT64_MAX
    BY <1>1, <2>1
  <2>3. e = AlignDown(b) /\ AlignDown(b) <= b
    BY <1>5, <2>2, RoundDown DEF kernel_reserved_end, stage5c_align_up_4k
  <2> QED BY <1>1, <2>2, <2>3 DEF Word
<1>8. s < e
  BY <1>2, <1>5 DEF KernelBoundsInvalid
<1> QED BY <1>2, <1>3, <1>4, <1>5, <1>6, <1>7, <1>8

(* Cutting a region at the policy minimum and around the kernel loses no   *)
(* frame and adds none, and the part below the kernel comes first.         *)
LEMMA RegionStep ==
    ASSUME NEW f, TableOK(f), NEW r \in RegionRec, ~ KernelBoundsInvalid,
           NEW g, g = PrepareRegion(f, r)
    PROVE  /\ TableOK(g)
           /\ RecordedIn(g) \subseteq RecordedIn(f) \cup RegionFrames(r)
           /\ g.dropped_ranges = 0 =>
                    /\ f.dropped_ranges = 0
                    /\ RecordedIn(g) = RecordedIn(f) \cup RegionFrames(r)
           /\ TableExact(f) /\ (\A x \in RecordedIn(f), y \in RegionFrames(r) : x < y)
                    => TableExact(g)
<1>1. /\ POLICY_MIN_ADDR \in Nat /\ UINT64_MAX \in Nat /\ r.base \in Nat /\ r.end \in Nat
      /\ r.end \in Word /\ r.end <= UINT64_MAX
  BY FrameConstants DEF RegionRec, Word
<1>2. PICK start \in Nat : start = Larger(r.base, POLICY_MIN_ADDR)
  BY <1>1 DEF Larger
<1>3. \A n \in Nat : start <= n <=> r.base <= n /\ POLICY_MIN_ADDR <= n
  BY <1>1, <1>2 DEF Larger
<1>4. \A x \in Nat : FrameStart(x) \in Nat /\ FrameEnd(x) \in Nat /\ FrameStart(x) < FrameEnd(x)
  BY FrameOrder
<1>5. CASE ~ r.policy_usable \/ r.type # AVAILABLE \/ r.end <= start
  <2>1. g = f
    BY <1>2, <1>5 DEF PrepareRegion
  <2>2. ASSUME NEW x \in RegionFrames(r) PROVE FALSE
    <3>1. /\ x \in Nat /\ r.policy_usable /\ r.type = AVAILABLE
          /\ start <= FrameStart(x) /\ FrameEnd(x) <= r.end
      BY <1>3, <1>4, <2>2 DEF RegionFrames
    <3> QED BY <1>1, <1>4, <1>5, <3>1
  <2>3. RegionFrames(r) = {}
    BY <2>2
  <2> QED BY <2>1, <2>3
<1>6. CASE r.policy_usable /\ r.type = AVAILABLE /\ start < r.end
  <2>1. start \in Word
    BY <1>1, <1>6 DEF Word
  <2>2. RegionFrames(r) = {x \in Span(start, r.end) : ClearOfKernel(x)}
    <3>1. ASSUME NEW x \in Nat
          PROVE  x \in RegionFrames(r) <=> x \in Span(start, r.end) /\ ClearOfKernel(x)
      <4>1. FrameStart(x) \in Nat
        BY <1>4
      <4>2. start <= FrameStart(x) <=> r.base <= FrameStart(x) /\ FrameStart(x) >= POLICY_MIN_ADDR
        BY <1>1, <1>3, <4>1
      <4> QED BY <1>6, <4>2 DEF RegionFrames, Span
    <3>2. RegionFrames(r) \subseteq Nat /\ Span(start, r.end) \subseteq Nat
      BY DEF RegionFrames, Span
    <3> QED BY <3>1, <3>2
  <2>3. PICK s, e \in Word :
            /\ s = kernel_reserved_start /\ e = kernel_reserved_end /\ s < e
            /\ \A x \in Nat : ClearOfKernel(x) <=> FrameEnd(x) <= s \/ FrameStart(x) >= e
    <3>1. /\ kernel_reserved_start \in Word /\ kernel_reserved_end \in Word
          /\ kernel_reserved_start < kernel_reserved_end
      BY KernelFrames
    <3>2. \A x \in Nat : ClearOfKernel(x) <=>
            FrameEnd(x) <= kernel_reserved_start \/ FrameStart(x) >= kernel_reserved_end
      BY KernelFrames DEF ClearOfKernel
    <3> QED BY <3>1, <3>2
  <2>4. s \in Nat /\ e \in Nat
    BY <1>1 DEF Word
  <2>5. CASE r.end <= s \/ start >= e
    <3>1. g = stage5c_record_eligible_span(f, start, r.end)
      <4>1. ~ (~ r.policy_usable \/ r.type # AVAILABLE \/ r.end <= start)
        BY <1>1, <1>6
      <4>2. r.end <= kernel_reserved_start \/ start >= kernel_reserved_end
        BY <2>3, <2>5
      <4> QED BY <1>2, <4>1, <4>2, Zenon DEF PrepareRegion
    <3>2. ASSUME NEW x \in Span(start, r.end) PROVE ClearOfKernel(x)
      BY <1>1, <1>4, <2>3, <2>4, <2>5 DEF Span
    <3>3. RegionFrames(r) = Span(start, r.end)
      BY <2>2, <3>2
    <3>4. PICK top \in Word : top = r.end
      BY <1>1
    <3>5. /\ TableOK(g)
          /\ RecordedIn(g) \subseteq RecordedIn(f) \cup Span(start, top)
          /\ g.dropped_ranges = 0 =>
                   /\ f.dropped_ranges = 0
                   /\ RecordedIn(g) = RecordedIn(f) \cup Span(start, top)
          /\ TableExact(f) /\ (\A x \in RecordedIn(f), y \in Span(start, top) : x < y)
                   => TableExact(g)
      BY <2>1, <3>1, <3>4, SpanStep
    <3> QED BY <3>3, <3>4, <3>5
  <2>6. CASE s < r.end /\ start < e
    <3>1. PICK h : h = stage5c_record_eligible_span(f, start, s)
      OBVIOUS
    <3>2. g = stage5c_record_eligible_span(h, e, r.end)
      <4>1. ~ (~ r.policy_usable \/ r.type # AVAILABLE \/ r.end <= start)
        BY <1>1, <1>6
      <4>2. ~ (r.end <= s \/ start >= e)
        BY <1>1, <2>4, <2>6
      <4> QED BY <1>2, <2>3, <3>1, <4>1, <4>2 DEF PrepareRegion
    <3>3. RegionFrames(r) = Span(start, s) \cup Span(e, r.end)
      <4>1. ASSUME NEW x \in Nat
            PROVE  x \in RegionFrames(r) <=> x \in Span(start, s) \/ x \in Span(e, r.end)
        <5>1. FrameStart(x) \in Nat /\ FrameEnd(x) \in Nat /\ FrameStart(x) < FrameEnd(x)
          BY <1>4
        <5>2. x \in RegionFrames(r) <=>
                /\ start <= FrameStart(x) /\ FrameEnd(x) <= r.end
                /\ FrameEnd(x) <= s \/ FrameStart(x) >= e
          BY <2>2, <2>3 DEF Span
        <5> QED BY <1>1, <2>4, <2>6, <5>1, <5>2 DEF Span
      <4>2. RegionFrames(r) \subseteq Nat /\ Span(start, s) \subseteq Nat /\ Span(e, r.end) \subseteq Nat
        BY DEF RegionFrames, Span
      <4> QED BY <4>1, <4>2
    <3>4. ASSUME NEW x \in Span(start, s), NEW y \in Span(e, r.end) PROVE x < y
      <4>1. /\ x \in Nat /\ y \in Nat /\ FrameEnd(x) <= s /\ e <= FrameStart(y)
            /\ FrameEnd(x) \in Nat /\ FrameStart(y) \in Nat
        BY <1>4 DEF Span
      <4>2. FrameEnd(x) <= FrameStart(y)
        BY <2>3, <2>4, <4>1
      <4> QED BY <4>1, <4>2, FrameOrder
    <3>5. /\ TableOK(h)
          /\ RecordedIn(h) \subseteq RecordedIn(f) \cup Span(start, s)
          /\ h.dropped_ranges = 0 =>
                   /\ f.dropped_ranges = 0
                   /\ RecordedIn(h) = RecordedIn(f) \cup Span(start, s)
          /\ TableExact(f) /\ (\A x \in RecordedIn(f), y \in Span(start, s) : x < y)
                   => TableExact(h)
      BY <2>1, <2>3, <3>1, SpanStep
    <3>6. /\ TableOK(g)
          /\ RecordedIn(g) \subseteq RecordedIn(h) \cup Span(e, r.end)
          /\ g.dropped_ranges = 0 =>
                   /\ h.dropped_ranges = 0
                   /\ RecordedIn(g) = RecordedIn(h) \cup Span(e, r.end)
          /\ TableExact(h) /\ (\A x \in RecordedIn(h), y \in Span(e, r.end) : x < y)
                   => TableExact(g)
      BY <1>1, <2>3, <3>2, <3>5, SpanStep
    <3>7. RecordedIn(g) \subseteq RecordedIn(f) \cup RegionFrames(r)
      BY <3>3, <3>5, <3>6
    <3>8. g.dropped_ranges = 0 =>
              f.dropped_ranges = 0 /\ RecordedIn(g) = RecordedIn(f) \cup RegionFrames(r)
      BY <3>3, <3>5, <3>6
    <3>9. ASSUME TableExact(f), \A x \in RecordedIn(f), y \in RegionFrames(r) : x < y
          PROVE  TableExact(g)
      <4>1. TableExact(h)
        BY <3>3, <3>5, <3>9
      <4>2. \A x \in RecordedIn(h), y \in Span(e, r.end) : x < y
        BY <3>3, <3>4, <3>5, <3>9
      <4> QED BY <3>6, <4>1, <4>2
    <3> QED BY <3>6, <3>7, <3>8, <3>9
  <2> QED BY <1>1, <2>4, <2>5, <2>6
<1> QED BY <1>1, <1>5, <1>6


-----------------------------------------------------------------------------
(* What Stage 5B makes of one entry, and the frames of it that may be      *)
(* used.                                                                   *)
RegionOf(e) ==
    [base |-> e.base, end |-> EntryEnd(e), type |-> e.type,
     policy_usable |-> stage5b_policy_usable_length(e) > 0]

EntryFrames(e) ==
    {x \in Nat : WithinEntry(x, e) /\ FrameStart(x) >= POLICY_MIN_ADDR /\ ClearOfKernel(x)}

MemoryTable ==
    [regions : Seq(RegionRec), dropped_regions : Nat, raw_usable_bytes : Word,
     raw_reserved_bytes : Word, policy_usable_bytes : Word, highest_usable_end : Word]

(* The flag policy_usable and the end of a region that does not wrap say   *)
(* exactly which frames of the entry Stage 5C may take.                    *)
LEMMA EntryRegion ==
    ASSUME NEW e \in EntrySet
    PROVE  /\ RegionOf(e) \in RegionRec /\ RegionFrames(RegionOf(e)) = EntryFrames(e)
           /\ stage5b_policy_usable_length(e) \in Word
<1>1. /\ e.base \in Word /\ e.length \in Word /\ e.type \in Nat /\ UINT64_MAX \in Nat
      /\ POLICY_MIN_ADDR \in Nat
  BY BootInfoAssumption, FrameConstants
<1>2. PICK b, n \in Word : b = e.base /\ n = e.length
  BY <1>1
<1>3. b \in Nat /\ n \in Nat /\ b <= UINT64_MAX /\ n <= UINT64_MAX
  BY <1>1 DEF Word
<1>4. checked_add_overflows(b, n) <=> b + n > UINT64_MAX
  BY Additions
<1>5. PICK top \in Word : top = EntryEnd(e)
  <2>1. EntryEnd(e) = IF b + n > UINT64_MAX THEN UINT64_MAX ELSE b + n
    BY <1>2, <1>4 DEF EntryEnd
  <2> QED BY <1>1, <1>3, <2>1 DEF Word
<1>6. b + n <= UINT64_MAX => top = b + n
  <2>1. ASSUME b + n <= UINT64_MAX PROVE ~ checked_add_overflows(e.base, e.length)
    BY <1>1, <1>2, <1>3, <1>4, <2>1
  <2>2. ASSUME b + n <= UINT64_MAX PROVE top = e.base + e.length
    BY <1>5, <2>1, <2>2, Zenon DEF EntryEnd
  <2> QED BY <1>2, <2>2
<1>7. top \in Nat /\ top <= UINT64_MAX
  BY <1>1 DEF Word
<1>8. PICK s \in Nat : s = Larger(e.base, POLICY_MIN_ADDR)
  BY <1>1, <1>2, <1>3 DEF Larger
<1>9. \A m \in Nat : s <= m <=> b <= m /\ POLICY_MIN_ADDR <= m
  BY <1>1, <1>2, <1>3, <1>8 DEF Larger
<1> DEFINE skip == e.type # AVAILABLE \/ n = 0 \/ b + n > UINT64_MAX \/ top <= POLICY_MIN_ADDR
           usable == stage5b_policy_usable_length(e)
<1>10. usable = IF skip THEN 0 ELSE top - s
  BY <1>2, <1>4, <1>5, <1>8 DEF stage5b_policy_usable_length
<1> HIDE DEF usable
<1>11. ASSUME ~ skip PROVE top - s \in Word /\ top - s > 0
  <2>1. top = b + n /\ b < top /\ POLICY_MIN_ADDR < top
    BY <1>1, <1>3, <1>6, <1>7, <1>11
  <2>2. s < top
    BY <1>1, <1>2, <1>3, <1>8, <2>1 DEF Larger
  <2> QED BY <1>1, <1>7, <2>2 DEF Word
<1>12. usable \in Word /\ (usable > 0 <=> ~ skip)
  BY <1>1, <1>10, <1>11 DEF Word
<1>13. RegionOf(e) \in RegionRec
  BY <1>1, <1>5, <1>12 DEF RegionOf, RegionRec, usable
<1>14. PICK r : r = RegionOf(e)
  OBVIOUS
<1>15. r.base = b /\ r.end = top /\ r.type = e.type /\ (r.policy_usable <=> ~ skip)
  BY <1>2, <1>5, <1>12, <1>14 DEF RegionOf, usable
<1>16. ASSUME NEW x \in Nat
       PROVE  x \in RegionFrames(r) <=> x \in EntryFrames(e)
  <2>1. FrameStart(x) \in Nat /\ FrameEnd(x) \in Nat /\ FrameStart(x) < FrameEnd(x)
    BY FrameOrder
  <2>2. x \in RegionFrames(r) <=>
            /\ ~ skip /\ e.type = AVAILABLE /\ b <= FrameStart(x) /\ FrameEnd(x) <= top
            /\ FrameStart(x) >= POLICY_MIN_ADDR /\ ClearOfKernel(x)
    BY <1>15 DEF RegionFrames
  <2>3. x \in EntryFrames(e) <=>
            /\ e.type = AVAILABLE /\ b + n <= UINT64_MAX
            /\ b <= FrameStart(x) /\ FrameEnd(x) <= b + n
            /\ FrameStart(x) >= POLICY_MIN_ADDR /\ ClearOfKernel(x)
    BY <1>2 DEF EntryFrames, WithinEntry
  <2>4. ASSUME e.type = AVAILABLE, b + n <= UINT64_MAX, b <= FrameStart(x),
               FrameEnd(x) <= b + n, FrameStart(x) >= POLICY_MIN_ADDR
        PROVE  ~ skip
    BY <1>1, <1>3, <1>6, <2>1, <2>4
  <2> QED BY <1>1, <1>3, <1>6, <2>2, <2>3, <2>4
<1>17. RegionFrames(r) \subseteq Nat /\ EntryFrames(e) \subseteq Nat
  BY DEF RegionFrames, EntryFrames
<1> QED BY <1>12, <1>13, <1>14, <1>16, <1>17 DEF usable

(* Booking an entry adds its region to the table or counts it as dropped,  *)
(* and keeps every total a word.                                           *)
LEMMA AccountEntry ==
    ASSUME NEW m \in MemoryTable, NEW e \in EntrySet, NEW k, k = stage5b_account_entry(m, e)
    PROVE  /\ k \in MemoryTable
           /\ \/ /\ Len(m.regions) >= MAX_REGIONS /\ k.regions = m.regions
                 /\ k.dropped_regions = m.dropped_regions + 1
              \/ /\ Len(m.regions) < MAX_REGIONS
                 /\ k.regions = Append(m.regions, RegionOf(e))
                 /\ k.dropped_regions = m.dropped_regions
<1>1. PICK u \in Word : u = stage5b_policy_usable_length(e)
  BY EntryRegion
<1>2. RegionOf(e) \in RegionRec
  BY EntryRegion
<1>3. EntryEnd(e) \in Word
  BY <1>2 DEF RegionOf, RegionRec
<1>4. PICK booked \in MemoryTable :
            /\ booked = IF u = 0 THEN m
                        ELSE [m EXCEPT !.policy_usable_bytes = add_clamp_u64(@, u),
                                       !.highest_usable_end = Larger(@, EntryEnd(e))]
            /\ booked.regions = m.regions /\ booked.dropped_regions = m.dropped_regions
  <2>1. CASE u = 0
    BY <2>1
  <2>2. CASE u # 0
    <3>1. PICK p \in Word : p = add_clamp_u64(m.policy_usable_bytes, u)
      BY Additions DEF MemoryTable
    <3>2. PICK h \in Word : h = Larger(m.highest_usable_end, EntryEnd(e))
      BY <1>3 DEF MemoryTable, Larger
    <3>3. PICK b : b = [m EXCEPT !.policy_usable_bytes = p, !.highest_usable_end = h]
      OBVIOUS
    <3>4. b = [m EXCEPT !.policy_usable_bytes = add_clamp_u64(@, u),
                        !.highest_usable_end = Larger(@, EntryEnd(e))]
      BY <3>1, <3>2, <3>3 DEF MemoryTable
    <3>5. b \in MemoryTable /\ b.regions = m.regions /\ b.dropped_regions = m.dropped_regions
      BY <3>3 DEF MemoryTable
    <3> QED BY <2>2, <3>4, <3>5
  <2> QED BY <2>1, <2>2
<1>5. k = stage5b_record_region(booked, RegionOf(e))
  BY <1>1, <1>4 DEF stage5b_account_entry, RegionOf
<1>6. /\ booked.regions \in Seq(RegionRec) /\ Len(booked.regions) \in Nat
      /\ booked.dropped_regions + 1 \in Nat /\ MAX_REGIONS \in Nat
  BY FrameConstants DEF MemoryTable
<1>7. Append(booked.regions, RegionOf(e)) \in Seq(RegionRec)
  BY <1>2, <1>6
<1>8. CASE Len(booked.regions) >= MAX_REGIONS
  <2>1. k = [booked EXCEPT !.dropped_regions = @ + 1]
    BY <1>5, <1>8 DEF stage5b_record_region
  <2>2. k \in MemoryTable /\ k.regions = booked.regions
        /\ k.dropped_regions = booked.dropped_regions + 1
    BY <1>6, <2>1 DEF MemoryTable
  <2> QED BY <1>4, <1>8, <2>2
<1>9. CASE Len(booked.regions) < MAX_REGIONS
  <2>1. k = [booked EXCEPT !.regions = Append(@, RegionOf(e))]
    BY <1>5, <1>6, <1>9 DEF stage5b_record_region
  <2>2. k \in MemoryTable /\ k.regions = Append(booked.regions, RegionOf(e))
        /\ k.dropped_regions = booked.dropped_regions
    BY <1>7, <2>1 DEF MemoryTable
  <2> QED BY <1>4, <1>9, <2>2
<1> QED BY <1>6, <1>8, <1>9


-----------------------------------------------------------------------------
(* The inductive invariant.  What the parser has checked so far bounds     *)
(* where it goes next.  While no sum has wrapped, the tag lies inside the  *)
(* structure and the entry cursor inside the tag; whether or not one has,  *)
(* the cursors stay below the ends the code compares them with.            *)
StructureEnd == INFO_ADDR + total_size

ParserTypes ==
    /\ phase \in {"header", "tags", "entries", "advance", "finish",
                  "regions", "done", "panic"}
    /\ total_size \in TotalSizes /\ cursor \in 0 .. UINT32_MAX /\ entry_cursor \in 0 .. UINT32_MAX
    /\ tag \in TagSet \cup {NoTag} /\ found_mmap \in BOOLEAN
    /\ outside \in BOOLEAN /\ wrapped \in BOOLEAN

(* Of every run of the parser.                                             *)
Walk ==
    /\ phase = "header" => cursor = INFO_ADDR + HEADER_SIZE
    /\ phase \notin {"header", "panic"} =>
            StructureEnd <= UINT32_MAX /\ INFO_ADDR + HEADER_SIZE <= StructureEnd
    /\ phase \in {"tags", "entries", "advance"} => cursor <= StructureEnd
    /\ phase \in {"entries", "advance"} =>
            tag \in TagSet /\ HEADER_SIZE <= tag.size /\ entry_end <= StructureEnd
    /\ phase = "entries" =>
            /\ ENTRY_SIZE <= tag.entry_size
            /\ 2 * StructureEnd <= UINT32_MAX =>
                    entry_cursor + entry_end <= 2 * StructureEnd

(* Of one in which every sum fits.                                         *)
Inside ==
    ~ wrapped =>
        /\ ~ outside
        /\ phase \in {"tags", "entries", "advance"} => INFO_ADDR <= cursor
        /\ phase = "entries" => INFO_ADDR <= entry_cursor

ParserInv == ParserTypes /\ Walk /\ Inside

(* The regions are the first entries read; without a dropped region they   *)
(* are all of them.                                                        *)
MemoryInv ==
    /\ totals \in [usable : Word, reserved : Word] /\ memory \in MemoryTable
    /\ seen \in Seq(EntrySet)
    /\ Len(memory.regions) <= MAX_REGIONS /\ Len(memory.regions) <= Len(seen)
    /\ \A k \in 1 .. Len(memory.regions) : memory.regions[k] = RegionOf(seen[k])
    /\ memory.dropped_regions = 0 => Len(memory.regions) = Len(seen)
    /\ Len(memory.regions) < MAX_REGIONS => memory.dropped_regions = 0

(* The table records frames of the regions already prepared, all of them   *)
(* unless a range was dropped, and in the order of the map.                *)
FramesInv ==
    /\ TableOK(frames) /\ i \in 1 .. Len(memory.regions) + 1
    /\ phase \in {"header", "tags", "entries", "advance", "finish"} =>
            frames = EmptyFrames /\ i = 1
    /\ phase = "done" => i = Len(memory.regions) + 1
    /\ \A x \in RecordedIn(frames) : \E k \in 1 .. i - 1 : x \in EntryFrames(seen[k])
    /\ frames.dropped_ranges = 0 =>
            \A k \in 1 .. i - 1 : EntryFrames(seen[k]) \subseteq RecordedIn(frames)
    /\ MapAscending => TableExact(frames)

IInv == ParserInv /\ MemoryInv /\ FramesInv


LEMMA EmptyTables ==
    /\ TableOK(EmptyFrames) /\ RecordedIn(EmptyFrames) = {} /\ TableExact(EmptyFrames)
    /\ EmptyFrames.dropped_ranges = 0 /\ EmptyMemory \in MemoryTable
<1>1. EmptyFrames.ranges = <<>> /\ Len(<<>>) = 0 /\ DOMAIN <<>> = {} /\ 0 \in Word
      /\ <<>> \in Seq(RangeRec) /\ <<>> \in Seq(RegionRec) /\ MAX_RANGES \in Nat
  BY FrameConstants DEF EmptyFrames, Word
<1>2. RecordedIn(EmptyFrames) = {} /\ TableExact(EmptyFrames)
  BY <1>1, FS_EmptySet DEF RecordedIn, TableAscends, TableExact, EmptyFrames
<1>3. IsFiniteSet({}) /\ Cardinality({}) = 0
  BY FS_EmptySet
<1>4. EmptyFrames \in TableRec /\ EmptyFrames.eligible_frames = 0 /\ EmptyFrames.dropped_ranges = 0
  BY <1>1 DEF EmptyFrames, TableRec
<1>5. EmptyMemory \in MemoryTable
  BY <1>1 DEF EmptyMemory, MemoryTable
<1>6. TableOK(EmptyFrames)
  BY <1>1, <1>2, <1>3, <1>4 DEF TableOK
<1> QED BY <1>2, <1>4, <1>5, <1>6

LEMMA InitInv == Init => IInv
<1> SUFFICES ASSUME Init PROVE IInv
  OBVIOUS
<1>1. /\ UINT32_MAX \in Nat /\ INFO_ADDR \in 1 .. UINT32_MAX - 8
      /\ TotalSizes \subseteq 0 .. UINT32_MAX /\ total_size \in 0 .. UINT32_MAX
  BY BootInfoAssumption DEF Init, HEADER_SIZE
<1>2. ParserInv
  <2>1. INFO_ADDR \in Nat /\ INFO_ADDR + 8 <= UINT32_MAX /\ total_size \in Nat
    BY <1>1
  <2>2. /\ cursor = INFO_ADDR + 8 /\ entry_cursor = 0
        /\ outside = FALSE /\ wrapped = FALSE
        /\ total_size \in TotalSizes /\ phase = "header"
        /\ tag = NoTag /\ found_mmap = FALSE
    BY DEF Init, HEADER_SIZE
  <2>3. cursor \in 0 .. UINT32_MAX /\ entry_cursor \in 0 .. UINT32_MAX
    BY <1>1, <2>1, <2>2
  <2>4. ParserTypes
    BY <2>2, <2>3 DEF ParserTypes
  <2> QED BY <2>2, <2>4 DEF ParserInv, Walk, Inside, HEADER_SIZE
<1>3. MemoryInv
  <2>1. 0 \in Word /\ MAX_REGIONS \in Nat
    BY FrameConstants DEF Word
  <2>2. /\ memory.regions = <<>> /\ memory.dropped_regions = 0
        /\ seen = <<>> /\ seen \in Seq(EntrySet) /\ Len(<<>>) = 0
    BY DEF Init, EmptyMemory
  <2>3. totals \in [usable : Word, reserved : Word] /\ memory \in MemoryTable
    BY <2>1, EmptyTables DEF Init
  <2> QED BY <2>1, <2>2, <2>3 DEF MemoryInv
<1>4. FramesInv
  <2>1. frames = EmptyFrames /\ i = 1 /\ phase = "header"
    BY DEF Init
  <2>2. i \in 1 .. Len(memory.regions) + 1
    BY <1>3, <2>1 DEF MemoryInv, MemoryTable
  <2>3. 1 .. i - 1 = {}
    BY <2>1
  <2> QED BY <2>1, <2>2, <2>3, EmptyTables DEF FramesInv
<1> QED BY <1>2, <1>3, <1>4 DEF IInv

-----------------------------------------------------------------------------
(* A sum of 32-bit numbers fits, or loses 2^32.                            *)
LEMMA WrapSum ==
    ASSUME NEW n \in 0 .. UINT32_MAX, NEW m \in 0 .. UINT32_MAX
    PROVE  /\ Wrap32(n + m) \in 0 .. UINT32_MAX
           /\ n + m <= UINT32_MAX => Wrap32(n + m) = n + m
           /\ n + m > UINT32_MAX => Wrap32(n + m) = n + m - (UINT32_MAX + 1)
<1>1. UINT32_MAX \in Nat
  BY BootInfoAssumption
<1>2. PICK w \in Nat : w = UINT32_MAX + 1 /\ w > 0
  BY <1>1
<1>3. PICK k \in Nat : k = n + m /\ k < 2 * w
  BY <1>1, <1>2
<1>4. CASE k < w
  <2>1. k % w = k
    BY <1>2, <1>3, <1>4
  <2> QED BY <1>1, <1>2, <1>3, <1>4, <2>1 DEF Wrap32
<1>5. CASE k >= w
  <2>1. k % w = k - w
    BY <1>2, <1>3, <1>5
  <2> QED BY <1>1, <1>2, <1>3, <1>5, <2>1 DEF Wrap32
<1> QED BY <1>2, <1>3, <1>4, <1>5

LEMMA TagFields ==
    ASSUME NEW t \in TagSet \cup {NoTag}
    PROVE  t.size \in 0 .. UINT32_MAX /\ t.entry_size \in 0 .. UINT32_MAX
<1>1. UINT32_MAX \in Nat
  BY BootInfoAssumption
<1>2. CASE t \in TagSet
  BY <1>2, BootInfoAssumption
<1>3. CASE t = NoTag
  BY <1>1, <1>3 DEF NoTag
<1> QED BY <1>2, <1>3

LEMMA AlignedSize ==
    ASSUME NEW n \in 0 .. UINT32_MAX
    PROVE  align_up_8(n) \in 0 .. UINT32_MAX
<1>1. UINT32_MAX \in Nat
  BY BootInfoAssumption
<1>2. PICK m \in Nat : m = ((n + 7) \div 8) * 8
  BY <1>1
<1>3. PICK w \in Nat : w = UINT32_MAX + 1 /\ w > 0
  BY <1>1
<1>4. m % w \in 0 .. w - 1
  BY <1>2, <1>3
<1> QED BY <1>1, <1>2, <1>3, <1>4 DEF align_up_8, Wrap32

(* Where the tag being read ends, and with a structure in the lower half   *)
(* how much room its entries have.                                         *)
LEMMA StructureFacts ==
    ASSUME ParserTypes, Walk
    PROVE  /\ UINT32_MAX \in Nat /\ INFO_ADDR \in Nat /\ INFO_ADDR >= 1
           /\ total_size \in Nat /\ StructureEnd \in Nat
           /\ INFO_ADDR + 8 <= UINT32_MAX
           /\ StructureEnd = INFO_ADDR + total_size
           /\ tag.size \in 0 .. UINT32_MAX /\ tag.entry_size \in 0 .. UINT32_MAX
           /\ entry_end \in 0 .. UINT32_MAX
           /\ phase \notin {"header", "panic"} => end_addr = StructureEnd
<1>1. /\ UINT32_MAX \in Nat /\ INFO_ADDR \in 1 .. UINT32_MAX - 8
      /\ total_size \in 0 .. UINT32_MAX
  BY BootInfoAssumption DEF ParserTypes, HEADER_SIZE
<1>2. INFO_ADDR \in 0 .. UINT32_MAX /\ INFO_ADDR + 8 <= UINT32_MAX /\ INFO_ADDR >= 1
  BY <1>1
<1>3. tag.size \in 0 .. UINT32_MAX /\ tag.entry_size \in 0 .. UINT32_MAX
  BY TagFields DEF ParserTypes
<1>4. entry_end \in 0 .. UINT32_MAX
  BY <1>3, WrapSum DEF ParserTypes, entry_end
<1>5. phase \notin {"header", "panic"} => end_addr = StructureEnd
  BY <1>1, <1>2, WrapSum DEF Walk, end_addr, StructureEnd
<1> QED BY <1>1, <1>2, <1>3, <1>4, <1>5 DEF StructureEnd

LEMMA ReadTagStep == ParserInv /\ ReadTag => ParserInv'
<1> SUFFICES ASSUME ParserInv, ReadTag PROVE ParserInv'
  OBVIOUS
<1>1. ParserTypes /\ Walk /\ Inside
  BY DEF ParserInv
<1>2. /\ UINT32_MAX \in Nat /\ INFO_ADDR \in Nat /\ total_size \in Nat /\ INFO_ADDR >= 1
      /\ StructureEnd \in Nat /\ StructureEnd = INFO_ADDR + total_size
      /\ cursor \in 0 .. UINT32_MAX
  BY <1>1, StructureFacts DEF ParserTypes
<1>3. PICK t \in TagSet :
      /\ tag' = t
      /\ found_mmap' = (found_mmap \/ (~ BadTag(t) /\ t.type = TAG_MMAP))
      /\ Reads(cursor, IF t.type = TAG_MMAP /\ ~ BadTag(t)
                          /\ t.size >= MMAP_HEADER_SIZE
                       THEN MMAP_HEADER_SIZE ELSE HEADER_SIZE)
      /\ wrapped' = (wrapped \/ ~ Fits32(cursor + HEADER_SIZE)
                             \/ ~ Fits32(cursor + t.size))
      /\ phase' =
          IF BadTag(t) \/ (t.type = TAG_MMAP /\ BadMmap(t)) THEN "panic"
          ELSE CASE t.type = TAG_END -> "finish"
                 [] t.type = TAG_MMAP -> "entries"
                 [] OTHER -> "advance"
  BY DEF ReadTag
<1>4. /\ phase = "tags" /\ MoreTags /\ entry_cursor' = Wrap32(cursor + 16)
      /\ total_size' = total_size /\ cursor' = cursor /\ StructureEnd' = StructureEnd
  BY DEF ReadTag, MMAP_HEADER_SIZE, StructureEnd
<1>5. /\ StructureEnd <= UINT32_MAX /\ INFO_ADDR + 8 <= StructureEnd /\ cursor <= StructureEnd
      /\ end_addr = StructureEnd
  BY <1>1, <1>4, StructureFacts DEF Walk, HEADER_SIZE
<1>6. t.size \in 0 .. UINT32_MAX /\ t.entry_size \in 0 .. UINT32_MAX
  BY TagFields
<1>7. PICK w \in 0 .. UINT32_MAX :
        /\ w = Wrap32(cursor + t.size) /\ entry_end' = w
        /\ cursor + t.size <= UINT32_MAX => w = cursor + t.size
        /\ cursor + t.size > UINT32_MAX => w = cursor + t.size - (UINT32_MAX + 1)
  BY <1>2, <1>3, <1>4, <1>6, WrapSum DEF entry_end
<1>8. ~ BadTag(t) => t.size >= 8 /\ w <= StructureEnd
  BY <1>2, <1>5, <1>6, <1>7 DEF BadTag, HEADER_SIZE
<1>9. /\ phase' \in {"panic", "finish", "entries", "advance"}
      /\ phase' # "panic" => ~ BadTag(t)
      /\ phase' = "entries" => ~ BadMmap(t)
  <2>1. CASE BadTag(t) \/ (t.type = TAG_MMAP /\ BadMmap(t))
    BY <1>3, <2>1
  <2>2. CASE ~ (BadTag(t) \/ (t.type = TAG_MMAP /\ BadMmap(t)))
    <3>1. phase' = CASE t.type = TAG_END -> "finish"
                     [] t.type = TAG_MMAP -> "entries"
                     [] OTHER -> "advance"
      BY <1>3, <2>2, Zenon
    <3>2. \/ t.type = 0 /\ phase' = "finish"
          \/ t.type = 6 /\ phase' = "entries"
          \/ t.type # 0 /\ t.type # 6 /\ phase' = "advance"
      BY <3>1 DEF TAG_END, TAG_MMAP
    <3> QED BY <2>2, <3>2 DEF TAG_MMAP
  <2> QED BY <2>1, <2>2
<1>10. ~ BadMmap(t) => t.size >= 16 /\ t.entry_size >= 24
  BY <1>2, <1>6 DEF BadMmap, MMAP_HEADER_SIZE, ENTRY_SIZE
<1>11. 8 \in 0 .. UINT32_MAX
  BY <1>2, <1>5
<1>12. MoreTags => (cursor + 8 <= UINT32_MAX => cursor + 8 <= StructureEnd)
  BY <1>2, <1>5, <1>11, WrapSum DEF MoreTags, HEADER_SIZE
<1>13. ParserTypes'
  <2>1. entry_cursor' \in 0 .. UINT32_MAX
    <3>1. cursor + 16 \in Nat /\ UINT32_MAX + 1 \in Nat \ {0}
      BY <1>2
    <3>2. (cursor + 16) % (UINT32_MAX + 1) \in 0 .. UINT32_MAX
      BY <1>2, <3>1
    <3> QED BY <1>4, <3>2 DEF Wrap32
  <2>2. found_mmap' \in BOOLEAN /\ wrapped' \in BOOLEAN /\ outside' \in BOOLEAN
    BY <1>1, <1>3 DEF ParserTypes, Reads
  <2> QED BY <1>1, <1>3, <1>4, <1>9, <2>1, <2>2 DEF ParserTypes
<1>14. Walk'
  <2>1. ASSUME phase' = "entries", 2 * StructureEnd <= UINT32_MAX
        PROVE  entry_cursor' + entry_end' <= 2 * StructureEnd
    <3>1. cursor + 8 <= UINT32_MAX /\ cursor + 16 <= UINT32_MAX /\ 16 \in 0 .. UINT32_MAX
      BY <1>2, <1>5, <2>1, <1>12, <1>4
    <3>2. cursor + 8 <= StructureEnd /\ entry_cursor' = cursor + 16
      BY <1>2, <1>4, <1>12, <3>1, WrapSum
    <3>3. t.size >= 16 /\ w <= StructureEnd
      BY <1>8, <1>9, <1>10, <2>1
    <3>4. CASE cursor + t.size <= UINT32_MAX
      BY <1>2, <1>6, <1>7, <3>2, <3>3, <3>4
    <3>5. CASE cursor + t.size > UINT32_MAX
      BY <1>2, <1>6, <1>7, <3>2, <3>3, <3>5
    <3> QED BY <1>2, <1>6, <3>4, <3>5
  <2>2. phase' \in {"entries", "advance"} =>
            tag' \in TagSet /\ 8 <= tag'.size /\ entry_end' <= StructureEnd'
    BY <1>3, <1>4, <1>7, <1>8, <1>9
  <2>3. phase' = "entries" => 24 <= tag'.entry_size
    BY <1>3, <1>9, <1>10
  <2> QED BY <1>4, <1>5, <1>9, <2>1, <2>2, <2>3 DEF Walk, HEADER_SIZE, ENTRY_SIZE
<1>15. Inside'
  <2> SUFFICES ASSUME ~ wrapped'
               PROVE  ~ outside' /\ INFO_ADDR <= cursor' /\ (phase' = "entries" => INFO_ADDR <= entry_cursor')
    BY DEF Inside
  <2>1. /\ ~ wrapped /\ cursor + 8 <= UINT32_MAX /\ cursor + t.size <= UINT32_MAX
        /\ ~ outside /\ INFO_ADDR <= cursor
    BY <1>1, <1>3, <1>4 DEF Fits32, HEADER_SIZE, Inside
  <2>2. cursor + 8 <= StructureEnd /\ w = cursor + t.size
    BY <1>4, <1>7, <1>12, <2>1
  <2>3. ~ outside'
    <3>1. PICK n \in {8, 16} :
            /\ outside' = (outside \/ cursor < INFO_ADDR \/ cursor + n > StructureEnd)
            /\ n = 16 => ~ BadTag(t) /\ t.size >= 16
      BY <1>3 DEF Reads, HEADER_SIZE, MMAP_HEADER_SIZE, StructureEnd
    <3>2. cursor + n <= StructureEnd
      BY <1>2, <1>6, <1>8, <2>2, <3>1
    <3>3. ~ (cursor < INFO_ADDR) /\ ~ (cursor + n > StructureEnd)
      BY <1>2, <2>1, <3>1, <3>2
    <3> QED BY <2>1, <3>1, <3>3, Zenon
  <2>4. phase' = "entries" => INFO_ADDR <= entry_cursor'
    <3>1. phase' = "entries" => t.size >= 16
      BY <1>9, <1>10
    <3>2. phase' = "entries" => cursor + 16 <= UINT32_MAX
      BY <1>2, <1>6, <2>1, <3>1
    <3>3. phase' = "entries" => 16 \in 0 .. UINT32_MAX
      BY <1>2, <3>2
    <3>4. phase' = "entries" => entry_cursor' = cursor + 16
      BY <1>2, <1>4, <3>2, <3>3, WrapSum
    <3> QED BY <1>2, <2>1, <3>4
  <2> QED BY <1>4, <2>1, <2>3, <2>4
<1> QED BY <1>13, <1>14, <1>15 DEF ParserInv

LEMMA ReadEntryStep == ParserInv /\ ReadEntry => ParserInv'
<1> SUFFICES ASSUME ParserInv, ReadEntry PROVE ParserInv'
  OBVIOUS
<1>1. ParserTypes /\ Walk /\ Inside
  BY DEF ParserInv
<1>2. /\ UINT32_MAX \in Nat /\ INFO_ADDR \in Nat /\ total_size \in Nat /\ StructureEnd \in Nat
      /\ StructureEnd = INFO_ADDR + total_size /\ entry_end \in 0 .. UINT32_MAX
      /\ tag.entry_size \in 0 .. UINT32_MAX /\ entry_cursor \in 0 .. UINT32_MAX
  BY <1>1, StructureFacts DEF ParserTypes
<1>3. /\ phase = "entries" /\ MoreEntries /\ Reads(entry_cursor, 24)
      /\ entry_cursor' = Wrap32(entry_cursor + tag.entry_size)
      /\ wrapped' = (wrapped \/ ~ Fits32(entry_cursor + tag.entry_size))
      /\ UNCHANGED <<phase, total_size, cursor, tag, found_mmap>>
      /\ StructureEnd' = StructureEnd /\ entry_end' = entry_end
  BY DEF ReadEntry, StructureEnd, entry_end, ENTRY_SIZE
<1>4. 24 <= tag.entry_size /\ entry_end <= StructureEnd
  BY <1>1, <1>3 DEF Walk, ENTRY_SIZE
<1>5. entry_cursor' \in 0 .. UINT32_MAX /\ entry_cursor' <= entry_end
  BY <1>2, <1>3, WrapSum DEF MoreEntries
<1>6. ParserTypes'
  BY <1>1, <1>3, <1>5 DEF ParserTypes, Reads
<1>7. Walk'
  <2>1. entry_cursor' + entry_end' <= 2 * StructureEnd'
    BY <1>2, <1>3, <1>4, <1>5
  <2> QED BY <1>1, <1>3, <2>1 DEF Walk
<1>8. Inside'
  <2> SUFFICES ASSUME ~ wrapped'
               PROVE  ~ outside' /\ INFO_ADDR <= cursor' /\ INFO_ADDR <= entry_cursor'
    BY DEF Inside
  <2>1. /\ entry_cursor + tag.entry_size <= UINT32_MAX /\ ~ outside
        /\ INFO_ADDR <= cursor /\ INFO_ADDR <= entry_cursor
    BY <1>1, <1>3 DEF Fits32, Inside
  <2>2. entry_cursor' = entry_cursor + tag.entry_size
    BY <1>2, <1>3, <2>1, WrapSum
  <2>3. ~ outside'
    <3>1. outside' = (outside \/ entry_cursor < INFO_ADDR \/ entry_cursor + 24 > StructureEnd)
      BY <1>3 DEF Reads, StructureEnd
    <3>2. entry_cursor + 24 <= StructureEnd
      BY <1>2, <1>4, <1>5, <2>2
    <3>3. ~ (entry_cursor < INFO_ADDR) /\ ~ (entry_cursor + 24 > StructureEnd)
      BY <1>2, <2>1, <3>2
    <3> QED BY <2>1, <3>1, <3>3, Zenon
  <2> QED BY <1>2, <1>3, <2>1, <2>2, <2>3
<1> QED BY <1>6, <1>7, <1>8 DEF ParserInv

LEMMA AdvanceTagStep == ParserInv /\ AdvanceTag => ParserInv'
<1> SUFFICES ASSUME ParserInv, AdvanceTag PROVE ParserInv'
  OBVIOUS
<1>1. ParserTypes /\ Walk /\ Inside
  BY DEF ParserInv
<1>2. /\ UINT32_MAX \in Nat /\ INFO_ADDR \in Nat /\ total_size \in Nat /\ StructureEnd \in Nat
      /\ tag.size \in 0 .. UINT32_MAX /\ cursor \in 0 .. UINT32_MAX
  BY <1>1, StructureFacts DEF ParserTypes
<1>3. /\ phase = "advance" /\ phase' = IF BadAdvance THEN "panic" ELSE "tags"
      /\ cursor' = IF BadAdvance THEN cursor ELSE Wrap32(cursor + align_up_8(tag.size))
      /\ wrapped' = (wrapped \/ ~ Fits32(cursor + align_up_8(tag.size)))
      /\ UNCHANGED <<total_size, tag, entry_cursor, found_mmap, outside>>
      /\ StructureEnd' = StructureEnd
  BY DEF AdvanceTag, StructureEnd
<1>4. PICK a \in 0 .. UINT32_MAX : a = align_up_8(tag.size)
  BY <1>2, AlignedSize
<1>5. /\ Wrap32(cursor + a) \in 0 .. UINT32_MAX
      /\ cursor + a <= UINT32_MAX => Wrap32(cursor + a) = cursor + a
  BY <1>2, <1>4, WrapSum
<1>6. end_addr = StructureEnd /\ StructureEnd <= UINT32_MAX
      /\ INFO_ADDR + HEADER_SIZE <= StructureEnd
  BY <1>1, <1>3, StructureFacts DEF Walk
<1>7. ~ BadAdvance => cursor' <= StructureEnd
  BY <1>2, <1>3, <1>4, <1>5, <1>6 DEF BadAdvance
<1>8. ParserTypes'
  BY <1>1, <1>2, <1>3, <1>4, <1>5 DEF ParserTypes
<1>9. Walk'
  BY <1>3, <1>6, <1>7 DEF Walk
<1>10. Inside'
  <2>1. ASSUME ~ wrapped' PROVE ~ wrapped /\ cursor + a <= UINT32_MAX
    BY <1>3, <1>4, <2>1, Zenon DEF Fits32
  <2>2. ASSUME ~ wrapped' PROVE ~ outside' /\ INFO_ADDR <= cursor
    BY <1>1, <1>3, <2>1, <2>2 DEF Inside
  <2>3. ASSUME ~ wrapped' PROVE INFO_ADDR <= cursor'
    BY <1>2, <1>3, <1>4, <1>5, <2>1, <2>2, <2>3
  <2>4. phase' # "entries"
    BY <1>3
  <2> QED BY <2>2, <2>3, <2>4 DEF Inside
<1> QED BY <1>8, <1>9, <1>10 DEF ParserInv

LEMMA ParserStep == IInv /\ [Step]_vars => ParserInv'
<1> SUFFICES ASSUME IInv, [Step]_vars PROVE ParserInv'
  OBVIOUS
<1>1. ParserInv /\ ParserTypes /\ Walk /\ Inside
  BY DEF IInv, ParserInv
<1>2. /\ UINT32_MAX \in Nat /\ INFO_ADDR \in Nat /\ total_size \in Nat
      /\ INFO_ADDR >= 1 /\ INFO_ADDR + 8 <= UINT32_MAX
      /\ StructureEnd \in Nat /\ StructureEnd = INFO_ADDR + total_size
  BY <1>1, StructureFacts
<1>3. CASE CheckHeader
  <2>1. /\ UNCHANGED <<total_size, cursor, tag, entry_cursor, found_mmap, outside, wrapped>>
        /\ phase' \in {"panic", "tags"} /\ StructureEnd' = StructureEnd
        /\ phase = "header" /\ cursor = INFO_ADDR + 8
    BY <1>1, <1>3 DEF CheckHeader, parse, StructureEnd, Walk, HEADER_SIZE
  <2>2. ASSUME phase' = "tags" PROVE StructureEnd <= UINT32_MAX /\ INFO_ADDR + 8 <= StructureEnd
    <3>1. INFO_ADDR \in 0 .. UINT32_MAX /\ total_size \in 0 .. UINT32_MAX
      BY <1>1, <1>2, BootInfoAssumption DEF ParserTypes
    <3>2. end_addr \in Nat /\ (StructureEnd > UINT32_MAX => end_addr < INFO_ADDR)
      BY <1>2, <3>1, WrapSum DEF end_addr
    <3>3. ~ (total_size < 8 \/ end_addr < INFO_ADDR)
      BY <1>3, <2>2 DEF CheckHeader, HEADER_SIZE
    <3> QED BY <1>2, <3>2, <3>3
  <2>3. ParserTypes'
    BY <1>1, <2>1 DEF ParserTypes
  <2>4. Walk'
    BY <2>1, <2>2 DEF Walk, HEADER_SIZE
  <2>5. Inside'
    BY <1>1, <1>2, <2>1 DEF Inside
  <2> QED BY <2>3, <2>4, <2>5 DEF ParserInv
<1>4. CASE ReadTag
  BY <1>1, <1>4, ReadTagStep
<1>5. CASE ReadEntry
  BY <1>1, <1>5, ReadEntryStep
<1>6. CASE EndEntries
  BY <1>1, <1>6 DEF EndEntries, parse, ParserInv, ParserTypes, Walk, Inside, StructureEnd, entry_end
<1>7. CASE AdvanceTag
  BY <1>1, <1>7, AdvanceTagStep
<1>8. CASE EndTags
  BY <1>1, <1>8 DEF EndTags, parse, ParserInv, ParserTypes, Walk, Inside, StructureEnd
<1>9. CASE FinishParse
  <2>1. /\ phase = "finish" /\ phase' \in {"regions", "panic"}
        /\ cursor' = INFO_ADDR + 8 /\ entry_cursor' = 0 /\ tag' = NoTag /\ found_mmap' = FALSE
        /\ UNCHANGED <<total_size, outside, wrapped>> /\ StructureEnd' = StructureEnd
    BY <1>9 DEF FinishParse, HEADER_SIZE, StructureEnd
  <2>2. cursor' \in 0 .. UINT32_MAX /\ entry_cursor' \in 0 .. UINT32_MAX
    BY <1>2, <2>1
  <2>3. ParserTypes'
    BY <1>1, <2>1, <2>2 DEF ParserTypes
  <2> QED BY <1>1, <2>1, <2>3 DEF ParserInv, Walk, Inside
<1>10. CASE PrepareStep
  BY <1>1, <1>10 DEF PrepareStep, parse, ParserInv, ParserTypes, Walk, Inside, StructureEnd
<1>11. CASE UNCHANGED vars
  BY <1>1, <1>11 DEF vars, parse, ParserInv, ParserTypes, Walk, Inside, StructureEnd, entry_end
<1> QED
  BY <1>3, <1>4, <1>5, <1>6, <1>7, <1>8, <1>9, <1>10, <1>11 DEF Step


-----------------------------------------------------------------------------
LEMMA MemoryStep == IInv /\ [Step]_vars => MemoryInv'
<1> SUFFICES ASSUME IInv, [Step]_vars PROVE MemoryInv'
  OBVIOUS
<1>1. MemoryInv
  BY DEF IInv
<1>2. CASE UNCHANGED <<totals, memory, seen>>
  BY <1>1, <1>2 DEF MemoryInv
<1>3. CASE ReadEntry
  <2>1. PICK e \in EntrySet :
        /\ totals' = AddTotals(e) /\ memory' = stage5b_account_entry(memory, e)
        /\ seen' = Append(seen, e)
    BY <1>3 DEF ReadEntry
  <2>2. /\ memory \in MemoryTable /\ seen \in Seq(EntrySet)
        /\ memory.regions \in Seq(RegionRec) /\ memory.dropped_regions \in Nat
        /\ Len(memory.regions) <= MAX_REGIONS /\ Len(memory.regions) <= Len(seen)
        /\ \A k \in 1 .. Len(memory.regions) : memory.regions[k] = RegionOf(seen[k])
        /\ memory.dropped_regions = 0 => Len(memory.regions) = Len(seen)
        /\ Len(memory.regions) < MAX_REGIONS => memory.dropped_regions = 0
        /\ MAX_REGIONS \in Nat
    BY <1>1, FrameConstants DEF MemoryInv, MemoryTable
  <2>3. PICK n, s \in Nat : n = Len(memory.regions) /\ s = Len(seen)
    BY <2>2
  <2>4. /\ seen' \in Seq(EntrySet) /\ Len(seen') = s + 1
        /\ \A k \in 1 .. s : seen'[k] = seen[k]
        /\ seen'[s + 1] = e
    BY <2>1, <2>2, <2>3
  <2>5. totals' \in [usable : Word, reserved : Word]
    <3>1. e.length \in Word /\ totals.usable \in Word /\ totals.reserved \in Word
      BY <1>1, BootInfoAssumption DEF MemoryInv
    <3>2. PICK u, v \in Word : /\ u = add_clamp_u64(totals.usable, e.length)
                               /\ v = add_clamp_u64(totals.reserved, e.length)
      BY <3>1, Additions
    <3>3. \/ totals' = [totals EXCEPT !.usable = u]
          \/ totals' = [totals EXCEPT !.reserved = v]
      BY <2>1, <3>2 DEF AddTotals
    <3> QED BY <1>1, <3>3 DEF MemoryInv
  <2>6. /\ memory' \in MemoryTable
        /\ \/ /\ n >= MAX_REGIONS /\ memory'.regions = memory.regions
              /\ memory'.dropped_regions = memory.dropped_regions + 1
           \/ /\ n < MAX_REGIONS /\ memory'.regions = Append(memory.regions, RegionOf(e))
              /\ memory'.dropped_regions = memory.dropped_regions
    BY <2>1, <2>2, <2>3, AccountEntry
  <2>7. CASE /\ memory'.regions = memory.regions
             /\ memory'.dropped_regions = memory.dropped_regions + 1
    <3>1. memory'.dropped_regions # 0
      BY <2>2, <2>7
    <3>2. n <= s + 1 /\ \A k \in 1 .. n : memory'.regions[k] = RegionOf(seen'[k])
      BY <2>2, <2>3, <2>4, <2>7
    <3>3. ~ (n < MAX_REGIONS)
      BY <2>2, <2>3, <2>6, <2>7
    <3> QED BY <2>2, <2>3, <2>4, <2>5, <2>6, <2>7, <3>1, <3>2, <3>3 DEF MemoryInv
  <2>8. CASE /\ n < MAX_REGIONS /\ memory'.regions = Append(memory.regions, RegionOf(e))
             /\ memory'.dropped_regions = memory.dropped_regions
    <3>1. n = s /\ memory'.dropped_regions = 0
      BY <2>2, <2>3, <2>8
    <3>2. /\ Len(memory'.regions) = n + 1
          /\ \A k \in 1 .. n : memory'.regions[k] = memory.regions[k]
          /\ memory'.regions[n + 1] = RegionOf(e)
      BY <2>2, <2>3, <2>8, EntryRegion
    <3>3. ASSUME NEW k \in 1 .. n + 1 PROVE memory'.regions[k] = RegionOf(seen'[k])
      <4>1. CASE k \in 1 .. n
        BY <2>2, <2>3, <2>4, <3>1, <3>2, <4>1
      <4>2. CASE k = n + 1
        BY <2>4, <3>1, <3>2, <4>2
      <4> QED BY <3>3, <4>1, <4>2
    <3> QED BY <2>2, <2>4, <2>5, <2>6, <2>8, <3>1, <3>2, <3>3 DEF MemoryInv
  <2> QED BY <2>6, <2>7, <2>8
<1>4. CASE FinishParse
  <2>1. /\ seen' = seen /\ totals' = [usable |-> 0, reserved |-> 0]
        /\ \/ memory' = memory
           \/ memory' = [memory EXCEPT !.raw_usable_bytes = totals.usable,
                                       !.raw_reserved_bytes = totals.reserved]
    BY <1>4 DEF FinishParse
  <2>2. memory \in MemoryTable /\ totals.usable \in Word /\ totals.reserved \in Word
    BY <1>1 DEF MemoryInv
  <2>3. /\ memory' \in MemoryTable /\ memory'.regions = memory.regions
        /\ memory'.dropped_regions = memory.dropped_regions
    BY <2>1, <2>2 DEF MemoryTable
  <2>4. totals' \in [usable : Word, reserved : Word]
    BY <2>1, FrameConstants DEF Word
  <2> QED BY <1>1, <2>1, <2>3, <2>4 DEF MemoryInv
<1> QED
  BY <1>2, <1>3, <1>4 DEF Step, vars, parse, CheckHeader, ReadTag,
       EndEntries, AdvanceTag, EndTags, PrepareStep

LEMMA EntryWords ==
    ASSUME NEW e \in EntrySet
    PROVE  e.base \in Nat /\ e.length \in Nat
<1>1. e \in [base : Word, length : Word, type : Nat]
  BY BootInfoAssumption
<1> QED BY <1>1 DEF Word

(* In a map in address order the frames of a later entry come after those  *)
(* of an earlier one.                                                      *)
LEMMA EntryOrder ==
    ASSUME seen \in Seq(EntrySet), MapAscending,
           NEW a \in 1 .. Len(seen), NEW b \in 1 .. Len(seen), a < b,
           NEW x \in EntryFrames(seen[a]), NEW y \in EntryFrames(seen[b])
    PROVE  x < y
<1>1. seen[a] \in EntrySet /\ seen[b] \in EntrySet
  BY ElementOfSeq
<1>2. seen[a].base \in Nat /\ seen[a].length \in Nat /\ seen[b].base \in Nat
  BY <1>1, EntryWords
<1>3. seen[a].base + seen[a].length <= seen[b].base
  BY DEF MapAscending
<1>4. /\ x \in Nat /\ y \in Nat /\ FrameEnd(x) <= seen[a].base + seen[a].length
      /\ seen[b].base <= FrameStart(y)
  BY DEF EntryFrames, WithinEntry
<1>5. FrameEnd(x) \in Nat /\ FrameStart(y) \in Nat
  BY <1>4, FrameOrder
<1>6. FrameEnd(x) <= FrameStart(y)
  BY <1>2, <1>3, <1>4, <1>5
<1> QED BY <1>4, <1>6, FrameOrder

LEMMA FramesStep == IInv /\ [Step]_vars => FramesInv'
<1> SUFFICES ASSUME IInv, [Step]_vars PROVE FramesInv'
  OBVIOUS
<1>1. ParserInv /\ MemoryInv /\ FramesInv /\ MemoryInv'
  BY MemoryStep DEF IInv
<1>2. Len(memory.regions) \in Nat /\ Len(memory'.regions) \in Nat /\ i \in Nat
  BY <1>1 DEF MemoryInv, MemoryTable, FramesInv
<1>3. CASE /\ phase \in {"header", "tags", "entries", "advance", "finish"}
           /\ UNCHANGED <<frames, i>> /\ phase' # "done"
  <2>1. frames' = EmptyFrames /\ i' = 1 /\ 1 .. i' - 1 = {}
    BY <1>1, <1>3 DEF FramesInv
  <2>2. i' \in 1 .. Len(memory'.regions) + 1
    BY <1>2, <2>1
  <2> QED BY <1>3, <2>1, <2>2, EmptyTables DEF FramesInv
<1>4. CASE PrepareStep
  <2>1. /\ phase = "regions" /\ UNCHANGED <<memory, seen>>
        /\ MapAscending' = MapAscending
    BY <1>4 DEF PrepareStep, MapAscending
  <2>2. CASE KernelBoundsInvalid
    <3>1. phase' = "panic" /\ UNCHANGED <<frames, i>>
      BY <1>4, <2>2 DEF PrepareStep
    <3> QED BY <1>1, <2>1, <3>1 DEF FramesInv
  <2>3. CASE ~ KernelBoundsInvalid /\ i > Len(memory.regions)
    <3>1. phase' = "done" /\ UNCHANGED <<frames, i>>
      BY <1>4, <2>3 DEF PrepareStep
    <3>2. i = Len(memory.regions) + 1
      BY <1>1, <1>2, <2>3 DEF FramesInv
    <3> QED BY <1>1, <2>1, <3>1, <3>2 DEF FramesInv
  <2>4. CASE ~ KernelBoundsInvalid /\ ~ (i > Len(memory.regions))
    <3>1. frames' = PrepareRegion(frames, memory.regions[i]) /\ i' = i + 1 /\ phase' = phase
      BY <1>4, <2>4 DEF PrepareStep
    <3>2. /\ i \in 1 .. Len(memory.regions) /\ i \in 1 .. Len(seen)
          /\ i + 1 \in 1 .. Len(memory.regions) + 1
          /\ 1 .. i - 1 \subseteq 1 .. Len(seen)
          /\ 1 .. i' - 1 = (1 .. i - 1) \cup {i}
      BY <1>1, <1>2, <2>4, <3>1 DEF FramesInv, MemoryInv
    <3>3. PICK e \in EntrySet : e = seen[i] /\ memory.regions[i] = RegionOf(e)
      BY <1>1, <3>2, ElementOfSeq DEF MemoryInv
    <3>4. PICK r \in RegionRec : r = memory.regions[i] /\ RegionFrames(r) = EntryFrames(seen[i])
      BY <3>3, EntryRegion
    <3>5. /\ TableOK(frames')
          /\ RecordedIn(frames') \subseteq RecordedIn(frames) \cup EntryFrames(seen[i])
          /\ frames'.dropped_ranges = 0 =>
                  /\ frames.dropped_ranges = 0
                  /\ RecordedIn(frames') = RecordedIn(frames) \cup EntryFrames(seen[i])
          /\ TableExact(frames)
                /\ (\A x \in RecordedIn(frames), y \in EntryFrames(seen[i]) : x < y)
                    => TableExact(frames')
      BY <1>1, <2>4, <3>1, <3>4, RegionStep DEF FramesInv
    <3>6. \A x \in RecordedIn(frames') : \E k \in 1 .. i' - 1 : x \in EntryFrames(seen[k])
      BY <1>1, <3>2, <3>5 DEF FramesInv
    <3>7. frames'.dropped_ranges = 0 =>
            \A k \in 1 .. i' - 1 : EntryFrames(seen[k]) \subseteq RecordedIn(frames')
      BY <1>1, <3>2, <3>5 DEF FramesInv
    <3>8. MapAscending => TableExact(frames')
      <4> SUFFICES ASSUME MapAscending PROVE TableExact(frames')
        OBVIOUS
      <4>1. TableExact(frames)
        BY <1>1 DEF FramesInv
      <4>2. ASSUME NEW x \in RecordedIn(frames), NEW y \in EntryFrames(seen[i]) PROVE x < y
        <5>1. PICK k \in 1 .. i - 1 : x \in EntryFrames(seen[k])
          BY <1>1 DEF FramesInv
        <5>2. k \in 1 .. Len(seen) /\ k < i
          BY <1>2, <3>2, <5>1
        <5> QED BY <1>1, <3>2, <5>1, <5>2, EntryOrder DEF MemoryInv
      <4> QED BY <3>5, <4>1, <4>2
    <3> QED BY <2>1, <3>1, <3>2, <3>5, <3>6, <3>7, <3>8 DEF FramesInv
  <2> QED BY <2>2, <2>3, <2>4
<1>5. CASE UNCHANGED vars
  BY <1>1, <1>5 DEF vars, FramesInv, MapAscending
<1>6. CASE Step /\ ~ PrepareStep
  <2>1. /\ phase \in {"header", "tags", "entries", "advance", "finish"}
        /\ UNCHANGED <<frames, i>>
    BY <1>6 DEF Step, CheckHeader, ReadTag, ReadEntry, EndEntries, AdvanceTag, EndTags, FinishParse
  <2>2. phase' # "done"
    <3>1. CASE ReadTag
      <4>1. PICK t \in TagSet :
            phase' = IF BadTag(t) \/ (t.type = TAG_MMAP /\ BadMmap(t)) THEN "panic"
                     ELSE CASE t.type = TAG_END -> "finish"
                            [] t.type = TAG_MMAP -> "entries"
                            [] OTHER -> "advance"
        BY <3>1 DEF ReadTag
      <4> QED BY <4>1 DEF TAG_END, TAG_MMAP
    <3> QED
      BY <1>6, <3>1 DEF Step, CheckHeader, ReadEntry, EndEntries, AdvanceTag, EndTags, FinishParse
  <2> QED BY <1>3, <2>1, <2>2
<1> QED BY <1>4, <1>5, <1>6


-----------------------------------------------------------------------------
(* The state of stage5a_parse_mmap and stage5c_prepare_frame_bookkeeping   *)
(* always satisfies the inductive invariant.                               *)
THEOREM BootInfoInvariant == Spec => []IInv
<1>1. IInv /\ [Step]_vars => IInv'
  BY ParserStep, MemoryStep, FramesStep DEF IInv
<1> QED BY <1>1, InitInv, PTL DEF Spec

(* For every structure, size fields that wrap included: Stages 5B and 5C   *)
(* write nothing outside their tables, the tag cursor never passes the end *)
(* of the structure, and stage5a_parse_mmap reads a byte outside it only   *)
(* after it accepted a cursor plus a size that does not fit 32 bits.       *)
THEOREM ParserStaysInBounds == Spec => []ParseInBounds
<1>1. IInv => ParseInBounds
  <2> SUFFICES ASSUME IInv PROVE ParseInBounds
    OBVIOUS
  <2>1. ReadsInBounds /\ CursorBeforeEnd
    BY StructureFacts DEF IInv, ParserInv, Inside, Walk, ReadsInBounds, CursorBeforeEnd
  <2>2. \A x \in {totals.usable, totals.reserved, memory.policy_usable_bytes,
                  memory.highest_usable_end, frames.eligible_frames,
                  frames.highest_eligible_frame} : x \in Word
    BY DEF IInv, MemoryInv, MemoryTable, FramesInv, TableOK, TableRec
  <2>3. /\ Len(memory.regions) <= MAX_REGIONS /\ Len(frames.ranges) <= MAX_RANGES
        /\ i \in 1 .. Len(memory.regions) + 1
    BY DEF IInv, MemoryInv, FramesInv, TableOK
  <2>4. TypeOK
    BY <2>2, <2>3 DEF TypeOK, IInv, ParserInv, ParserTypes
  <2> QED BY <2>1, <2>4 DEF ParseInBounds
<1> QED BY <1>1, BootInfoInvariant, PTL

(* A frame of an entry that was read may be used, and a frame that may be  *)
(* used is one of an entry that was read.                                  *)
LEMMA UsableFrames ==
    ASSUME IInv, NEW x \in Nat
    PROVE  UsableFrame(x) <=> \E k \in 1 .. Len(seen) : x \in EntryFrames(seen[k])
<1>1. seen \in Seq(EntrySet) /\ DOMAIN seen = 1 .. Len(seen)
  BY DEF IInv, MemoryInv
<1> QED BY <1>1 DEF UsableFrame, Entries, EntryFrames, ClearOfKernel

LEMMA RecordedAreUsable == IInv => EligibleFramesUsable
<1> SUFFICES ASSUME IInv, NEW x \in Recorded PROVE UsableFrame(x)
  BY DEF EligibleFramesUsable
<1>1. x \in RecordedIn(frames)
  BY DEF Recorded, RecordedIn
<1>2. PICK k \in 1 .. i - 1 : x \in EntryFrames(seen[k])
  BY <1>1 DEF IInv, FramesInv
<1>3. k \in 1 .. Len(seen)
  <2>1. /\ i \in 1 .. Len(memory.regions) + 1 /\ Len(memory.regions) \in Nat
        /\ Len(memory.regions) <= Len(seen) /\ Len(seen) \in Nat
    BY DEF IInv, FramesInv, MemoryInv, MemoryTable
  <2> QED BY <1>2, <2>1
<1>4. x \in Nat
  BY <1>2 DEF EntryFrames
<1> QED BY <1>2, <1>3, <1>4, UsableFrames

(* Rounding, cutting at the policy minimum and around the kernel image in  *)
(* stage5c_prepare_frame_bookkeeping never let a frame in that holds a     *)
(* byte of other memory.                                                   *)
THEOREM OnlyUsableFrames == Spec => []EligibleFramesUsable
BY RecordedAreUsable, BootInfoInvariant, PTL

LEMMA UsableAreRecorded == IInv => AllUsableFramesEligible
<1> SUFFICES ASSUME IInv, phase = "done", memory.dropped_regions = 0,
                    frames.dropped_ranges = 0,
                    NEW x \in 0 .. UINT64_MAX \div FRAME_SIZE, UsableFrame(x)
             PROVE  x \in Recorded
  BY DEF AllUsableFramesEligible
<1>1. x \in Nat
  BY FrameConstants
<1>2. PICK k \in 1 .. Len(seen) : x \in EntryFrames(seen[k])
  BY <1>1, UsableFrames
<1>3. k \in 1 .. i - 1
  <2>1. /\ i = Len(memory.regions) + 1 /\ Len(memory.regions) \in Nat
        /\ Len(memory.regions) = Len(seen)
    BY DEF IInv, FramesInv, MemoryInv, MemoryTable
  <2> QED BY <1>2, <2>1
<1>4. x \in RecordedIn(frames)
  BY <1>2, <1>3 DEF IInv, FramesInv
<1> QED BY <1>4 DEF RecordedIn, Recorded

(* And they lose none, unless stage5b_record_region or                     *)
(* stage5c_record_range found its table full.                              *)
THEOREM NoUsableFrameLost == Spec => []AllUsableFramesEligible
BY UsableAreRecorded, BootInfoInvariant, PTL

(* The ranges that Stage 5C hands over meet what the frame allocator       *)
(* and its callers rely on, and come in address order when the loader's    *)
(* map does.                                                               *)
THEOREM HandsOverGoodRanges == Spec => []ReadyForPmm
<1>1. IInv => ReadyForPmm
  <2> SUFFICES ASSUME IInv, phase = "done" PROVE ReadyForPmm
    BY DEF ReadyForPmm
  <2>1. TableOK(frames) /\ (MapAscending => TableExact(frames))
    BY DEF IInv, FramesInv
  <2>2. frames.ranges \in Seq(RangeRec) /\ DOMAIN frames.ranges = 1 .. Len(frames.ranges)
        /\ frames.eligible_frames \in Nat
    BY <2>1, WordAssumption DEF TableOK, TableRec, Word
  <2>3. Recorded = RecordedIn(frames)
    BY DEF Recorded, RecordedIn
  <2>4. ASSUME NEW a \in 1 .. Len(frames.ranges), NEW r, r = frames.ranges[a]
        PROVE  /\ r.start_frame + r.frame_count <= UINT64_MAX \div FRAME_SIZE
               /\ r.frame_count \in 1 .. frames.eligible_frames
               /\ FrameStart(r.start_frame) >= POLICY_MIN_ADDR
    <3>1. r \in RangeRec
      BY <2>2, <2>4, ElementOfSeq
    <3>2. /\ r.start_frame + r.frame_count <= UINT64_MAX \div FRAME_SIZE
          /\ r.frame_count <= frames.eligible_frames
      BY <2>1, <2>4 DEF TableOK
    <3>3. r.start_frame \in FramesOf(r)
      BY <3>1 DEF FramesOf, RangeRec
    <3>4. r.start_frame \in RecordedIn(frames)
      BY <2>2, <2>4, <3>3 DEF RecordedIn
    <3>5. PICK k \in 1 .. i - 1 : r.start_frame \in EntryFrames(seen[k])
      BY <3>4 DEF IInv, FramesInv
    <3>6. FrameStart(r.start_frame) >= POLICY_MIN_ADDR
      BY <3>5 DEF EntryFrames
    <3>7. r.frame_count \in 1 .. frames.eligible_frames
      BY <2>2, <3>1, <3>2 DEF RangeRec
    <3> QED BY <3>2, <3>6, <3>7
  <2>5. Cardinality(Recorded) <= frames.eligible_frames
    BY <2>1, <2>3 DEF TableOK
  <2> QED BY <2>1, <2>2, <2>4, <2>5 DEF ReadyForPmm, TableExact, TableAscends
<1> QED BY <1>1, BootInfoInvariant, PTL

(* What stage5c_prepare_frame_bookkeeping leaves in g_stage5c_frames, for  *)
(* every memory map: exactly the usable frames, unless a table was full,   *)
(* in ranges that the frame allocator can work with.                       *)
THEOREM RangesAreExact == Spec => []RangesExact
BY OnlyUsableFrames, NoUsableFrameLost, HandsOverGoodRanges, PTL DEF RangesExact

-----------------------------------------------------------------------------
(* The parser ends.                                                        *)
Closer ==
    \/ PartsLeft' \in 0 .. PartsLeft - 1
    \/ PartsLeft' = PartsLeft /\ cursor' \in cursor + 1 .. UINT32_MAX
    \/ /\ PartsLeft' = PartsLeft /\ cursor' = cursor
       /\ WorkInPart' \in 0 .. WorkInPart - 1

LEMMA EntryCloser ==
    ASSUME IInv, ReadEntry, InLowerHalf
    PROVE  EntriesLeft' \in 0 .. EntriesLeft - 1
<1>1. ParserTypes /\ Walk
  BY DEF IInv, ParserInv
<1>2. /\ phase = "entries" /\ MoreEntries
      /\ entry_cursor' = Wrap32(entry_cursor + tag.entry_size)
      /\ tag' = tag /\ entry_end' = entry_end
  BY DEF ReadEntry, entry_end
<1>3. /\ UINT32_MAX \in Nat /\ StructureEnd \in Nat /\ end_addr = StructureEnd
      /\ entry_end \in 0 .. UINT32_MAX /\ tag.entry_size \in 0 .. UINT32_MAX
      /\ entry_cursor \in 0 .. UINT32_MAX
  BY <1>1, <1>2, StructureFacts DEF ParserTypes
<1>4. 2 * StructureEnd <= UINT32_MAX
  BY <1>3 DEF InLowerHalf
<1>5. entry_cursor + entry_end <= 2 * StructureEnd /\ 24 <= tag.entry_size
  BY <1>1, <1>2, <1>4 DEF Walk, ENTRY_SIZE
<1>6. /\ entry_cursor' \in 0 .. UINT32_MAX /\ entry_cursor' <= entry_end
      /\ entry_cursor + tag.entry_size <= UINT32_MAX =>
            entry_cursor' = entry_cursor + tag.entry_size
      /\ entry_cursor + tag.entry_size > UINT32_MAX =>
            entry_cursor' = entry_cursor + tag.entry_size - (UINT32_MAX + 1)
  BY <1>2, <1>3, WrapSum DEF MoreEntries
<1>7. CASE tag.entry_size > entry_end
  <2>1. entry_cursor + tag.entry_size > UINT32_MAX
    BY <1>3, <1>6, <1>7
  <2>2. entry_cursor' < entry_cursor
    BY <1>3, <1>6, <2>1
  <2>3. EntriesLeft = entry_cursor + 1
    BY <1>7 DEF EntriesLeft
  <2>4. EntriesLeft' = entry_cursor' + 1
    BY <1>2, <1>7 DEF EntriesLeft
  <2>5. PICK m, n \in Nat : m = entry_cursor' /\ n = entry_cursor /\ m < n
    BY <1>3, <1>6, <2>2
  <2>6. m < n
    BY <2>5
  <2>7. m + 1 \in 0 .. (n + 1) - 1
    BY <2>6
  <2> QED BY <2>3, <2>4, <2>5, <2>7, Zenon
<1>8. CASE ~ (tag.entry_size > entry_end)
  <2>1. entry_cursor' = entry_cursor + tag.entry_size
    BY <1>3, <1>4, <1>5, <1>6, <1>8
  <2>2. /\ EntriesLeft = UINT32_MAX + 1 - entry_cursor
        /\ EntriesLeft' = UINT32_MAX + 1 - entry_cursor'
    BY <1>2, <1>8 DEF EntriesLeft
  <2> QED BY <1>3, <1>5, <1>6, <2>1, <2>2
<1> QED BY <1>7, <1>8

LEMMA EntriesLeftRange ==
    ASSUME UINT32_MAX \in Nat, entry_cursor \in 0 .. UINT32_MAX
    PROVE  EntriesLeft \in 1 .. UINT32_MAX + 1
BY DEF EntriesLeft

LEMMA StepIsCloser ==
    ASSUME IInv, Step, InLowerHalf, ~ AdvanceWraps
    PROVE  Closer
<1>1. /\ UINT32_MAX \in Nat /\ cursor \in 0 .. UINT32_MAX /\ entry_cursor \in 0 .. UINT32_MAX
      /\ i \in 1 .. Len(memory.regions) + 1 /\ Len(memory.regions) \in Nat
  BY BootInfoAssumption DEF IInv, ParserInv, ParserTypes, MemoryInv, MemoryTable, FramesInv
<1>2. cursor' \in 0 .. UINT32_MAX /\ entry_cursor' \in 0 .. UINT32_MAX
  <2>1. ParserInv'
    BY ParserStep
  <2> QED BY <2>1 DEF ParserInv, ParserTypes
<1>3. CASE CheckHeader
  <2>1. phase = "header" /\ phase' \in {"panic", "tags"}
    BY <1>3 DEF CheckHeader
  <2> QED BY <2>1 DEF Closer, PartsLeft
<1>4. CASE ReadTag
  <2>1. /\ phase = "tags" /\ cursor' = cursor
        /\ phase' \in {"panic", "finish", "entries", "advance"}
    <3>1. PICK t \in TagSet :
            phase' = IF BadTag(t) \/ (t.type = TAG_MMAP /\ BadMmap(t)) THEN "panic"
                     ELSE CASE t.type = TAG_END -> "finish"
                            [] t.type = TAG_MMAP -> "entries"
                            [] OTHER -> "advance"
      BY <1>4 DEF ReadTag
    <3> QED BY <1>4, <3>1 DEF ReadTag, TAG_END, TAG_MMAP
  <2>2. CASE phase' \in {"panic", "finish"}
    BY <2>1, <2>2 DEF Closer, PartsLeft
  <2>3. CASE phase' \in {"entries", "advance"}
    <3>1. PartsLeft' = PartsLeft
      BY <2>1, <2>3 DEF PartsLeft
    <3>2. EntriesLeft' \in 1 .. UINT32_MAX + 1
      <4>1. EntriesLeft' \in {entry_cursor' + 1, UINT32_MAX + 1 - entry_cursor'}
        BY DEF EntriesLeft
      <4>2. PICK n \in 0 .. UINT32_MAX : n = entry_cursor'
        BY <1>2
      <4>3. n + 1 \in 1 .. UINT32_MAX + 1 /\ UINT32_MAX + 1 - n \in 1 .. UINT32_MAX + 1
        BY <1>1
      <4> QED BY <4>1, <4>2, <4>3, Zenon
    <3>3. WorkInPart = UINT32_MAX + 2 /\ WorkInPart' \in 0 .. UINT32_MAX + 1
      BY <1>1, <2>1, <2>3, <3>2 DEF WorkInPart
    <3> QED BY <1>1, <2>1, <3>1, <3>3 DEF Closer
  <2> QED BY <2>1, <2>2, <2>3
<1>5. CASE ReadEntry
  <2>1. phase = "entries" /\ phase' = "entries" /\ cursor' = cursor
    BY <1>5 DEF ReadEntry
  <2>2. PartsLeft' = PartsLeft
    BY <2>1 DEF PartsLeft
  <2>3. WorkInPart = EntriesLeft
    BY <2>1 DEF WorkInPart
  <2>4. WorkInPart' = EntriesLeft'
    BY <2>1 DEF WorkInPart
  <2>5. WorkInPart' \in 0 .. WorkInPart - 1
    BY <1>5, <2>3, <2>4, EntryCloser
  <2>6. cursor' = cursor
    BY <2>1
  <2> QED BY <2>2, <2>5, <2>6, Zenon DEF Closer
<1>6. CASE EndEntries
  <2>1. phase = "entries" /\ phase' = "advance" /\ cursor' = cursor
    BY <1>6 DEF EndEntries, parse
  <2>2. PartsLeft' = PartsLeft /\ WorkInPart' \in 0 .. WorkInPart - 1
    <3>1. PartsLeft' = PartsLeft
      BY <2>1 DEF PartsLeft
    <3>2. WorkInPart = EntriesLeft /\ WorkInPart' = 0
      BY <2>1 DEF WorkInPart
    <3>3. EntriesLeft \in 1 .. UINT32_MAX + 1
      BY <1>1, EntriesLeftRange
    <3> QED BY <1>1, <3>1, <3>2, <3>3
  <2>3. cursor' = cursor
    BY <2>1
  <2> QED BY <2>2, <2>3, Zenon DEF Closer
<1>7. CASE AdvanceTag
  <2>1. /\ phase = "advance" /\ phase' = IF BadAdvance THEN "panic" ELSE "tags"
        /\ cursor' = IF BadAdvance THEN cursor ELSE Wrap32(cursor + align_up_8(tag.size))
    BY <1>7 DEF AdvanceTag
  <2>2. CASE BadAdvance
    BY <2>1, <2>2 DEF Closer, PartsLeft
  <2>3. CASE ~ BadAdvance
    <3>1. tag.size \in 0 .. UINT32_MAX
      BY StructureFacts DEF IInv, ParserInv
    <3>2. PICK a \in 0 .. UINT32_MAX : a = align_up_8(tag.size)
      BY <3>1, AlignedSize
    <3>3. a # 0 /\ cursor + a <= UINT32_MAX
      BY <2>1, <2>3, <3>2 DEF BadAdvance, AdvanceWraps, Fits32
    <3>4. cursor' = cursor + a
      BY <1>1, <2>1, <2>3, <3>2, <3>3, WrapSum
    <3>5. cursor' \in cursor + 1 .. UINT32_MAX
      BY <1>1, <3>2, <3>3, <3>4
    <3>6. PartsLeft' = PartsLeft
      BY <2>1, <2>3 DEF PartsLeft
    <3> QED BY <3>5, <3>6 DEF Closer
  <2> QED BY <2>2, <2>3
<1>8. CASE EndTags
  <2>1. phase = "tags" /\ phase' = "finish"
    BY <1>8 DEF EndTags
  <2> QED BY <2>1 DEF Closer, PartsLeft
<1>9. CASE FinishParse
  <2>1. phase = "finish" /\ phase' \in {"regions", "panic"}
    BY <1>9 DEF FinishParse
  <2> QED BY <2>1 DEF Closer, PartsLeft
<1>10. CASE PrepareStep
  <2>1. CASE phase' \in {"done", "panic"}
    BY <1>10, <2>1 DEF PrepareStep, Closer, PartsLeft
  <2>2. CASE phase' = "regions"
    <3>1. /\ phase = "regions" /\ i <= Len(memory.regions) /\ i' = i + 1
          /\ UNCHANGED <<memory, cursor>>
      BY <1>1, <1>10, <2>2 DEF PrepareStep, parse
    <3>2. PartsLeft' = PartsLeft /\ WorkInPart' \in 0 .. WorkInPart - 1
      BY <1>1, <2>2, <3>1 DEF PartsLeft, WorkInPart
    <3> QED BY <3>1, <3>2 DEF Closer
  <2> QED BY <1>10, <2>1, <2>2 DEF PrepareStep
<1> QED BY <1>3, <1>4, <1>5, <1>6, <1>7, <1>8, <1>9, <1>10 DEF Step

(* For every structure in the lower half of the address space, with any    *)
(* size fields: the walk over the entries of a tag, the preparation of the *)
(* regions and the walk over tags whose sizes fit are bounded, so that     *)
(* stage5a_parse_mmap runs on for ever only if tags with a wrapping size   *)
(* take its cursor back again and again.                                   *)
THEOREM ParserLoopsEnd == Spec => ParseMakesProgress
<1>1. IInv /\ [Step]_vars =>
        [phase \notin {"done", "panic"} /\ InLowerHalf /\ ~ AdvanceWraps
            => Closer]_vars
  BY StepIsCloser
<1> QED BY <1>1, BootInfoInvariant, PTL DEF Spec, ParseMakesProgress, Closer

-----------------------------------------------------------------------------
(***************************************************************************)
(* From the table to the allocator.  PmmInv and its companions speak of    *)
(* one table; they hold from the moment Stage 5C has written it, because   *)
(* the allocator was not used before.                                      *)
(***************************************************************************)
BringUpInv ==
    /\ IInv
    /\ phase # "done" => PmmReset
    /\ phase = "done" => ExactIfAscending /\ Served

(* Both modules mean the same frames.                                      *)
LEMMA SameFrames ==
    /\ MapFrames(frames) = RecordedIn(frames) \/ frames.ranges \notin Seq(RangeRec)
    /\ Recorded = RecordedIn(frames)
<1>1. ASSUME frames.ranges \in Seq(RangeRec)
      PROVE  DOMAIN frames.ranges = 1 .. Len(frames.ranges)
  BY <1>1
<1> QED BY <1>1 DEF MapFrames, RecordedIn, Recorded, FramesOf

(* What Stage 5C leaves is a table the allocator can work with, and one in *)
(* address order when the loader's map is.                                 *)
LEMMA TableIsValid ==
    ASSUME IInv
    PROVE  /\ ValidTable(frames)
           /\ MapFrames(frames) = RecordedIn(frames)
           /\ MapAscending => Ascending(frames)
<1>1. TableOK(frames) /\ (MapAscending => TableAscends(frames))
  BY DEF IInv, FramesInv, TableExact
<1>2. /\ frames.ranges \in Seq(RangeRec) /\ frames.eligible_frames \in Word
      /\ DOMAIN frames.ranges = 1 .. Len(frames.ranges)
  BY <1>1 DEF TableOK, TableRec
<1>3. MapFrames(frames) = RecordedIn(frames)
  BY <1>2, SameFrames
<1>4. ASSUME NEW k \in 1 .. Len(frames.ranges)
      PROVE  /\ frames.ranges[k] \in FrameRange
             /\ frames.ranges[k].start_frame + frames.ranges[k].frame_count <= MAX_FRAME
             /\ frames.ranges[k].frame_count \in 1 .. frames.eligible_frames
             /\ FrameStart(frames.ranges[k].start_frame) >= POLICY_MIN_ADDR
  <2>1. frames.ranges[k] \in RangeRec
    BY <1>2, <1>4, ElementOfSeq
  <2>2. PICK s \in Nat, c \in Nat \ {0} :
              s = frames.ranges[k].start_frame /\ c = frames.ranges[k].frame_count
    BY <2>1 DEF RangeRec
  <2>3. s + c <= UINT64_MAX \div FRAME_SIZE /\ c <= frames.eligible_frames
    BY <1>1, <1>4, <2>2 DEF TableOK
  <2>4. frames.ranges[k] \in FrameRange
    BY <2>1 DEF RangeRec, FrameRange
  <2>5. s \in RecordedIn(frames)
    <3>1. s \in FramesOf(frames.ranges[k])
      BY <2>2 DEF FramesOf
    <3> QED BY <1>2, <1>4, <3>1 DEF RecordedIn
  <2>6. FrameStart(s) >= POLICY_MIN_ADDR
    BY <2>5 DEF IInv, FramesInv, EntryFrames
  <2>7. c \in 1 .. frames.eligible_frames
    BY <1>2, <2>3 DEF Word
  <2> QED BY <2>2, <2>3, <2>4, <2>6, <2>7 DEF MAX_FRAME
<1>5. frames.ranges \in Seq(FrameRange)
  BY <1>2, <1>4, SeqDef
<1>6. Cardinality(MapFrames(frames)) <= frames.eligible_frames
  BY <1>1, <1>3 DEF TableOK
<1>7. ValidTable(frames)
  BY <1>2, <1>4, <1>5, <1>6 DEF ValidTable
<1>8. MapAscending => Ascending(frames)
  BY <1>1, <1>2, <1>4 DEF TableAscends, Ascending, FrameStart
<1> QED BY <1>3, <1>7, <1>8

LEMMA BringUpInitInv == BringUpInit => BringUpInv
<1> SUFFICES ASSUME BringUpInit PROVE BringUpInv
  OBVIOUS
<1>1. IInv /\ phase = "header" /\ PmmReset
  BY InitInv DEF BringUpInit, Init
<1> QED BY <1>1 DEF BringUpInv

(* The allocator writes nothing that Stages 5A to 5C use.                  *)
LEMMA AllocateKeepsParser == Allocate => UNCHANGED vars
<1> SUFFICES ASSUME Allocate PROVE UNCHANGED vars
  OBVIOUS
<1>1. PmmNext /\ UNCHANGED parser_vars
  BY DEF Allocate
<1>2. frames' = frames
  BY <1>1 DEF PmmNext, BootSeed, stage6b_pmm_alloc_frame, AllocFresh,
       AllocNoRange, AllocExhausted, stage6d_pmm_try_allocate_reused_frame,
       stage6c_pmm_free_frame, FreeRejected
<1> QED BY <1>1, <1>2 DEF vars, parser_vars

LEMMA BringUpNextInv == BringUpInv /\ [BringUpNext]_bringup_vars => BringUpInv'
<1> SUFFICES ASSUME BringUpInv, [BringUpNext]_bringup_vars PROVE BringUpInv'
  OBVIOUS
<1>0. IInv /\ (phase # "done" => PmmReset) /\ (phase = "done" => ExactIfAscending /\ Served)
  BY DEF BringUpInv
<1>1. CASE Prepare
  <2>1. Step /\ pmm' = pmm /\ pending' = pending /\ held' = held /\ last_alloc' = last_alloc
    BY <1>1 DEF Prepare, allocator_vars
  <2>2. IInv'
    BY <1>0, <2>1, ParserStep, MemoryStep, FramesStep DEF IInv
  <2>3. phase # "done"
    BY <2>1 DEF Step, CheckHeader, ReadTag, ReadEntry, EndEntries, AdvanceTag, EndTags,
                FinishParse, PrepareStep
  <2>4. PmmReset /\ PmmReset'
    BY <1>0, <2>1, <2>3 DEF PmmReset
  <2>5. ASSUME phase' = "done" PROVE (ExactIfAscending /\ Served)'
    <3>1. ExactIfAscending /\ Served
      BY <1>0, <2>4, TableIsValid, PmmResetInv, ResetExact, ServedReset DEF ExactIfAscending
    <3>2. frames' = frames
      <4>1. PrepareStep
        <5>1. ~ ReadTag
          <6>1. ASSUME NEW t \in TagSet,
                       phase' = IF BadTag(t) \/ (t.type = TAG_MMAP /\ BadMmap(t)) THEN "panic"
                                ELSE CASE t.type = TAG_END -> "finish"
                                       [] t.type = TAG_MMAP -> "entries"
                                       [] OTHER -> "advance"
                PROVE  FALSE
            BY <2>5, <6>1 DEF TAG_END, TAG_MMAP
          <6> QED BY <6>1 DEF ReadTag
        <5> QED BY <2>1, <2>5, <5>1 DEF Step, CheckHeader, ReadEntry, EndEntries,
                    AdvanceTag, EndTags, FinishParse
      <4> QED BY <2>5, <4>1 DEF PrepareStep
    <3>3. UNCHANGED pmm_vars
      BY <2>1, <3>2 DEF pmm_vars
    <3>4. PmmInv
      BY <3>1 DEF ExactIfAscending
    <3> QED BY <3>1, <3>3, <3>4, NextExactIfAscending, ServedNext
  <2> QED BY <2>2, <2>4, <2>5 DEF BringUpInv
<1>2. CASE Allocate
  <2>1. phase = "done" /\ PmmNext /\ phase' = phase
    BY <1>2 DEF Allocate, parser_vars
  <2>3. UNCHANGED vars
    BY <1>2, AllocateKeepsParser
  <2>4. IInv'
    BY <1>0, <2>3, ParserStep, MemoryStep, FramesStep DEF IInv
  <2>5. (ExactIfAscending /\ Served)'
    BY <1>0, <2>1, NextExactIfAscending, ServedNext DEF ExactIfAscending
  <2> QED BY <2>1, <2>4, <2>5 DEF BringUpInv
<1>3. CASE UNCHANGED bringup_vars
  <2>1. UNCHANGED vars /\ UNCHANGED pmm_vars /\ phase' = phase
    BY <1>3 DEF bringup_vars, parser_vars, allocator_vars, vars, pmm_vars
  <2>2. IInv'
    BY <1>0, <2>1, ParserStep, MemoryStep, FramesStep DEF IInv
  <2>3. PmmReset' <=> PmmReset
    BY <2>1 DEF pmm_vars, PmmReset
  <2>4. phase = "done" => (ExactIfAscending /\ Served)'
    BY <1>0, <2>1, NextExactIfAscending, ServedNext DEF ExactIfAscending
  <2> QED BY <1>0, <2>1, <2>2, <2>3, <2>4 DEF BringUpInv
<1> QED BY <1>1, <1>2, <1>3 DEF BringUpNext, BringUpStops

(* The parser's invariant holds throughout, and the allocator's from the   *)
(* moment stage5c_prepare_frame_bookkeeping has written the table.         *)
THEOREM BringUpInvariant == BringUpSpec => []BringUpInv
BY BringUpInitInv, BringUpNextInv, PTL DEF BringUpSpec

(* Stages 5A to 5C are undisturbed by what comes after them, so what is    *)
(* proved of the parser and of its ranges holds for the rest of the boot.  *)
THEOREM BringUpKeepsRanges ==
    BringUpSpec => Spec /\ []ParseInBounds /\ []RangesExact /\ ParseMakesProgress
<1>1. BringUpInit => Init
  BY DEF BringUpInit
<1>2. [BringUpNext]_bringup_vars => [Step]_vars
  <2> SUFFICES ASSUME [BringUpNext]_bringup_vars PROVE [Step]_vars
    OBVIOUS
  <2>1. CASE Prepare
    BY <2>1 DEF Prepare
  <2>2. CASE Allocate
    BY <2>2, AllocateKeepsParser
  <2>3. CASE UNCHANGED bringup_vars
    BY <2>3 DEF bringup_vars, parser_vars, vars
  <2> QED BY <2>1, <2>2, <2>3 DEF BringUpNext, BringUpStops
<1>3. BringUpSpec => Spec
  BY <1>1, <1>2, PTL DEF BringUpSpec, Spec
<1> QED BY <1>3, ParserStaysInBounds, RangesAreExact, ParserLoopsEnd, PTL

(* Before Stage 5C is done nothing is held; afterwards what is held or     *)
(* waits belongs to the table.                                             *)
LEMMA HeldIsRecorded ==
    ASSUME BringUpInv
    PROVE  held \cup PendingFrames \subseteq RecordedIn(frames)
<1>1. CASE phase # "done"
  BY <1>1 DEF BringUpInv, PmmReset, PendingFrames
<1>2. CASE phase = "done"
  BY <1>2, TableIsValid DEF BringUpInv, Served
<1> QED BY <1>1, <1>2

(* Every frame that stage6b_pmm_alloc_frame ever returned is memory that   *)
(* the loader reported as available, above the policy minimum and free of  *)
(* the kernel image: for every memory map, sorted or not.                  *)
THEOREM IssuedFramesAreUsable == BringUpSpec => []IssuedFramesUsable
<1>1. BringUpInv => IssuedFramesUsable
  BY HeldIsRecorded, RecordedAreUsable, SameFrames
  DEF BringUpInv, IssuedFramesUsable, EligibleFramesUsable
<1> QED BY <1>1, BringUpInvariant, PTL

(* With a map in address order that fits the tables, the table's frames    *)
(* are the usable ones.                                                    *)
LEMMA UsableIsEligible ==
    ASSUME BringUpInv, phase = "done", NothingDropped
    PROVE  {x \in 0 .. MAX_FRAME : UsableFrame(x)} = Eligible /\ Eligible = RecordedIn(frames)
<1>1. ValidTable(frames) /\ MapFrames(frames) = RecordedIn(frames)
  BY TableIsValid DEF BringUpInv
<1>2. Eligible = RecordedIn(frames)
  BY <1>1, EligibleIsMap
<1>3. Recorded = RecordedIn(frames)
  BY SameFrames
<1>4. EligibleFramesUsable /\ AllUsableFramesEligible
  BY RecordedAreUsable, UsableAreRecorded DEF BringUpInv
<1>5. ASSUME NEW x \in 0 .. MAX_FRAME, UsableFrame(x) PROVE x \in Eligible
  BY <1>2, <1>3, <1>4, <1>5 DEF AllUsableFramesEligible, NothingDropped, MAX_FRAME
<1>6. ASSUME NEW x \in Eligible PROVE x \in 0 .. MAX_FRAME /\ UsableFrame(x)
  BY <1>2, <1>3, <1>4 DEF EligibleFramesUsable, Eligible
<1> QED BY <1>2, <1>5, <1>6

(* stage6b_pmm_alloc_frame fails only when callers hold every usable frame *)
(* of the loader's map: rounding, cutting, the cursor and the FIFO lose    *)
(* none on the way.                                                        *)
THEOREM OutOfFramesIsReal == BringUpSpec => FailsOnlyWhenAllHeld
<1>1. ASSUME BringUpInv, phase = "done", stage6b_pmm_alloc_frame, last_alloc' = NoFrame,
             MapAscending, NothingDropped, NEW x \in 0 .. MAX_FRAME, UsableFrame(x)
      PROVE  x \in held
  <2>1. ExactIfAscending /\ Served /\ PmmInv /\ Ascending(frames)
    BY <1>1, TableIsValid DEF BringUpInv, ExactIfAscending
  <2>2. Ordered
    BY <1>1, <2>1, AllocOrdered
  <2>3. pending = <<>>
    <3>1. \/ pending = <<>>
          \/ last_alloc' \in 0 .. MAX_FRAME
      BY <1>1, <2>1, AllocEffect
    <3> QED BY <1>1, <3>1, MaxFrame DEF NoFrame
  <2>4. Unissued = {}
    <3>1. ASSUME Unissued # {} PROVE last_alloc' \in 0 .. MAX_FRAME
      BY <2>2, <2>3, <3>1 DEF Ordered, Unissued
    <3> QED BY <1>1, <3>1, MaxFrame DEF NoFrame
  <2>5. x \in Eligible
    BY <1>1, UsableIsEligible
  <2>6. PendingFrames = {}
    BY <2>3 DEF PendingFrames
  <2> QED BY <2>4, <2>5, <2>6 DEF Unissued, Eligible
<1>2. BringUpInv /\ [BringUpNext]_bringup_vars =>
        [phase = "done" /\ stage6b_pmm_alloc_frame /\ last_alloc' = NoFrame
         /\ MapAscending /\ NothingDropped =>
            \A x \in 0 .. MAX_FRAME : UsableFrame(x) => x \in held]_bringup_vars
  BY <1>1
<1> QED BY <1>2, BringUpInvariant, PTL DEF BringUpSpec, FailsOnlyWhenAllHeld

(* The count that stage6b_pmm_get_remaining_frames reports is the number   *)
(* of usable frames of the loader's map that no caller holds.              *)
THEOREM RemainingCountsUsable == BringUpSpec => []RemainingIsUsable
<1>1. ASSUME BringUpInv, phase = "done", pmm.is_initialized = 1, MapAscending, NothingDropped
      PROVE  pmm.remaining_frame_count
                = Cardinality({x \in 0 .. MAX_FRAME : UsableFrame(x) /\ x \notin held})
  <2>1. ExactIfAscending /\ Ascending(frames) /\ TableExact(frames) /\ TableOK(frames)
    BY <1>1, TableIsValid DEF BringUpInv, IInv, FramesInv
  <2>2. ExactInv /\ PmmInv
    BY <2>1 DEF ExactIfAscending
  <2>3. /\ frames.eligible_frames = Cardinality(Eligible)
        /\ IsFiniteSet(Eligible) /\ held \subseteq Eligible
    BY <1>1, <2>1, UsableIsEligible, HeldIsRecorded DEF TableExact, TableOK, NothingDropped
  <2>4. {x \in 0 .. MAX_FRAME : UsableFrame(x) /\ x \notin held} = Eligible \ held
    BY <1>1, UsableIsEligible
  <2>5. Cardinality(Eligible \ held) = Cardinality(Eligible) - Cardinality(held)
    <3>1. Eligible \cap held = held
      BY <2>3
    <3>2. Cardinality(Eligible \ held) = Cardinality(Eligible) - Cardinality(Eligible \cap held)
      BY <2>3, FS_Difference
    <3>3. Cardinality(Eligible \cap held) = Cardinality(held)
      BY <3>1, Zenon
    <3> QED BY <3>2, <3>3, Zenon
  <2>6. pmm.remaining_frame_count + Cardinality(held) = frames.eligible_frames
    BY <1>1, <2>2 DEF ExactInv, Account
  <2>7. pmm.remaining_frame_count \in Nat /\ Cardinality(held) \in Nat
    BY <2>2, HeldFinite DEF PmmInv, PmmTypeOK, PmmState, Word
  <2>8. pmm.remaining_frame_count = Cardinality(Eligible \ held)
    BY <2>3, <2>5, <2>6, <2>7
  <2> QED BY <2>4, <2>8, Zenon
<1>2. BringUpInv => RemainingIsUsable
  BY <1>1 DEF RemainingIsUsable
<1> QED BY <1>2, BringUpInvariant, PTL
=============================================================================
