--------------------------- MODULE KMemoryProofs ---------------------------
(***************************************************************************)
(* The byte primitives are correct for every memory size, byte width,      *)
(* address, length and overlap.  The inductive invariant says how far a    *)
(* loop has come: the bytes it has written hold what the source held at    *)
(* the call, and every byte it has not written yet, those of the source    *)
(* that are still to be read included, is as it was.                       *)
(***************************************************************************)
EXTENDS KMemory, TLAPS

WellFormedCall ==
    /\ call.dest + call.count <= MEMORY_SIZE
    /\ call.src + call.count <= MEMORY_SIZE

(* Writing upwards never overtakes the reads.                              *)
UpIsSafe == call.dest <= call.src \/ call.dest >= call.src + call.count

UpProgress ==
    /\ \A a \in Address :
            a < call.dest \/ a >= call.dest + i => bytes[a] = before[a]
    /\ UpIsSafe =>
            \A k \in 0 .. i - 1 : bytes[call.dest + k] = before[call.src + k]

DownProgress ==
    /\ call.src < call.dest
    /\ \A a \in Address :
            a < call.dest + i \/ a >= call.dest + call.count
                => bytes[a] = before[a]
    /\ \A k \in i .. call.count - 1 :
            bytes[call.dest + k] = before[call.src + k]

SetProgress ==
    \A a \in Address : a < call.dest \/ a >= call.dest + i => bytes[a] = before[a]

CompareProgress == \A k \in 0 .. i - 1 : Difference(k) = 0

LoopInv ==
    /\ pc = "up" => call.op \in {"kmemcpy", "kmemmove"} /\ UpProgress
                        /\ (call.op = "kmemmove" => UpIsSafe)
    /\ pc = "down" => call.op = "kmemmove" /\ DownProgress
    /\ pc = "set" => call.op = "kmemset" /\ SetProgress
    /\ pc = "cmp" => call.op = "kmemcmp" /\ CompareProgress /\ bytes = before

IInv ==
    /\ TypeOK /\ WellFormedCall /\ LoopInv
    /\ OnlyDestinationWritten
    /\ MoveCopiesOverlapping /\ CopyCopies /\ CompareFirstDifference

USE KMemoryAssumption

LEMMA InBuffer ==
    ASSUME NEW d \in Nat, NEW n \in Nat, NEW j \in Nat, NEW m \in Nat,
           d + n <= m, j < n
    PROVE  d + j \in 0 .. m - 1
OBVIOUS

LEMMA InitIInv == Init => IInv
BY DEF Init, IInv, TypeOK, WellFormedCall, LoopInv, OnlyDestinationWritten,
       MoveCopiesOverlapping, CopyCopies, CompareFirstDifference, Call,
       Address, Byte

(* What entering a call establishes, whatever loop it enters.              *)
LEMMA EnterFacts ==
    ASSUME IInv,
           NEW op \in {"kmemset", "kmemcpy", "kmemmove", "kmemcmp"},
           NEW d \in Address, NEW s \in Address, NEW n \in 0 .. MEMORY_SIZE,
           NEW b \in Byte, NEW loop \in {"idle", "set", "up", "down", "cmp"},
           NEW start \in {0, n},
           Enter(Call(op, d, s, n, b), loop, start)
    PROVE  /\ TypeOK' /\ WellFormedCall' /\ OnlyDestinationWritten'
           /\ call' = Call(op, d, s, n, b) /\ bytes' = bytes /\ before' = bytes
           /\ pc' = loop /\ i' = start
<1> DEFINE c == Call(op, d, s, n, b)
<1>1. /\ call' = c /\ bytes' = bytes /\ before' = bytes /\ result' = result
      /\ pc' = loop /\ i' = start
      /\ Fits(c.dest, c.count) /\ Fits(c.src, c.count)
  BY DEF Enter
<1>2. /\ d \in Nat /\ s \in Nat /\ n \in Nat
      /\ c.dest = d /\ c.src = s /\ c.count = n
  BY DEF Address, Call
<1>3. bytes \in [Address -> Byte] /\ result \in Int
  BY DEF IInv, TypeOK
<1>4. call' \in [op : {"none", "kmemset", "kmemcpy", "kmemmove", "kmemcmp"},
                 dest : Nat, src : Nat, count : Nat, byte : Byte]
  BY <1>1, <1>2 DEF Call
<1>5. TypeOK'
  BY <1>1, <1>2, <1>3, <1>4 DEF TypeOK
<1>6. WellFormedCall'
  BY <1>1 DEF WellFormedCall, Fits
<1>7. OnlyDestinationWritten'
  BY <1>1 DEF OnlyDestinationWritten
<1>8. QED
  BY <1>1, <1>5, <1>6, <1>7

LEMMA EnterSet ==
    ASSUME IInv, NEW d \in Address, NEW v \in Values, NEW n \in 0 .. MEMORY_SIZE,
           kmemset(d, v, n)
    PROVE  IInv'
<1>1. v % BYTE_COUNT \in Byte
  BY DEF Byte
<1> DEFINE c == Call("kmemset", d, d, n, v % BYTE_COUNT)
<1>2. Enter(c, "set", 0)
  BY DEF kmemset
<1>3. /\ TypeOK' /\ WellFormedCall' /\ OnlyDestinationWritten'
      /\ call' = c /\ bytes' = bytes /\ before' = bytes
      /\ pc' = "set" /\ i' = 0
  BY <1>1, <1>2, EnterFacts
<1>4. LoopInv'
  BY <1>3 DEF LoopInv, SetProgress, Call
<1>5. QED
  BY <1>3, <1>4 DEF IInv, MoveCopiesOverlapping, CopyCopies, CompareFirstDifference

LEMMA EnterCopy ==
    ASSUME IInv, NEW d \in Address, NEW s \in Address, NEW n \in 0 .. MEMORY_SIZE,
           kmemcpy(d, s, n)
    PROVE  IInv'
<1>1. 0 \in Byte
  BY DEF Byte
<1> DEFINE c == Call("kmemcpy", d, s, n, 0)
<1>3. /\ TypeOK' /\ WellFormedCall' /\ OnlyDestinationWritten'
      /\ call' = c /\ bytes' = bytes /\ before' = bytes
      /\ pc' = "up" /\ i' = 0
  BY <1>1, EnterFacts DEF kmemcpy
<1>4. LoopInv'
  BY <1>3 DEF LoopInv, UpProgress, Call
<1>5. QED
  BY <1>3, <1>4 DEF IInv, MoveCopiesOverlapping, CopyCopies, CompareFirstDifference

LEMMA EnterMove ==
    ASSUME IInv, NEW d \in Address, NEW s \in Address, NEW n \in 0 .. MEMORY_SIZE,
           kmemmove(d, s, n)
    PROVE  IInv'
<1>1. 0 \in Byte
  BY DEF Byte
<1> DEFINE c == Call("kmemmove", d, s, n, 0)
           Rest == /\ TypeOK' /\ WellFormedCall' /\ OnlyDestinationWritten'
                   /\ call' = c /\ bytes' = bytes /\ before' = bytes
<1>2. CASE d = s \/ n = 0
  <2>1. Rest /\ pc' = "idle"
    BY <1>1, <1>2, EnterFacts DEF kmemmove
  <2>2. LoopInv'
    BY <2>1 DEF LoopInv
  <2>3. Copied'
    BY <1>2, <2>1 DEF Copied, Call, Address
  <2>4. QED
    BY <2>1, <2>2, <2>3 DEF IInv, MoveCopiesOverlapping, CopyCopies,
                            CompareFirstDifference, Call
<1>3. CASE ~ (d = s \/ n = 0) /\ MovesUp(d, s, n)
  <2>1. Rest /\ pc' = "up" /\ i' = 0
    BY <1>1, <1>3, EnterFacts DEF kmemmove
  <2>2. LoopInv'
    BY <1>3, <2>1 DEF LoopInv, UpProgress, UpIsSafe, MovesUp, Call, Address
  <2>3. QED
    BY <2>1, <2>2 DEF IInv, MoveCopiesOverlapping, CopyCopies, CompareFirstDifference
<1>4. CASE ~ (d = s \/ n = 0) /\ ~ MovesUp(d, s, n)
  <2>1. Rest /\ pc' = "down" /\ i' = n
    BY <1>1, <1>4, EnterFacts DEF kmemmove
  <2>2. LoopInv'
    BY <1>4, <2>1 DEF LoopInv, DownProgress, MovesUp, Call, Address
  <2>3. QED
    BY <2>1, <2>2 DEF IInv, MoveCopiesOverlapping, CopyCopies, CompareFirstDifference
<1>5. QED
  BY <1>2, <1>3, <1>4

LEMMA EnterCompare ==
    ASSUME IInv, NEW d \in Address, NEW s \in Address, NEW n \in 0 .. MEMORY_SIZE,
           kmemcmp(d, s, n)
    PROVE  IInv'
<1>1. 0 \in Byte
  BY DEF Byte
<1> DEFINE c == Call("kmemcmp", d, s, n, 0)
<1>3. /\ TypeOK' /\ WellFormedCall' /\ OnlyDestinationWritten'
      /\ call' = c /\ bytes' = bytes /\ before' = bytes
      /\ pc' = "cmp" /\ i' = 0
  BY <1>1, EnterFacts DEF kmemcmp
<1>4. LoopInv'
  BY <1>3 DEF LoopInv, CompareProgress, Call
<1>5. QED
  BY <1>3, <1>4 DEF IInv, MoveCopiesOverlapping, CopyCopies, CompareFirstDifference

-----------------------------------------------------------------------------
LEMMA SetKeeps == ASSUME IInv, SetStep PROVE IInv'
<1> USE DEF Address
<1>1. CASE i < call.count
  <2>1. /\ bytes' = [bytes EXCEPT ![call.dest + i] = call.byte] /\ i' = i + 1
        /\ UNCHANGED <<pc, before, call, result>> /\ pc = "set"
    BY <1>1 DEF SetStep, Write
  <2>2. TypeOK' /\ WellFormedCall'
    BY <1>1, <2>1 DEF IInv, TypeOK, WellFormedCall
  <2>3. SetProgress'
    BY <1>1, <2>1 DEF IInv, TypeOK, WellFormedCall, LoopInv, SetProgress
  <2>4. OnlyDestinationWritten'
    BY <1>1, <2>1 DEF IInv, TypeOK, WellFormedCall, OnlyDestinationWritten
  <2>5. QED
    BY <2>1, <2>2, <2>3, <2>4 DEF IInv, LoopInv, MoveCopiesOverlapping, CopyCopies,
                                  CompareFirstDifference
<1>2. CASE ~ (i < call.count)
  <2>1. pc' = "idle" /\ pc = "set" /\ UNCHANGED <<bytes, i, before, call, result>>
    BY <1>2 DEF SetStep, Leave
  <2>2. TypeOK' /\ WellFormedCall' /\ OnlyDestinationWritten'
    BY <2>1 DEF IInv, TypeOK, WellFormedCall, OnlyDestinationWritten
  <2>3. QED
    BY <2>1, <2>2 DEF IInv, LoopInv, MoveCopiesOverlapping, CopyCopies,
                      CompareFirstDifference
<1>3. QED
  BY <1>1, <1>2

LEMMA UpKeeps == ASSUME IInv, CopyUpStep PROVE IInv'
<1> USE DEF Address
<1>1. CASE i < call.count
  <2>1. /\ bytes' = [bytes EXCEPT ![call.dest + i] = bytes[call.src + i]]
        /\ i' = i + 1
        /\ UNCHANGED <<pc, before, call, result>> /\ pc = "up"
    BY <1>1 DEF CopyUpStep, Write
  <2>2. TypeOK' /\ WellFormedCall'
    BY <1>1, <2>1 DEF IInv, TypeOK, WellFormedCall
  <2>3. ASSUME NEW a \in Address, a < call.dest \/ a >= call.dest + (i + 1)
        PROVE  bytes'[a] = before[a]
    BY <1>1, <2>1, <2>3 DEF IInv, TypeOK, WellFormedCall, LoopInv, UpProgress
  <2>4. ASSUME UpIsSafe, NEW k \in 0 .. i
        PROVE  bytes'[call.dest + k] = before[call.src + k]
    <3>1. CASE k < i
      BY <1>1, <2>1, <2>4, <3>1
         DEF IInv, TypeOK, WellFormedCall, LoopInv, UpProgress
    <3>2. CASE k = i
      <4>1. bytes[call.src + i] = before[call.src + i]
        BY <1>1, <2>1, <2>4
           DEF IInv, TypeOK, WellFormedCall, LoopInv, UpProgress, UpIsSafe
      <4>2. QED
        BY <1>1, <2>1, <3>2, <4>1 DEF IInv, TypeOK, WellFormedCall
    <3>3. QED
      BY <3>1, <3>2, <1>1 DEF IInv, TypeOK
  <2>5. UpIsSafe' <=> UpIsSafe
    BY <2>1 DEF UpIsSafe
  <2>6. i \in Nat
    BY DEF IInv, TypeOK
  <2>7. UpProgress'
    BY <2>1, <2>3, <2>4, <2>5, <2>6 DEF UpProgress
  <2>8. OnlyDestinationWritten'
    BY <1>1, <2>1 DEF IInv, TypeOK, WellFormedCall, OnlyDestinationWritten
  <2>9. QED
    BY <2>1, <2>2, <2>5, <2>7, <2>8 DEF IInv, LoopInv, MoveCopiesOverlapping,
                                        CopyCopies, CompareFirstDifference
<1>2. CASE ~ (i < call.count)
  <2>1. pc' = "idle" /\ pc = "up" /\ UNCHANGED <<bytes, i, before, call, result>>
    BY <1>2 DEF CopyUpStep, Leave
  <2>2. TypeOK' /\ WellFormedCall' /\ OnlyDestinationWritten'
    BY <2>1 DEF IInv, TypeOK, WellFormedCall, OnlyDestinationWritten
  <2>3. i = call.count
    BY <1>2 DEF IInv, TypeOK
  <2>4. UpIsSafe => Copied'
    BY <2>1, <2>3 DEF IInv, LoopInv, UpProgress, Copied
  <2>5. QED
    BY <2>1, <2>2, <2>4 DEF IInv, LoopInv, MoveCopiesOverlapping, CopyCopies,
                            CompareFirstDifference, UpIsSafe
<1>3. QED
  BY <1>1, <1>2

LEMMA DownKeeps == ASSUME IInv, CopyDownStep PROVE IInv'
<1> USE DEF Address
<1>1. CASE i # 0
  <2>1. /\ bytes' = [bytes EXCEPT ![call.dest + (i - 1)] = bytes[call.src + (i - 1)]]
        /\ i' = i - 1
        /\ UNCHANGED <<pc, before, call, result>> /\ pc = "down"
    BY <1>1 DEF CopyDownStep, Write
  <2>2. TypeOK' /\ WellFormedCall'
    BY <1>1, <2>1 DEF IInv, TypeOK, WellFormedCall
  <2>3. ASSUME NEW a \in Address,
               a < call.dest + (i - 1) \/ a >= call.dest + call.count
        PROVE  bytes'[a] = before[a]
    BY <1>1, <2>1, <2>3 DEF IInv, TypeOK, WellFormedCall, LoopInv, DownProgress
  <2>4. ASSUME NEW k \in i - 1 .. call.count - 1
        PROVE  bytes'[call.dest + k] = before[call.src + k]
    <3>1. CASE k >= i
      BY <1>1, <2>1, <3>1
         DEF IInv, TypeOK, WellFormedCall, LoopInv, DownProgress
    <3>2. CASE k = i - 1
      <4>1. bytes[call.src + (i - 1)] = before[call.src + (i - 1)]
        BY <1>1, <2>1 DEF IInv, TypeOK, WellFormedCall, LoopInv, DownProgress
      <4>2. QED
        BY <1>1, <2>1, <3>2, <4>1 DEF IInv, TypeOK, WellFormedCall
    <3>3. QED
      BY <3>1, <3>2 DEF IInv, TypeOK
  <2>5. DownProgress'
    BY <2>1, <2>3, <2>4 DEF IInv, LoopInv, DownProgress
  <2>6. OnlyDestinationWritten'
    BY <1>1, <2>1 DEF IInv, TypeOK, WellFormedCall, OnlyDestinationWritten
  <2>7. QED
    BY <2>1, <2>2, <2>5, <2>6 DEF IInv, LoopInv, MoveCopiesOverlapping,
                                  CopyCopies, CompareFirstDifference
<1>2. CASE i = 0
  <2>1. pc' = "idle" /\ pc = "down" /\ UNCHANGED <<bytes, i, before, call, result>>
    BY <1>2 DEF CopyDownStep, Leave
  <2>2. TypeOK' /\ WellFormedCall' /\ OnlyDestinationWritten'
    BY <2>1 DEF IInv, TypeOK, WellFormedCall, OnlyDestinationWritten
  <2>3. Copied' /\ call.op = "kmemmove"
    BY <1>2, <2>1 DEF IInv, LoopInv, DownProgress, Copied
  <2>4. QED
    BY <2>1, <2>2, <2>3 DEF IInv, LoopInv, MoveCopiesOverlapping, CopyCopies,
                            CompareFirstDifference
<1>3. QED
  BY <1>1, <1>2

LEMMA CompareKeeps == ASSUME IInv, CompareStep PROVE IInv'
<1> USE DEF Address, Byte
<1>0. /\ pc = "cmp" /\ UNCHANGED <<bytes, before, call>>
      /\ call.op = "kmemcmp" /\ CompareProgress /\ bytes = before
  BY DEF CompareStep, IInv, LoopInv
<1>1. CASE i < call.count /\ Difference(i) = 0
  <2>1. i' = i + 1 /\ UNCHANGED <<pc, result>>
    BY <1>1 DEF CompareStep
  <2>2. TypeOK' /\ WellFormedCall' /\ OnlyDestinationWritten'
    BY <1>0, <1>1, <2>1 DEF IInv, TypeOK, WellFormedCall, OnlyDestinationWritten
  <2>3. CompareProgress'
    <3>1. i \in Nat
      BY DEF IInv, TypeOK
    <3>2. \A k \in 0 .. i : Difference(k) = 0
      BY <1>0, <1>1, <3>1 DEF CompareProgress
    <3>3. \A k \in 0 .. i' - 1 : Difference(k) = 0
      BY <2>1, <3>1, <3>2
    <3>4. QED
      BY <1>0, <3>3 DEF CompareProgress, Difference
  <2>4. QED
    BY <1>0, <2>1, <2>2, <2>3 DEF IInv, LoopInv, MoveCopiesOverlapping, CopyCopies,
                                  CompareFirstDifference
<1>2. CASE ~ (i < call.count /\ Difference(i) = 0)
  <2>1. /\ pc' = "idle" /\ UNCHANGED i
        /\ result' = IF i < call.count THEN Difference(i) ELSE 0
    BY <1>2 DEF CompareStep
  <2>2. i < call.count => Difference(i) \in Int
    <3>1. /\ call.dest \in Nat /\ call.src \in Nat /\ call.count \in Nat
          /\ i \in Nat /\ bytes \in [Address -> Byte]
      BY DEF IInv, TypeOK
    <3>2. i < call.count => call.dest + i \in Address /\ call.src + i \in Address
      <4>1. /\ call.dest + call.count <= MEMORY_SIZE
            /\ call.src + call.count <= MEMORY_SIZE
        BY DEF IInv, WellFormedCall
      <4>2. MEMORY_SIZE \in Nat
        BY KMemoryAssumption
      <4>3. call.dest \in Nat /\ call.src \in Nat /\ call.count \in Nat /\ i \in Nat
        BY <3>1
      <4>4. QED
        BY <4>1, <4>2, <4>3, InBuffer DEF Address
    <3>3. \A a \in Address : bytes[a] \in Int
      BY <3>1
    <3>4. i < call.count => bytes[call.dest + i] \in Int /\ bytes[call.src + i] \in Int
      BY <3>2, <3>3
    <3>5. QED
      BY <3>4 DEF Difference
  <2>3. TypeOK' /\ WellFormedCall' /\ OnlyDestinationWritten'
    BY <1>0, <2>1, <2>2 DEF IInv, TypeOK, WellFormedCall, OnlyDestinationWritten
  <2>4. i \in Nat /\ call.count \in Nat /\ i <= call.count
    BY DEF IInv, TypeOK
  <2>5. CompareFirstDifference'
    <3>1. CASE i < call.count
      <4>1. i \in 0 .. call.count - 1 /\ result' = Difference(i) /\ result' # 0
        BY <1>2, <2>1, <2>4, <3>1
      <4>2. QED
        BY <1>0, <4>1 DEF CompareFirstDifference, CompareProgress, Difference
    <3>2. CASE i = call.count
      BY <1>0, <2>1, <2>4, <3>2
         DEF CompareFirstDifference, CompareProgress, Difference
    <3>3. QED
      BY <2>4, <3>1, <3>2
  <2>6. QED
    BY <1>0, <2>1, <2>3, <2>5 DEF IInv, LoopInv, MoveCopiesOverlapping, CopyCopies
<1>3. QED
  BY <1>1, <1>2

LEMMA StutterKeeps == ASSUME IInv, UNCHANGED vars PROVE IInv'
BY DEF IInv, vars, TypeOK, WellFormedCall, LoopInv, UpProgress, UpIsSafe,
       DownProgress, SetProgress, CompareProgress, Difference, Copied,
       OnlyDestinationWritten, MoveCopiesOverlapping, CopyCopies,
       CompareFirstDifference

LEMMA Inductive == Spec => []IInv
<1>1. Init => IInv
  BY InitIInv
<1>2. IInv /\ [Next]_vars => IInv'
  BY EnterSet, EnterCopy, EnterMove, EnterCompare, SetKeeps, UpKeeps, DownKeeps,
     CompareKeeps, StutterKeeps DEF Next
<1>3. QED
  BY <1>1, <1>2, PTL DEF Spec

(* Every variable of kmemory.c's loops keeps its type and no index leaves  *)
(* the buffers.                                                            *)
THEOREM TypeCorrect == Spec => []TypeOK
BY Inductive, PTL DEF IInv

(* kmemmove is correct for every overlap of source and destination.        *)
THEOREM MoveCorrect == Spec => []MoveCopiesOverlapping
BY Inductive, PTL DEF IInv

(* kmemcpy is correct for buffers that do not overlap upwards.             *)
THEOREM CopyCorrect == Spec => []CopyCopies
BY Inductive, PTL DEF IInv

(* The two copying primitives of kmemory.c, each where it may be used.     *)
THEOREM CopiesCorrect == Spec => []CopiesSource
BY MoveCorrect, CopyCorrect, PTL DEF CopiesSource

(* No primitive ever writes outside its destination.                       *)
THEOREM WritesConfined == Spec => []OnlyDestinationWritten
BY Inductive, PTL DEF IInv

(* kmemcmp returns the difference at the first differing byte.             *)
THEOREM CompareCorrect == Spec => []CompareFirstDifference
BY Inductive, PTL DEF IInv
=============================================================================
