------------------------------ MODULE KMemory ------------------------------
(***************************************************************************)
(* The byte primitives of kernel/mm/kmemory.c on a memory of MEMORY_SIZE   *)
(* bytes: one action per loop iteration, so that a copy whose source and   *)
(* destination overlap reads bytes it has already written.                 *)
(***************************************************************************)
EXTENDS Integers

CONSTANTS
    MEMORY_SIZE,
    BYTE_COUNT,    \* 256 in the code
    Values         \* the int values that callers pass to kmemset

ASSUME KMemoryAssumption ==
    /\ MEMORY_SIZE \in Nat /\ BYTE_COUNT \in Nat \ {0}
    /\ Values \subseteq Int

Address == 0 .. MEMORY_SIZE - 1
Byte == 0 .. BYTE_COUNT - 1

VARIABLES
    bytes,     \* memory
    before,    \* history: memory when the last call was entered
    call,      \* the last call: op, dest, src, count and byte
    i,         \* its loop variable
    pc,        \* the loop it is in, or "idle"
    result     \* what the last kmemcmp returned

vars == <<bytes, before, call, i, pc, result>>

Call(op, dest, src, count, byte) ==
    [op |-> op, dest |-> dest, src |-> src, count |-> count, byte |-> byte]

Init ==
    /\ bytes \in [Address -> Byte] /\ before = bytes
    /\ call = Call("none", 0, 0, 0, 0)
    /\ i = 0 /\ pc = "idle" /\ result = 0

(* Callers pass buffers that lie in memory.                                *)
Fits(addr, count) == addr + count <= MEMORY_SIZE

Enter(c, loop, start) ==
    /\ pc = "idle"
    /\ Fits(c.dest, c.count) /\ Fits(c.src, c.count)
    /\ call' = c /\ before' = bytes
    /\ pc' = loop /\ i' = start
    /\ UNCHANGED <<bytes, result>>

(* The value is converted to a byte.                                       *)
kmemset(dest, value, count) ==
    Enter(Call("kmemset", dest, dest, count, value % BYTE_COUNT), "set", 0)

kmemcpy(dest, src, count) ==
    Enter(Call("kmemcpy", dest, src, count, 0), "up", 0)

(* Faulty variant: every move goes upwards.                                *)
MovesUpAlways(dest, src, count) == dest < src \/ dest >= src

MovesUp(dest, src, count) == dest < src \/ dest >= src + count

kmemmove(dest, src, count) ==
    LET c == Call("kmemmove", dest, src, count, 0)
    IN  IF dest = src \/ count = 0 THEN Enter(c, "idle", 0)
        ELSE IF MovesUp(dest, src, count) THEN Enter(c, "up", 0)
        ELSE Enter(c, "down", count)

kmemcmp(a, b, count) ==
    Enter(Call("kmemcmp", a, b, count, 0), "cmp", 0)

Write(k, byte) == bytes' = [bytes EXCEPT ![call.dest + k] = byte]

Leave == pc' = "idle" /\ UNCHANGED <<bytes, i>>

(* Faulty variant: one byte too many.                                      *)
SetStepInclusive ==
    /\ pc = "set"
    /\ IF i <= call.count
        THEN Write(i, call.byte) /\ i' = i + 1 /\ UNCHANGED pc
        ELSE Leave
    /\ UNCHANGED <<before, call, result>>

SetStep ==
    /\ pc = "set"
    /\ IF i < call.count
        THEN Write(i, call.byte) /\ i' = i + 1 /\ UNCHANGED pc
        ELSE Leave
    /\ UNCHANGED <<before, call, result>>

CopyUpStep ==
    /\ pc = "up"
    /\ IF i < call.count
        THEN Write(i, bytes[call.src + i]) /\ i' = i + 1 /\ UNCHANGED pc
        ELSE Leave
    /\ UNCHANGED <<before, call, result>>

CopyDownStep ==
    /\ pc = "down"
    /\ IF i # 0
        THEN Write(i - 1, bytes[call.src + (i - 1)]) /\ i' = i - 1 /\ UNCHANGED pc
        ELSE Leave
    /\ UNCHANGED <<before, call, result>>

Difference(k) == bytes[call.dest + k] - bytes[call.src + k]

(* Faulty variant: the last byte is not compared.                          *)
CompareStepShort ==
    /\ pc = "cmp"
    /\ IF i + 1 < call.count /\ Difference(i) = 0
        THEN i' = i + 1 /\ UNCHANGED <<pc, result>>
        ELSE /\ pc' = "idle" /\ UNCHANGED i
             /\ result' = IF i + 1 < call.count THEN Difference(i) ELSE 0
    /\ UNCHANGED <<bytes, before, call>>

CompareStep ==
    /\ pc = "cmp"
    /\ IF i < call.count /\ Difference(i) = 0
        THEN i' = i + 1 /\ UNCHANGED <<pc, result>>
        ELSE /\ pc' = "idle" /\ UNCHANGED i
             /\ result' = IF i < call.count THEN Difference(i) ELSE 0
    /\ UNCHANGED <<bytes, before, call>>

Next ==
    \/ \E dest \in Address, count \in 0 .. MEMORY_SIZE :
        \/ \E value \in Values : kmemset(dest, value, count)
        \/ \E src \in Address :
            \/ kmemcpy(dest, src, count)
            \/ kmemmove(dest, src, count)
            \/ kmemcmp(dest, src, count)
    \/ SetStep \/ CopyUpStep \/ CopyDownStep \/ CompareStep

Spec == Init /\ [][Next]_vars

-----------------------------------------------------------------------------
(* The loops of kmemory.c index inside the memory they were given.         *)
TypeOK ==
    /\ bytes \in [Address -> Byte] /\ before \in [Address -> Byte]
    /\ call \in [op : {"none", "kmemset", "kmemcpy", "kmemmove", "kmemcmp"},
                 dest : Nat, src : Nat, count : Nat, byte : Byte]
    /\ i \in 0 .. call.count
    /\ pc \in {"idle", "set", "up", "down", "cmp"}
    /\ result \in Int

(* No primitive writes a byte outside its destination, at any moment.      *)
OnlyDestinationWritten ==
    \A a \in Address :
        a < call.dest \/ a >= call.dest + call.count => bytes[a] = before[a]

Copied ==
    \A k \in 0 .. call.count - 1 : bytes[call.dest + k] = before[call.src + k]

(* kmemmove leaves in the destination what the source held when it was     *)
(* called, for every overlap of the two.                                   *)
MoveCopiesOverlapping ==
    pc = "idle" /\ call.op = "kmemmove" => Copied

(* kmemcpy does so when the two do not overlap, or the destination lies    *)
(* below the source.                                                       *)
CopyCopies ==
    pc = "idle" /\ call.op = "kmemcpy"
        /\ (call.dest <= call.src \/ call.dest >= call.src + call.count)
    => Copied

(* Both copy what the source held.                                         *)
CopiesSource == MoveCopiesOverlapping /\ CopyCopies

(* kmemcmp is the difference at the first byte that differs, else zero.    *)
CompareFirstDifference ==
    pc = "idle" /\ call.op = "kmemcmp" =>
        \/ result = 0 /\ \A k \in 0 .. call.count - 1 : Difference(k) = 0
        \/ \E k \in 0 .. call.count - 1 :
            /\ result = Difference(k) /\ result # 0
            /\ \A j \in 0 .. k - 1 : Difference(j) = 0
=============================================================================
