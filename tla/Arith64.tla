------------------------------ MODULE Arith64 ------------------------------
(***************************************************************************)
(* The two guarded additions of stage0_main.c on unsigned 64-bit words.    *)
(* The width is a parameter: UINT64_MAX is the largest word, so a scaled   *)
(* instance reaches the overflow cases with small numbers.                 *)
(***************************************************************************)
EXTENDS Integers

CONSTANT UINT64_MAX

ASSUME WordAssumption == UINT64_MAX \in Nat \ {0}

Word == 0 .. UINT64_MAX

(* checked_add_u64 reports a sum that left the word by a wrapped value     *)
(* below its first operand.                                                *)
checked_add_overflows(a, b) == (a + b) % (UINT64_MAX + 1) < a

(* add_clamp_u64: a sum that overflows is replaced by the largest word.    *)
add_clamp_u64(a, b) ==
    IF (a + b) % (UINT64_MAX + 1) < a THEN UINT64_MAX
                                      ELSE (a + b) % (UINT64_MAX + 1)

=============================================================================
