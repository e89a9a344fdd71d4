------------------------------- MODULE MCVmm -------------------------------
(***************************************************************************)
(* Pages of 4 addresses, 5 entries per table: the identity range is        *)
(* 0 .. 19, the heap window 20 .. 39 (one table), the mapping window       *)
(* 40 .. 79 (two tables), and 80 .. 99 belongs to no window.               *)
(***************************************************************************)
EXTENDS Vmm

Slots == [s \in 0 .. 2 |-> 8 + 4 * s]

(* An identity page, the last page of the heap window, two pages of the    *)
(* mapping window that share a table, an unaligned address in one of them, *)
(* and the first page after the windows.                                   *)
CallerPages == {8, 36, 60, 64, 65, 80}

(* A frame and an unaligned physical address.                              *)
CallerFrames == {88, 93}
=============================================================================
