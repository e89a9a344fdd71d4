------------------------------ MODULE MCKHeap ------------------------------
(* A heap of three pages of four alignment units, headers of two units.    *)
(* Callers free every aligned address in and around the window and one     *)
(* that is not aligned.                                                    *)
EXTENDS KHeap

CallerPointers ==
    {p \in 0 .. HEAP_END + 1 : p % MIN_ALIGNMENT = 0} \cup {HEAP_START + 5}
=============================================================================
