---------------------------- MODULE HeapContract ----------------------------
(***************************************************************************)
(* What kernel code relies on when it calls kmalloc and kfree: an abstract *)
(* allocator that knows only the live blocks.  It may refuse a request; a  *)
(* block it grants is aligned, inside the heap window, large enough and    *)
(* disjoint from every live block; a free succeeds exactly on the address  *)
(* of a live block.                                                        *)
(***************************************************************************)
EXTENDS Integers

CONSTANTS
    Start, End,   \* the heap window, End excluded
    Align,        \* the alignment of every granted address
    Sizes,        \* the sizes that callers request
    Pointers      \* the addresses that callers free

VARIABLES
    live,         \* the live blocks: address -> usable size
    result        \* what the last call returned

Null == 0

Block(p, n) == p .. p + n - 1

NoResult == [op |-> "none", arg |-> 0, value |-> 0]

Init == live = [p \in {} |-> 0] /\ result = NoResult

Grant(size, p) ==
    /\ size > 0
    /\ p % Align = 0
    /\ result' = [op |-> "alloc", arg |-> size, value |-> p]
    /\ \E n \in size .. End - Start :
        /\ live' = [q \in DOMAIN live \cup {p} |-> IF q = p THEN n ELSE live[q]]
        /\ Block(p, n) \subseteq Start .. End - 1
        /\ \A q \in DOMAIN live : Block(p, n) \cap Block(q, live[q]) = {}

Refuse(size) ==
    /\ result' = [op |-> "alloc", arg |-> size, value |-> Null]
    /\ UNCHANGED live

Release(p) ==
    /\ p \in DOMAIN live
    /\ live' = [q \in DOMAIN live \ {p} |-> live[q]]
    /\ result' = [op |-> "free", arg |-> p, value |-> 1]

Reject(p) ==
    /\ p \notin DOMAIN live
    /\ result' = [op |-> "free", arg |-> p, value |-> 0]
    /\ UNCHANGED live

Next ==
    \/ \E size \in Sizes :
            \/ Refuse(size)
            \/ \E p \in Start .. End - 1 : Grant(size, p)
    \/ \E p \in Pointers : Release(p) \/ Reject(p)

Spec == Init /\ [][Next]_<<live, result>>
=============================================================================
