----------------------------- MODULE MCBringUp -----------------------------
(***************************************************************************)
(* Words of 0 .. 31, frames of 4, the policy minimum at 8, the kernel at   *)
(* 13 .. 17, tables of two regions and two ranges.  The structure lies in  *)
(* an address space that ends at 127 and has up to three entries, in one   *)
(* tag or several, and tags that are short, truncated, of an odd size,     *)
(* missing, or of a size that wraps.                                       *)
(***************************************************************************)
EXTENDS BringUp

Tag(type, size, entry_size) ==
    [type |-> type, size |-> size, entry_size |-> entry_size]

(* Sizes that fit, among them short, odd and truncated ones.               *)
PlainTags ==
    {Tag(TAG_END, 8, 0), Tag(TAG_END, 16, 0), Tag(1, 4, 0), Tag(1, 13, 0)}
    \cup {Tag(TAG_MMAP, size, es) : size \in {8, 40, 60, 88}, es \in {16, 24, 32}}

(* Sizes near 2^32: 16 bytes back, rounded up to 0, and entries 16 bytes   *)
(* back.                                                                   *)
WrappingTags ==
    {Tag(1, UINT32_MAX - 15, 0), Tag(1, UINT32_MAX - 6, 0),
     Tag(TAG_MMAP, 40, UINT32_MAX - 15), Tag(TAG_MMAP, UINT32_MAX - 15, 24)}

Tags == PlainTags \cup WrappingTags

Entry(base, length, type) == [base |-> base, length |-> length, type |-> type]

(* Regions below, across, above and inside the minimum and the kernel,     *)
(* unaligned, adjacent, wrapping at the top, not available.                *)
MmapEntries ==
    {Entry(0, 6, 1), Entry(6, 7, 1), Entry(7, 22, 1), Entry(11, 6, 1),
     Entry(16, 8, 1), Entry(25, 6, 1), Entry(24, 8, 1), Entry(8, 24, 2)}
=============================================================================
