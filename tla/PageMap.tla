------------------------------ MODULE PageMap ------------------------------
(***************************************************************************)
(* What the mapping interface promises its callers: a partial function     *)
(* from pages to frames that starts as the identity map, in which only     *)
(* pages of the reserved windows can be added, once each, and removed.     *)
(***************************************************************************)
EXTENDS Integers

CONSTANTS
    Page(_),       \* the address is page aligned
    Window(_),     \* the address is in a reserved window
    IdentityPages, \* the pages that are mapped to themselves for ever
    VAddrs, PAddrs \* the addresses that callers pass

VARIABLES mapping, answer

Answer(op, v, value) == [op |-> op, page |-> v, value |-> value]

NotMapped == -1

Init ==
    /\ mapping = [v \in IdentityPages |-> v]
    /\ answer = Answer("none", 0, 0)

CanMap(v, f) == Page(v) /\ Page(f) /\ Window(v) /\ v \notin DOMAIN mapping

Map(v, f) ==
    IF CanMap(v, f)
        THEN /\ mapping' = [p \in DOMAIN mapping \cup {v} |->
                                IF p = v THEN f ELSE mapping[p]]
             /\ answer' = Answer("map", v, 1)
        ELSE answer' = Answer("map", v, 0) /\ UNCHANGED mapping

CanUnmap(v) == Window(v) /\ v \in DOMAIN mapping

Unmap(v) ==
    IF CanUnmap(v)
        THEN /\ mapping' = [p \in DOMAIN mapping \ {v} |-> mapping[p]]
             /\ answer' = Answer("unmap", v, 1)
        ELSE answer' = Answer("unmap", v, 0) /\ UNCHANGED mapping

Resolve(v) ==
    /\ answer' = Answer("resolve", v,
                        IF v \in DOMAIN mapping THEN mapping[v] ELSE NotMapped)
    /\ UNCHANGED mapping

Next ==
    \E v \in VAddrs :
        Unmap(v) \/ Resolve(v) \/ \E f \in PAddrs : Map(v, f)

Spec == Init /\ [][Next]_<<mapping, answer>>
=============================================================================
