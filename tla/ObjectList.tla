----------------------------- MODULE ObjectList -----------------------------
(***************************************************************************)
(* What kernel code relies on when it keeps objects in a list: a sequence  *)
(* of nodes, appended at the end, looked up and removed by the first match *)
(* of an id.  A node left inside a list that was abandoned by              *)
(* re-initialising it is stale: it can only be destroyed.                  *)
(***************************************************************************)
EXTENDS Integers, Sequences, SequencesExt

CONSTANTS Nodes, Ids, Null

VARIABLES
    seq,       \* the nodes of the list, in order
    idOf,      \* the live nodes and their ids
    stale,     \* live nodes that still point into an abandoned list
    result     \* what the last call answered

Answer(op, arg, value, node) ==
    [op |-> op, arg |-> arg, value |-> value, node |-> node]

Init ==
    /\ seq = <<>> /\ stale = {}
    /\ idOf = [n \in {} |-> 0]
    /\ result = Answer("none", Null, 0, Null)

Without(n) == [m \in DOMAIN idOf \ {n} |-> idOf[m]]

Create(n, id) ==
    /\ n \in Nodes \ DOMAIN idOf
    /\ idOf' = [m \in DOMAIN idOf \cup {n} |-> IF m = n THEN id ELSE idOf[m]]
    /\ result' = Answer("create", id, 1, n)
    /\ UNCHANGED <<seq, stale>>

Fail(op, arg) ==
    result' = Answer(op, arg, 0, Null) /\ UNCHANGED <<seq, idOf, stale>>

Destroy(n) ==
    /\ n \in DOMAIN idOf /\ ~ Contains(seq, n)
    /\ idOf' = Without(n) /\ stale' = stale \ {n}
    /\ result' = Answer("destroy", n, 1, Null)
    /\ UNCHANGED seq

NewList ==
    /\ seq' = <<>>
    /\ stale' = stale \cup {seq[i] : i \in 1 .. Len(seq) - 1}
    /\ UNCHANGED <<idOf, result>>

Add(n) ==
    /\ n \in DOMAIN idOf \ stale /\ ~ Contains(seq, n)
    /\ seq' = Append(seq, n)
    /\ result' = Answer("append", n, 1, Null)
    /\ UNCHANGED <<idOf, stale>>

Matches(id) == {i \in DOMAIN seq : idOf[seq[i]] = id}

IsFirstMatch(i, id) == i \in Matches(id) /\ \A j \in Matches(id) : i <= j

Find(id) ==
    /\ \E i \in DOMAIN seq :
            IsFirstMatch(i, id) /\ result' = Answer("find", id, 1, seq[i])
    /\ UNCHANGED <<seq, idOf, stale>>

Detach(id) ==
    /\ \E i \in DOMAIN seq :
            /\ IsFirstMatch(i, id)
            /\ seq' = RemoveAt(seq, i)
            /\ result' = Answer("remove", id, 1, seq[i])
    /\ UNCHANGED <<idOf, stale>>

Count ==
    /\ result' = Answer("count", Null, Len(seq), Null)
    /\ UNCHANGED <<seq, idOf, stale>>

Next ==
    \/ \E id \in Ids :
            \/ Fail("create", id) \/ \E n \in Nodes : Create(n, id)
            \/ Find(id) \/ Detach(id)
            \/ Matches(id) = {} /\ (Fail("find", id) \/ Fail("remove", id))
    \/ \E n \in Nodes :
            Destroy(n) \/ Add(n) \/ (n \in stale /\ Fail("append", n))
    \/ Fail("destroy", Null) \/ Fail("append", Null)
    \/ NewList \/ Count

Spec == Init /\ [][Next]_<<seq, idOf, stale, result>>
=============================================================================
