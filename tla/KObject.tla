------------------------------ MODULE KObject ------------------------------
(***************************************************************************)
(* Kernel objects of kernel/kernel/kobject.c: nodes that come from kmalloc *)
(* and a singly linked list of them with head, tail and count.             *)
(*                                                                         *)
(* Lookup and removal walk the list, one iteration of the loop per step.   *)
(* A node address is reused after kfree, with whatever its memory still    *)
(* holds.  The `value` field is written once and read by no function of    *)
(* the file, so it is left out.  A NULL list makes every function return   *)
(* at once without effect.                                                 *)
(***************************************************************************)
EXTENDS Integers, FiniteSets

CONSTANTS
    Nodes,       \* the addresses kmalloc may return
    Ids,
    Null,
    CallersReappend  \* callers may append a node that is in the list already

ASSUME KObjectAssumption ==
    /\ IsFiniteSet(Nodes) /\ Null \notin Nodes \cup Ids
    /\ CallersReappend \in BOOLEAN

VARIABLES
    live,     \* the nodes that kmalloc handed out and kfree did not take back
    mem,      \* node memory: id and next
    list,     \* struct kobject_list
    pc,       \* "idle", "find" or "remove"
    arg,      \* the id the running call looks for
    cursor, prev,
    result    \* what the last completed call returned

vars == <<live, mem, list, pc, arg, cursor, prev, result>>
walk == <<pc, arg, cursor, prev>>

EmptyList == [head |-> Null, tail |-> Null, count |-> 0]

Answer(op, a, value, node) ==
    [op |-> op, arg |-> a, value |-> value, node |-> node]

(* Memory that was never written holds an arbitrary id and next.           *)
Init ==
    /\ live = {}
    /\ mem \in [Nodes -> [id : Ids, next : Nodes \cup {Null}]]
    /\ list = EmptyList
    /\ pc = "idle" /\ arg = Null /\ cursor = Null /\ prev = Null
    /\ result = Answer("none", Null, 0, Null)

(* The chain from the head, cut off after as many hops as there are nodes. *)
Hop ==
    LET at[k \in 0 .. Cardinality(Nodes)] ==
            IF k = 0 THEN list.head
            ELSE IF at[k - 1] = Null THEN Null ELSE mem[at[k - 1]].next
    IN  at

Linked == {Hop[k] : k \in DOMAIN Hop} \ {Null}

-----------------------------------------------------------------------------
(* Faulty variant: the link of a reused block is not cleared.              *)
CreateKeepsOldLink(id) ==
    /\ pc = "idle"
    /\ \/ \E n \in Nodes \ live :
            /\ live' = live \cup {n}
            /\ mem' = [mem EXCEPT ![n].id = id]
            /\ result' = Answer("create", id, 1, n)
       \/ /\ result' = Answer("create", id, 0, Null)
          /\ UNCHANGED <<live, mem>>
    /\ UNCHANGED <<list, walk>>

(* kobject_node_create when kmalloc returned n, and when it failed.        *)
CreateAt(id, n) ==
    /\ pc = "idle"
    /\ live' = live \cup {n}
    /\ mem' = [m \in DOMAIN mem \cup {n} |->
                IF m = n THEN [id |-> id, next |-> Null] ELSE mem[m]]
    /\ result' = Answer("create", id, 1, n)
    /\ UNCHANGED <<list, walk>>

CreateFails(id) ==
    /\ pc = "idle"
    /\ result' = Answer("create", id, 0, Null)
    /\ UNCHANGED <<live, mem, list, walk>>

kobject_node_create(id) ==
    \/ \E n \in Nodes \ live : CreateAt(id, n)
    \/ CreateFails(id)

(* kfree takes the block of a live node back.                              *)
kobject_node_destroy(n) ==
    /\ pc = "idle"
    /\ live' = live \ {n}
    /\ result' = Answer("destroy", n, IF n = Null THEN 0 ELSE 1, Null)
    /\ UNCHANGED <<mem, list, walk>>

(* Also called on a list that is not empty, which abandons its nodes.      *)
kobject_list_init ==
    /\ pc = "idle"
    /\ list' = EmptyList
    /\ UNCHANGED <<live, mem, walk, result>>

AppendRefused(n) ==
    \/ n = Null
    \/ mem[n].next # Null
    \/ list.head # Null /\ list.tail = Null

kobject_list_append(n) ==
    /\ pc = "idle"
    /\ IF AppendRefused(n)
        THEN result' = Answer("append", n, 0, Null) /\ UNCHANGED <<mem, list>>
        ELSE /\ result' = Answer("append", n, 1, Null)
             /\ IF list.head = Null
                THEN /\ list' = [head |-> n, tail |-> n, count |-> 1]
                     /\ UNCHANGED mem
                ELSE /\ mem' = [mem EXCEPT ![list.tail].next = n]
                     /\ list' = [list EXCEPT !.tail = n, !.count = @ + 1]
    /\ UNCHANGED <<live, walk>>

kobject_list_count ==
    /\ pc = "idle"
    /\ result' = Answer("count", Null, list.count, Null)
    /\ UNCHANGED <<live, mem, list, walk>>

-----------------------------------------------------------------------------
Enter(op, id) ==
    /\ pc = "idle"
    /\ pc' = op /\ arg' = id /\ cursor' = list.head /\ prev' = Null
    /\ UNCHANGED <<live, mem, list, result>>

Leave(op, value, node) ==
    /\ pc' = "idle" /\ arg' = Null /\ cursor' = Null /\ prev' = Null
    /\ result' = Answer(op, arg, value, node)

Match == cursor # Null /\ mem[cursor].id = arg

(* Faulty variant: the walk does not move.                                 *)
AdvanceStuck ==
    /\ cursor # Null /\ ~ Match
    /\ prev' = cursor
    /\ UNCHANGED <<live, mem, list, pc, arg, cursor, result>>

Advance ==
    /\ cursor # Null /\ ~ Match
    /\ prev' = cursor /\ cursor' = mem[cursor].next
    /\ UNCHANGED <<live, mem, list, pc, arg, result>>

(* kobject_list_find_by_id.                                                *)
FindStep ==
    /\ pc = "find"
    /\ \/ Advance
       \/ /\ cursor = Null \/ Match
          /\ Leave("find", IF Match THEN 1 ELSE 0, cursor)
          /\ UNCHANGED <<live, mem, list>>

(* kobject_list_remove_by_id.  The list and the links after the node under *)
(* the cursor is unlinked; the last test empties the list when the count   *)
(* has reached zero.                                                       *)
UnlinkedMem ==
    [n \in DOMAIN mem |->
        CASE n = cursor -> [mem[n] EXCEPT !.next = Null]
          [] n = prev /\ n # cursor -> [mem[n] EXCEPT !.next = mem[cursor].next]
          [] OTHER -> mem[n]]

(* Faulty variant: the tail is not moved back.                             *)
UnlinkedListOldTail ==
    IF list.count <= 1
        THEN EmptyList
        ELSE [list EXCEPT !.head = IF prev = Null THEN mem[cursor].next ELSE @,
                          !.count = @ - 1]

UnlinkedList ==
    LET count == IF list.count > 0 THEN list.count - 1 ELSE 0
    IN  IF count = 0
        THEN EmptyList
        ELSE [head |-> IF prev = Null THEN mem[cursor].next ELSE list.head,
              tail |-> IF list.tail = cursor THEN prev ELSE list.tail,
              count |-> count]

RemoveStep ==
    /\ pc = "remove"
    /\ \/ Advance
       \/ /\ Match
          /\ mem' = UnlinkedMem /\ list' = UnlinkedList
          /\ Leave("remove", 1, cursor)
          /\ UNCHANGED live
       \/ /\ cursor = Null
          /\ Leave("remove", 0, Null)
          /\ UNCHANGED <<live, mem, list>>

(* Callers destroy NULL or a node that the list no longer reaches, and     *)
(* append NULL or, unless they are careless, a node that it does not reach.*)
Next ==
    \/ \E id \in Ids :
            kobject_node_create(id) \/ Enter("find", id) \/ Enter("remove", id)
    \/ \E n \in {Null} \cup (live \ Linked) : kobject_node_destroy(n)
    \/ \E n \in {Null} \cup (IF CallersReappend THEN live ELSE live \ Linked) :
            kobject_list_append(n)
    \/ kobject_list_init
    \/ kobject_list_count
    \/ FindStep
    \/ RemoveStep

(* One thread: a walk that was entered keeps executing.                    *)
Spec == Init /\ [][Next]_vars /\ WF_vars(FindStep \/ RemoveStep)

-----------------------------------------------------------------------------
(* Every link the list functions of kobject.c follow or write is NULL or a *)
(* node, and the stored count never leaves its range.                      *)
TypeOK ==
    /\ live \subseteq Nodes
    /\ mem \in [Nodes -> [id : Ids, next : Nodes \cup {Null}]]
    /\ list \in [head : live \cup {Null}, tail : live \cup {Null},
                 count : 0 .. Cardinality(Nodes)]
    /\ pc \in {"idle", "find", "remove"} /\ arg \in Ids \cup {Null}
    /\ cursor \in live \cup {Null} /\ prev \in live \cup {Null}
    /\ result.op \in {"none", "create", "destroy", "append", "count",
                      "find", "remove"}

(* Stage 11D's list invariants: the chain from head ends after exactly     *)
(* count distinct live nodes, and tail is the last of them, whatever head, *)
(* middle and tail removals, re-initialisations and reused addresses came  *)
(* before.                                                                 *)
ListWellFormed ==
    /\ Linked \subseteq live
    /\ Hop[Cardinality(Nodes)] = Null
    /\ list.count = Cardinality(Linked)
    /\ list.tail = IF list.count = 0 THEN Null ELSE Hop[list.count - 1]

(* A walk keeps prev directly before cursor and has passed no node with    *)
(* the id it looks for, so removal unlinks the first match.                *)
WalkPassedNoMatch ==
    pc # "idle" =>
        \E k \in DOMAIN Hop :
            /\ cursor = Hop[k]
            /\ prev = IF k = 0 THEN Null ELSE Hop[k - 1]
            /\ \A j \in 0 .. k - 1 : Hop[j] # Null /\ mem[Hop[j]].id # arg

(* What the list functions of kobject.c rely on when they walk or relink.  *)
ListIntact == TypeOK /\ ListWellFormed /\ WalkPassedNoMatch

(* Every lookup and removal ends.                                          *)
WalkEnds == pc # "idle" ~> pc = "idle"

(* The nodes of the list from c on; none from its end.                     *)
NodesFrom(c) ==
    {n \in Linked : \E j, k \in DOMAIN Hop : j <= k /\ Hop[j] = c /\ Hop[k] = n}

(* No walk of kobject.c goes round: every step that does not end it leaves *)
(* a node behind for good, whatever removals, re-initialisations and       *)
(* reused addresses came before, so it ends within the length of the list. *)
WalkMakesProgress ==
    [][pc # "idle" /\ pc' # "idle" =>
        /\ NodesFrom(cursor)' \subseteq NodesFrom(cursor)
        /\ NodesFrom(cursor)' # NodesFrom(cursor)]_vars

(* The list as a sequence, the ids of the live nodes, and the live nodes   *)
(* that still link into a list that was abandoned.                         *)
ListSeq == [k \in 1 .. Cardinality(Linked) |-> Hop[k - 1]]
IdOf == [n \in live |-> mem[n].id]
Stale == {n \in live \ Linked : mem[n].next # Null}

Sequence == INSTANCE ObjectList WITH seq <- ListSeq, idOf <- IdOf, stale <- Stale

(* kobject.c implements a sequence of objects: append adds at the end,     *)
(* find answers and remove detaches the first node with the id, count is   *)
(* the length, and a removed node can be appended again.                   *)
ImplementsSequence == Sequence!Spec

(* The removal contract of docs/milestones/stage-11d.md: a node that was   *)
(* removed is no longer reachable from the head.                           *)
RemovedUnreachable ==
    result.op = "remove" /\ result.value = 1 => result.node \notin Linked
=============================================================================
