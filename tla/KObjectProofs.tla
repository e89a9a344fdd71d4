--------------------------- MODULE KObjectProofs ---------------------------
(***************************************************************************)
(* Proofs about the object list, for any set of node addresses and ids.    *)
(* The callers are the careful ones of the contract (CallersReappend is    *)
(* FALSE); with the others the list does not stay intact, which a run      *)
(* shows.                                                                  *)
(*                                                                         *)
(* The chain from the head is a recursive function.  The invariant names   *)
(* its nodes by a sequence instead, and the lemma HopIsChain, by induction *)
(* along the chain, says that following the links visits that sequence.    *)
(***************************************************************************)
EXTENDS KObject, Sequences, FiniteSetTheorems, SequenceTheorems,
        WellFoundedInduction, TLAPS

(* The least element of a set of natural numbers, the form in which        *)
(* induction is used below.                                                *)
LEMMA LeastNatural ==
    ASSUME NEW T, T \subseteq Nat, T # {}
    PROVE  \E x \in T : \A y \in T : x <= y
<1>1. PICK R : R = OpToRel(<, Nat) /\ IsWellFoundedOn(R, Nat)
  BY NatLessThanWellFounded
<1>2. PICK x \in T : \A y \in T : ~ (<<y, x>> \in R)
  BY <1>1, WFMin
<1>3. \A x1, y1 \in Nat : x1 < y1 => <<x1, y1>> \in R
  BY <1>1 DEF OpToRel
<1>4. ASSUME NEW y \in T PROVE x <= y
  <2>1. ~ (y < x)
    BY <1>2, <1>3
  <2> QED BY <2>1
<1> QED BY <1>4

-----------------------------------------------------------------------------
(* The chain from the head of l through the links of m.                    *)
HopOf(l, m) ==
    LET at[k \in 0 .. Cardinality(Nodes)] ==
            IF k = 0 THEN l.head
            ELSE IF at[k - 1] = Null THEN Null ELSE m[at[k - 1]].next
    IN  at

NodeMem == [Nodes -> [id : Ids, next : Nodes \cup {Null}]]

(* The list l over the memory m holds the n nodes of s, in this order.     *)
Chain(s, n, l, m) ==
    /\ n \in Nat /\ s \in [1 .. n -> Nodes]
    /\ \A j, k \in 1 .. n : s[j] = s[k] => j = k
    /\ l = [head |-> IF n = 0 THEN Null ELSE s[1],
            tail |-> IF n = 0 THEN Null ELSE s[n],
            count |-> n]
    /\ \A k \in 1 .. n : m[s[k]].next = IF k = n THEN Null ELSE s[k + 1]

NodesOf(s, n) == {s[k] : k \in 1 .. n}

(* A chain visits each node once, so it is no longer than there are nodes. *)
LEMMA ChainLength ==
    ASSUME NEW s, NEW n, NEW l, NEW m, Chain(s, n, l, m)
    PROVE  /\ Cardinality(Nodes) \in Nat /\ n <= Cardinality(Nodes) /\ n \in Nat
           /\ IsFiniteSet(NodesOf(s, n)) /\ Cardinality(NodesOf(s, n)) = n
           /\ NodesOf(s, n) \subseteq Nodes
<1>1. n \in Nat /\ s \in [1 .. n -> Nodes] /\ \A j, k \in 1 .. n : s[j] = s[k] => j = k
  BY DEF Chain
<1>2. IsFiniteSet(Nodes) /\ Cardinality(Nodes) \in Nat
  BY KObjectAssumption, FS_CardinalityType
<1>3. NodesOf(s, n) \subseteq Nodes
  BY <1>1 DEF NodesOf
<1>4. IsFiniteSet(NodesOf(s, n)) /\ Cardinality(NodesOf(s, n)) <= Cardinality(Nodes)
  BY <1>2, <1>3, FS_Subset
<1>5. ExistsBijection(1 .. n, NodesOf(s, n))
  <2>1. s \in [1 .. n -> NodesOf(s, n)]
    BY <1>1 DEF NodesOf
  <2>2. s \in Injection(1 .. n, NodesOf(s, n))
    BY <1>1, <2>1 DEF Injection, IsInjective
  <2>3. s \in Surjection(1 .. n, NodesOf(s, n))
    BY <2>1 DEF Surjection, NodesOf
  <2> QED BY <2>2, <2>3 DEF Bijection, ExistsBijection
<1>6. Cardinality(1 .. n) = n /\ IsFiniteSet(1 .. n)
  BY <1>1, FS_Interval
<1>7. Cardinality(NodesOf(s, n)) = n
  BY <1>4, <1>5, <1>6, FS_Bijection
<1> QED BY <1>1, <1>2, <1>3, <1>4, <1>7

(* Following the links from the head visits the chain and then stays at    *)
(* NULL.                                                                   *)
LEMMA HopIsChain ==
    ASSUME NEW s, NEW n, NEW l, NEW m, Chain(s, n, l, m)
    PROVE  HopOf(l, m) = [k \in 0 .. Cardinality(Nodes) |-> IF k < n THEN s[k + 1] ELSE Null]
<1> DEFINE N == Cardinality(Nodes)
           F(f) == [k \in 0 .. N |-> IF k = 0 THEN l.head
                                     ELSE IF f[k - 1] = Null THEN Null ELSE m[f[k - 1]].next]
           h == [k \in 0 .. N |-> IF k < n THEN s[k + 1] ELSE Null]
           g == HopOf(l, m)
<1>1. n \in Nat /\ N \in Nat /\ n <= N /\ Null \notin Nodes
  BY ChainLength, KObjectAssumption
<1>2. /\ s \in [1 .. n -> Nodes] /\ l.head = IF n = 0 THEN Null ELSE s[1]
      /\ \A k \in 1 .. n : m[s[k]].next = IF k = n THEN Null ELSE s[k + 1]
  BY DEF Chain
<1> HIDE DEF N
<1>3. ASSUME NEW k \in 0 .. N
      PROVE  h[k] = IF k = 0 THEN l.head
                    ELSE IF h[k - 1] = Null THEN Null ELSE m[h[k - 1]].next
  <2>1. CASE k = 0
    BY <1>1, <1>2, <2>1
  <2>2. CASE k # 0 /\ k - 1 < n
    <3>1. k \in 1 .. n /\ k - 1 \in 0 .. N /\ h[k - 1] = s[k] /\ s[k] \in Nodes
      BY <1>1, <1>2, <1>3, <2>2
    <3>2. m[s[k]].next = IF k = n THEN Null ELSE s[k + 1]
      BY <1>2, <3>1
    <3>3. h[k] = IF k = n THEN Null ELSE s[k + 1]
      BY <1>1, <1>3, <3>1
    <3> QED BY <1>1, <2>2, <3>1, <3>2, <3>3
  <2>3. CASE k # 0 /\ ~ (k - 1 < n)
    <3>1. k - 1 \in 0 .. N /\ h[k - 1] = Null /\ h[k] = Null
      BY <1>1, <1>3, <2>3
    <3> QED BY <2>3, <3>1
  <2> QED BY <2>1, <2>2, <2>3
<1>4. h = F(h)
  BY <1>3
<1>5. \E f : f = F(f)
  <2> HIDE DEF h, F
  <2> QED BY <1>4
<1>6. g = F(g)
  BY <1>5, Zenon DEF HopOf, N
<1> HIDE DEF g
<1>7. \A k \in 0 .. N : g[k] = IF k = 0 THEN l.head
                               ELSE IF g[k - 1] = Null THEN Null ELSE m[g[k - 1]].next
  BY <1>6
<1> DEFINE T == {k \in 0 .. N : g[k] # h[k]}
<1>8. ASSUME T # {} PROVE FALSE
  <2> HIDE DEF h
  <2>1. T \subseteq Nat
    BY <1>1
  <2>2. PICK k \in T : \A j \in T : k <= j
    BY <1>8, <2>1, LeastNatural
  <2>3. k # 0
    BY <1>1, <1>3, <1>7, <2>2
  <2>4. k - 1 \in 0 .. N /\ k - 1 \notin T
    BY <1>1, <2>2, <2>3
  <2>5. g[k - 1] = h[k - 1]
    BY <2>4
  <2>6. g[k] = h[k]
    BY <1>3, <1>7, <2>2, <2>3, <2>5
  <2> QED BY <2>2, <2>6
<1>9. g = [k \in 0 .. N |-> g[k]] /\ h = [k \in 0 .. N |-> h[k]]
  BY <1>6
<1>10. \A k \in 0 .. N : g[k] = h[k]
  BY <1>8
<1>11. g = h
  <2> HIDE DEF h
  <2> QED BY <1>9, <1>10
<1> QED BY <1>11 DEF g, N


LinkedOf(l, m) == {HopOf(l, m)[k] : k \in DOMAIN HopOf(l, m)} \ {Null}

LEMMA LinkedIsChain ==
    ASSUME NEW s, NEW n, NEW l, NEW m, Chain(s, n, l, m)
    PROVE  LinkedOf(l, m) = NodesOf(s, n)
<1>1. /\ n \in Nat /\ Cardinality(Nodes) \in Nat /\ n <= Cardinality(Nodes)
      /\ Null \notin Nodes /\ s \in [1 .. n -> Nodes]
  <2>1. n \in Nat /\ s \in [1 .. n -> Nodes]
    BY DEF Chain
  <2>2. Cardinality(Nodes) \in Nat /\ n <= Cardinality(Nodes)
    BY ChainLength
  <2>3. Null \notin Nodes
    BY KObjectAssumption
  <2> QED BY <2>1, <2>2, <2>3
<1>2. PICK N \in Nat : N = Cardinality(Nodes)
  BY <1>1
<1>3. PICK h : h = HopOf(l, m) /\ h = [k \in 0 .. N |-> IF k < n THEN s[k + 1] ELSE Null]
  BY <1>2, HopIsChain
<1>4. LinkedOf(l, m) = {h[k] : k \in 0 .. N} \ {Null}
  BY <1>3 DEF LinkedOf
<1>5. ASSUME NEW x \in {h[k] : k \in 0 .. N} \ {Null} PROVE x \in NodesOf(s, n)
  <2>1. PICK k \in 0 .. N : x = h[k] /\ h[k] # Null
    BY <1>5
  <2>2. k < n /\ h[k] = s[k + 1]
    BY <1>3, <2>1
  <2>3. k + 1 \in 1 .. n
    BY <1>1, <2>1, <2>2
  <2> QED BY <2>1, <2>2, <2>3 DEF NodesOf
<1>6. ASSUME NEW x \in NodesOf(s, n) PROVE x \in {h[k] : k \in 0 .. N} \ {Null}
  <2>1. PICK k \in 1 .. n : x = s[k]
    BY DEF NodesOf
  <2>2. k - 1 \in 0 .. N /\ k - 1 < n /\ (k - 1) + 1 = k
    BY <1>1, <1>2
  <2>3. h[k - 1] = s[k] /\ s[k] \in Nodes
    BY <1>1, <1>3, <2>2
  <2> QED BY <1>1, <2>1, <2>2, <2>3
<1> QED BY <1>4, <1>5, <1>6

(* The links of the chain are all that a list depends on.                  *)
LEMMA ChainFrame ==
    ASSUME NEW s, NEW n, NEW l, NEW m, NEW m2, Chain(s, n, l, m),
           \A x \in NodesOf(s, n) : m2[x].next = m[x].next
    PROVE  Chain(s, n, l, m2)
BY DEF Chain, NodesOf

(* A node that is not in the list goes to its end.                         *)
Extended(s, n, x) == [k \in 1 .. n + 1 |-> IF k <= n THEN s[k] ELSE x]

Appended(x, n, l, m, l2, m2) ==
    IF n = 0 THEN l2 = [head |-> x, tail |-> x, count |-> 1] /\ m2 = m
             ELSE /\ l2 = [l EXCEPT !.tail = x, !.count = @ + 1]
                  /\ m2 = [m EXCEPT ![l.tail].next = x]

LEMMA ChainAppend ==
    ASSUME NEW s, NEW n, NEW l, NEW m \in NodeMem, NEW l2, NEW m2, Chain(s, n, l, m),
           NEW x \in Nodes \ NodesOf(s, n), m[x].next = Null, Appended(x, n, l, m, l2, m2)
    PROVE  /\ Chain(Extended(s, n, x), n + 1, l2, m2)
           /\ m2 \in NodeMem /\ \A y \in Nodes : m2[y].id = m[y].id
           /\ \A y \in Nodes \ NodesOf(s, n) : m2[y] = m[y]
<1> DEFINE t == Extended(s, n, x)
<1>1. /\ n \in Nat /\ s \in [1 .. n -> Nodes]
      /\ \A j, k \in 1 .. n : s[j] = s[k] => j = k
      /\ l = [head |-> IF n = 0 THEN Null ELSE s[1],
              tail |-> IF n = 0 THEN Null ELSE s[n], count |-> n]
      /\ \A k \in 1 .. n : m[s[k]].next = IF k = n THEN Null ELSE s[k + 1]
  BY DEF Chain
<1>2. \A k \in 1 .. n : s[k] # x
  BY DEF NodesOf
<1>3. /\ t \in [1 .. n + 1 -> Nodes] /\ t[n + 1] = x /\ \A k \in 1 .. n : t[k] = s[k]
  BY <1>1 DEF Extended
<1> HIDE DEF t
<1>4. \A k \in 1 .. n + 1 : k \in 1 .. n \/ k = n + 1
  BY <1>1
<1>5. \A j, k \in 1 .. n + 1 : t[j] = t[k] => j = k
  BY <1>1, <1>2, <1>3, <1>4
<1>6. CASE n = 0
  <2>1. m2 = m /\ l2 = [head |-> t[1], tail |-> t[1], count |-> 1]
    BY <1>3, <1>6 DEF Appended
  <2>2. \A k \in 1 .. 1 : m[t[k]].next = Null
    BY <1>3, <1>6
  <2> QED BY <1>3, <1>5, <1>6, <2>1, <2>2 DEF Chain, t
<1>7. CASE n # 0
  <2>1. /\ l.tail = s[n] /\ s[n] \in Nodes /\ l.head = s[1] /\ l.count = n
        /\ n \in 1 .. n /\ 1 \in 1 .. n /\ n - 1 \in Nat
    BY <1>1, <1>7
  <2>2. l2 = [head |-> t[1], tail |-> t[n + 1], count |-> n + 1]
    BY <1>1, <1>3, <1>7, <2>1 DEF Appended
  <2>3. m2 = [m EXCEPT ![s[n]] = [@ EXCEPT !.next = x]]
    BY <1>7, <2>1 DEF Appended
  <2>4. m2 \in NodeMem /\ m2[s[n]].next = x /\ \A y \in Nodes : m2[y].id = m[y].id
    BY <2>1, <2>3 DEF NodeMem
  <2>5. \A y \in Nodes \ {s[n]} : m2[y] = m[y]
    BY <2>3 DEF NodeMem
  <2>6. ASSUME NEW k \in 1 .. n + 1
        PROVE  m2[t[k]].next = IF k = n + 1 THEN Null ELSE t[k + 1]
    <3>1. CASE k = n + 1
      <4>1. x \in Nodes \ {s[n]}
        BY <1>2, <2>1
      <4> QED BY <1>3, <2>5, <3>1, <4>1
    <3>2. CASE k = n
      BY <1>1, <1>3, <2>1, <2>4, <3>2
    <3>3. CASE k \in 1 .. n - 1
      <4>1. /\ k \in 1 .. n /\ k + 1 \in 1 .. n /\ k # n /\ k # n + 1
            /\ t[k] = s[k] /\ t[k + 1] = s[k + 1]
        BY <1>1, <1>3, <3>3
      <4>2. s[k] \in Nodes \ {s[n]}
        BY <1>1, <2>1, <4>1
      <4> QED BY <1>1, <2>5, <4>1, <4>2
    <3> QED BY <1>1, <1>7, <3>1, <3>2, <3>3
  <2>7. s[n] \in NodesOf(s, n)
    BY <2>1 DEF NodesOf
  <2>8. Chain(t, n + 1, l2, m2)
    BY <1>1, <1>3, <1>5, <2>2, <2>6 DEF Chain
  <2> QED BY <2>4, <2>5, <2>7, <2>8 DEF t
<1> QED BY <1>6, <1>7


(* The node under the cursor leaves the list, wherever it stands.          *)
Shortened(s, n, k) == [j \in 1 .. n - 1 |-> IF j < k THEN s[j] ELSE s[j + 1]]

LEMMA ChainRemove ==
    ASSUME NEW s, NEW n, Chain(s, n, list, mem), mem \in NodeMem, NEW k \in 1 .. n,
           cursor = s[k], prev = IF k = 1 THEN Null ELSE s[k - 1],
           NEW l2, l2 = UnlinkedList, NEW m2, m2 = UnlinkedMem
    PROVE  /\ Chain(Shortened(s, n, k), n - 1, l2, m2)
           /\ m2 \in NodeMem /\ \A y \in Nodes : m2[y].id = mem[y].id
           /\ m2[s[k]].next = Null
           /\ \A y \in Nodes \ NodesOf(s, n) : m2[y] = mem[y]
<1> DEFINE t == Shortened(s, n, k)
<1>1. /\ n \in Nat /\ n - 1 \in Nat /\ s \in [1 .. n -> Nodes] /\ k \in Nat
      /\ \A a, b \in 1 .. n : s[a] = s[b] => a = b
      /\ list = [head |-> IF n = 0 THEN Null ELSE s[1],
                 tail |-> IF n = 0 THEN Null ELSE s[n], count |-> n]
      /\ \A a \in 1 .. n : mem[s[a]].next = IF a = n THEN Null ELSE s[a + 1]
      /\ Null \notin Nodes
  BY KObjectAssumption DEF Chain
<1>0. n \in Nat /\ k \in Nat /\ 1 <= k /\ k <= n /\ n - 1 \in Nat
  BY <1>1
<1>2. /\ \A j \in 1 .. k - 1 : j \in 1 .. n /\ j \in 1 .. n - 1 /\ t[j] = s[j]
      /\ \A j \in k .. n - 1 : j + 1 \in 1 .. n /\ j \in 1 .. n - 1 /\ t[j] = s[j + 1]
      /\ \A j \in 1 .. n - 1 : j \in 1 .. k - 1 \/ j \in k .. n - 1
  BY <1>0 DEF Shortened
<1>3. t \in [1 .. n - 1 -> Nodes]
  <2>1. ASSUME NEW j \in 1 .. n - 1 PROVE t[j] \in Nodes
    <3>1. CASE j \in 1 .. k - 1
      BY <1>1, <1>2, <3>1
    <3>2. CASE j \in k .. n - 1
      <4>1. j + 1 \in 1 .. n /\ t[j] = s[j + 1]
        BY <1>2, <3>2
      <4> QED BY <1>1, <4>1
    <3> QED BY <1>2, <3>1, <3>2
  <2>2. t = [j \in 1 .. n - 1 |-> t[j]]
    BY DEF Shortened
  <2> HIDE DEF t
  <2> QED BY <2>1, <2>2
<1> HIDE DEF t
<1>4. ASSUME NEW a \in 1 .. n - 1, NEW b \in 1 .. n - 1, t[a] = t[b] PROVE a = b
  <2>1. CASE a \in 1 .. k - 1 /\ b \in 1 .. k - 1
    BY <1>1, <1>2, <1>4, <2>1
  <2>2. CASE a \in 1 .. k - 1 /\ b \in k .. n - 1
    <3>1. a = b + 1
      BY <1>1, <1>2, <1>4, <2>2
    <3> QED BY <1>0, <2>2, <3>1
  <2>3. CASE a \in k .. n - 1 /\ b \in 1 .. k - 1
    <3>1. b = a + 1
      BY <1>1, <1>2, <1>4, <2>3
    <3> QED BY <1>0, <2>3, <3>1
  <2>4. CASE a \in k .. n - 1 /\ b \in k .. n - 1
    <3>1. a + 1 = b + 1
      BY <1>1, <1>2, <1>4, <2>4
    <3> QED BY <1>0, <2>4, <3>1
  <2> QED BY <1>2, <2>1, <2>2, <2>3, <2>4
<1>5. /\ s[k] \in Nodes
      /\ k > 1 => k - 1 \in 1 .. n /\ s[k - 1] \in Nodes /\ s[k - 1] # s[k]
  BY <1>1
<1>6. /\ DOMAIN mem = Nodes /\ \A y \in Nodes : mem[y] \in [id : Ids, next : Nodes \cup {Null}]
  BY DEF NodeMem
<1>7. /\ m2[s[k]] = [mem[s[k]] EXCEPT !.next = Null]
      /\ k > 1 => m2[s[k - 1]] = [mem[s[k - 1]] EXCEPT !.next = mem[s[k]].next]
      /\ \A y \in Nodes : y # s[k] /\ (k > 1 => y # s[k - 1]) => m2[y] = mem[y]
      /\ DOMAIN m2 = Nodes /\ m2 = [y \in Nodes |-> m2[y]]
  BY <1>1, <1>5, <1>6 DEF UnlinkedMem
<1>8. ASSUME NEW y \in Nodes
      PROVE  m2[y] \in [id : Ids, next : Nodes \cup {Null}] /\ m2[y].id = mem[y].id
  <2>1. mem[s[k]].next \in Nodes \cup {Null}
    BY <1>5, <1>6
  <2>2. CASE y = s[k]
    BY <1>6, <1>7, <2>2
  <2>3. CASE k > 1 /\ y = s[k - 1]
    BY <1>6, <1>7, <2>1, <2>3
  <2> QED BY <1>6, <1>7, <2>2, <2>3
<1>9. m2 \in NodeMem
  BY <1>7, <1>8 DEF NodeMem
<1>10. m2[s[k]].next = Null /\ (k > 1 => m2[s[k - 1]].next = mem[s[k]].next)
  BY <1>5, <1>6, <1>7
<1>11. ASSUME NEW j \in 1 .. n - 1
       PROVE  m2[t[j]].next = IF j = n - 1 THEN Null ELSE t[j + 1]
  <2>1. CASE j \in 1 .. k - 2
    <3>1. /\ j \in 1 .. n /\ t[j] = s[j] /\ j + 1 \in 1 .. k - 1 /\ t[j + 1] = s[j + 1]
          /\ j # n - 1 /\ j # n /\ j # k /\ (k > 1 => j # k - 1)
      BY <1>0, <1>2, <2>1
    <3>2. s[j] \in Nodes /\ s[j] # s[k] /\ (k > 1 => s[j] # s[k - 1])
      BY <1>1, <1>5, <3>1
    <3> QED BY <1>1, <1>7, <3>1, <3>2
  <2>2. CASE k > 1 /\ j = k - 1
    <3>1. t[j] = s[k - 1]
      BY <1>0, <1>2, <2>2
    <3>2. m2[s[k - 1]].next = IF k = n THEN Null ELSE s[k + 1]
      BY <1>1, <1>10, <2>2
    <3>3. k # n => k \in k .. n - 1
      BY <1>0
    <3>4. k # n => t[k] = s[k + 1]
      BY <1>2, <3>3
    <3> QED BY <1>0, <2>2, <3>1, <3>2, <3>4
  <2>3. CASE j \in k .. n - 1
    <3>1. j + 1 \in 1 .. n /\ t[j] = s[j + 1] /\ j + 1 # k /\ (k > 1 => j + 1 # k - 1)
      BY <1>0, <1>2, <2>3
    <3>2. s[j + 1] \in Nodes /\ s[j + 1] # s[k] /\ (k > 1 => s[j + 1] # s[k - 1])
      BY <1>1, <1>5, <3>1
    <3>3. m2[t[j]].next = IF j + 1 = n THEN Null ELSE s[(j + 1) + 1]
      BY <1>1, <1>7, <3>1, <3>2
    <3>4. j # n - 1 => j + 1 \in k .. n - 1 /\ t[j + 1] = s[(j + 1) + 1]
      BY <1>0, <1>2, <2>3
    <3> QED BY <1>1, <2>3, <3>3, <3>4
  <2>4. j \in 1 .. k - 2 \/ (k > 1 /\ j = k - 1) \/ j \in k .. n - 1
    BY <1>1
  <2> QED BY <2>1, <2>2, <2>3, <2>4
<1>12. l2 = [head |-> IF n - 1 = 0 THEN Null ELSE t[1],
             tail |-> IF n - 1 = 0 THEN Null ELSE t[n - 1], count |-> n - 1]
  <2>1. list.count = n /\ list.tail = s[n] /\ list.head = s[1] /\ n > 0
    BY <1>1
  <2>2. CASE n = 1
    <3>1. l2 = EmptyList
      BY <2>1, <2>2 DEF UnlinkedList
    <3> QED BY <2>2, <3>1 DEF EmptyList
  <2>3. CASE n > 1
    <3>1. l2 = [head |-> IF prev = Null THEN mem[cursor].next ELSE list.head,
                tail |-> IF list.tail = cursor THEN prev ELSE list.tail,
                count |-> n - 1]
      BY <1>1, <2>1, <2>3 DEF UnlinkedList
    <3>2. (IF prev = Null THEN mem[cursor].next ELSE list.head) = t[1]
      <4>1. CASE k = 1
        <5>1. mem[s[1]].next = s[2] /\ 1 \in k .. n - 1
          BY <1>1, <2>3, <4>1
        <5> QED BY <1>2, <4>1, <5>1
      <4>2. CASE k > 1
        <5>1. prev # Null /\ 1 \in 1 .. k - 1
          BY <1>1, <1>5, <4>2
        <5> QED BY <1>2, <2>1, <5>1
      <4> QED BY <1>1, <4>1, <4>2
    <3>3. (IF list.tail = cursor THEN prev ELSE list.tail) = t[n - 1]
      <4>1. CASE k = n
        <5>1. prev = s[n - 1] /\ n - 1 \in 1 .. k - 1
          BY <1>1, <2>3, <4>1
        <5> QED BY <1>2, <2>1, <4>1, <5>1
      <4>2. CASE k # n
        <5>1. n - 1 \in k .. n - 1 /\ (n - 1) + 1 = n /\ s[n] # s[k]
          BY <1>1, <2>3, <4>2
        <5> QED BY <1>2, <2>1, <5>1
      <4> QED BY <4>1, <4>2
    <3> QED BY <1>1, <2>3, <3>1, <3>2, <3>3
  <2> QED BY <1>1, <2>1, <2>2, <2>3
<1>13. Chain(t, n - 1, l2, m2)
  BY <1>1, <1>3, <1>4, <1>11, <1>12 DEF Chain
<1>14. ASSUME NEW y \in Nodes \ NodesOf(s, n) PROVE m2[y] = mem[y]
  BY <1>1, <1>5, <1>7 DEF NodesOf
<1> QED BY <1>8, <1>9, <1>10, <1>13, <1>14 DEF t


-----------------------------------------------------------------------------
(* The inductive invariant: the list is a chain of live nodes, and a       *)
(* running walk stands at one of its places, or behind its end, and has    *)
(* passed no match.                                                        *)
TypeInv ==
    /\ live \subseteq Nodes /\ mem \in NodeMem
    /\ pc \in {"idle", "find", "remove"} /\ arg \in Ids \cup {Null}
    /\ pc # "idle" => arg \in Ids
    /\ result.op \in {"none", "create", "destroy", "append", "count",
                      "find", "remove"}

At(s, n, k) == IF k \in 1 .. n THEN s[k] ELSE Null

WalkAt(s, n, k) ==
    /\ cursor = At(s, n, k) /\ prev = At(s, n, k - 1)
    /\ \A j \in 1 .. k - 1 : mem[s[j]].id # arg

Holds(s, n) ==
    /\ Chain(s, n, list, mem) /\ NodesOf(s, n) \subseteq live
    /\ IF pc = "idle" THEN cursor = Null /\ prev = Null
                      ELSE \E k \in 1 .. n + 1 : WalkAt(s, n, k)

IInv == TypeInv /\ \E s, n : Holds(s, n)

LEMMA LinkedNodes ==
    ASSUME NEW s, NEW n, Holds(s, n)
    PROVE  Linked = NodesOf(s, n)
<1>1. Linked = LinkedOf(list, mem)
  BY DEF Linked, LinkedOf, Hop, HopOf
<1> QED BY <1>1, LinkedIsChain DEF Holds

LEMMA EmptyChain ==
    ASSUME NEW m
    PROVE  Chain(<<>>, 0, EmptyList, m) /\ NodesOf(<<>>, 0) = {}
<1>1. <<>> \in [1 .. 0 -> Nodes] /\ 1 .. 0 = {}
  OBVIOUS
<1> QED BY <1>1 DEF Chain, EmptyList, NodesOf

LEMMA InitInv == Init => IInv
<1> SUFFICES ASSUME Init PROVE IInv
  OBVIOUS
<1>1. TypeInv
  BY DEF Init, TypeInv, NodeMem, Answer
<1>2. Holds(<<>>, 0)
  BY EmptyChain DEF Init, Holds
<1> QED BY <1>1, <1>2 DEF IInv

(* A step that starts no walk, leaves the list's nodes alive and their     *)
(* links alone keeps the chain.                                            *)
LEMMA ChainKept ==
    ASSUME NEW s, NEW n, Holds(s, n), pc = "idle", UNCHANGED <<list, walk>>,
           NodesOf(s, n) \subseteq live',
           \A x \in NodesOf(s, n) : mem'[x] = mem[x]
    PROVE  Holds(s, n)'
<1>1. Chain(s, n, list', mem')
  BY ChainFrame DEF Holds, walk
<1> QED BY <1>1 DEF Holds, walk

(* kobject_node_create.                                                    *)
LEMMA CreateStep ==
    ASSUME NEW s, NEW n, Holds(s, n), TypeInv, NEW id \in Ids, NEW x \in Nodes \ live,
           CreateAt(id, x)
    PROVE  /\ Holds(s, n)' /\ TypeInv'
           /\ mem' = [mem EXCEPT ![x] = [id |-> id, next |-> Null]]
<1>1. mem' = [m \in Nodes |-> IF m = x THEN [id |-> id, next |-> Null] ELSE mem[m]]
  <2>1. DOMAIN mem \cup {x} = Nodes
    BY DEF TypeInv, NodeMem
  <2> QED BY <2>1 DEF CreateAt
<1>2. mem' = [mem EXCEPT ![x] = [id |-> id, next |-> Null]] /\ mem' \in NodeMem
  BY <1>1 DEF TypeInv, NodeMem
<1>3. pc = "idle" /\ live' = live \cup {x} /\ UNCHANGED <<list, walk>> /\ result'.op = "create"
  BY DEF CreateAt, Answer
<1>4. \A y \in NodesOf(s, n) : y # x /\ y \in Nodes
  BY DEF Holds, TypeInv
<1>5. Holds(s, n)'
  BY <1>1, <1>3, <1>4, ChainKept DEF Holds
<1>6. TypeInv'
  BY <1>2, <1>3 DEF TypeInv, walk
<1> QED BY <1>2, <1>5, <1>6

(* kobject_list_append, when it accepts the node.                          *)
LEMMA AppendStep ==
    ASSUME NEW s, NEW n, Holds(s, n), TypeInv, NEW x \in live \ NodesOf(s, n),
           kobject_list_append(x), ~ AppendRefused(x)
    PROVE  /\ Holds(Extended(s, n, x), n + 1)' /\ TypeInv'
           /\ \A y \in Nodes : mem'[y].id = mem[y].id
           /\ \A y \in Nodes \ NodesOf(s, n) : mem'[y] = mem[y]
<1> DEFINE t == Extended(s, n, x)
<1>1. /\ Chain(s, n, list, mem) /\ mem \in NodeMem /\ n \in Nat /\ s \in [1 .. n -> Nodes]
      /\ x \in Nodes \ NodesOf(s, n) /\ Null \notin Nodes
      /\ list.head = IF n = 0 THEN Null ELSE s[1]
  BY KObjectAssumption DEF Holds, TypeInv, Chain
<1>2. mem[x].next = Null
  BY DEF AppendRefused
<1>3. list.head = Null <=> n = 0
  BY <1>1
<1>4. Appended(x, n, list, mem, list', mem')
  BY <1>3 DEF kobject_list_append, Appended
<1>5. /\ Chain(t, n + 1, list', mem')
      /\ mem' \in NodeMem /\ \A y \in Nodes : mem'[y].id = mem[y].id
      /\ \A y \in Nodes \ NodesOf(s, n) : mem'[y] = mem[y]
  <2>1. /\ mem \in NodeMem /\ Chain(s, n, list, mem) /\ x \in Nodes \ NodesOf(s, n)
        /\ mem[x].next = Null
    BY <1>1, <1>2
  <2> HIDE DEF t
  <2>2. /\ Chain(Extended(s, n, x), n + 1, list', mem')
        /\ mem' \in NodeMem /\ \A y \in Nodes : mem'[y].id = mem[y].id
        /\ \A y \in Nodes \ NodesOf(s, n) : mem'[y] = mem[y]
    BY <2>1, <1>4, ChainAppend
  <2> QED BY <2>2 DEF t
<1>6. pc = "idle" /\ UNCHANGED <<live, walk>> /\ result'.op = "append"
  BY DEF kobject_list_append, Answer
<1>7. NodesOf(t, n + 1) \subseteq live
  <2>1. ASSUME NEW k \in 1 .. n + 1 PROVE t[k] \in live
    <3>1. CASE k <= n
      BY <1>1, <3>1 DEF Holds, NodesOf, Extended
    <3>2. CASE ~ (k <= n)
      BY <3>2 DEF Extended
    <3> QED BY <3>1, <3>2
  <2> HIDE DEF t
  <2> QED BY <2>1 DEF NodesOf
<1> HIDE DEF t
<1>8. Holds(t, n + 1)'
  BY <1>5, <1>6, <1>7 DEF Holds, walk
<1>9. TypeInv'
  BY <1>5, <1>6 DEF TypeInv, walk
<1> QED BY <1>5, <1>8, <1>9 DEF t


(* Where a walk stands.                                                    *)
LEMMA WalkPlace ==
    ASSUME NEW s, NEW n, Holds(s, n), pc # "idle"
    PROVE  /\ n \in Nat /\ s \in [1 .. n -> Nodes] /\ Null \notin Nodes
           /\ \E k \in 1 .. n + 1 :
                /\ cursor = IF k = n + 1 THEN Null ELSE s[k]
                /\ prev = IF k = 1 THEN Null ELSE s[k - 1]
                /\ \A j \in 1 .. k - 1 : mem[s[j]].id # arg
<1>1. n \in Nat /\ s \in [1 .. n -> Nodes] /\ Null \notin Nodes
  BY KObjectAssumption DEF Holds, Chain
<1>2. PICK k \in 1 .. n + 1 : WalkAt(s, n, k)
  BY DEF Holds
<1>3. cursor = IF k = n + 1 THEN Null ELSE s[k]
  <2>1. k \in 1 .. n <=> k # n + 1
    BY <1>1
  <2> QED BY <1>2, <2>1 DEF WalkAt, At
<1>4. prev = IF k = 1 THEN Null ELSE s[k - 1]
  <2>1. k - 1 \in 1 .. n <=> k # 1
    BY <1>1
  <2> QED BY <1>2, <2>1 DEF WalkAt, At
<1> QED BY <1>1, <1>2, <1>3, <1>4 DEF WalkAt

(* The loop of kobject_list_find_by_id and kobject_list_remove_by_id.      *)
LEMMA AdvanceStep ==
    ASSUME NEW s, NEW n, Holds(s, n), TypeInv, pc # "idle", Advance
    PROVE  Holds(s, n)' /\ TypeInv'
<1>1. /\ cursor # Null /\ prev' = cursor /\ cursor' = mem[cursor].next
      /\ mem[cursor].id # arg /\ UNCHANGED <<live, mem, list, pc, arg, result>>
  BY DEF Advance, Match
<1>2. n \in Nat /\ s \in [1 .. n -> Nodes] /\ Null \notin Nodes
  BY WalkPlace
<1>3. PICK k \in 1 .. n + 1 :
            /\ cursor = IF k = n + 1 THEN Null ELSE s[k]
            /\ \A j \in 1 .. k - 1 : mem[s[j]].id # arg
  BY WalkPlace
<1>4. k # n + 1 /\ cursor = s[k]
  BY <1>1, <1>3
<1>5. /\ k \in 1 .. n /\ k + 1 \in 1 .. n + 1 /\ (k + 1) - 1 = k
      /\ (k + 1 \in 1 .. n <=> k # n)
  BY <1>2, <1>4
<1>6. cursor' = At(s, n, k + 1) /\ prev' = At(s, n, (k + 1) - 1)
  <2>1. mem[s[k]].next = IF k = n THEN Null ELSE s[k + 1]
    BY <1>5 DEF Holds, Chain
  <2> QED BY <1>1, <1>4, <1>5, <2>1 DEF At
<1>7. \A j \in 1 .. (k + 1) - 1 : mem[s[j]].id # arg
  <2>1. \A j \in 1 .. k : j \in 1 .. k - 1 \/ j = k
    BY <1>2, <1>5
  <2> QED BY <1>1, <1>3, <1>4, <1>5, <2>1
<1>8. WalkAt(s, n, k + 1)'
  BY <1>1, <1>6, <1>7 DEF WalkAt
<1>9. Chain(s, n, list', mem') /\ NodesOf(s, n) \subseteq live' /\ pc' # "idle"
  BY <1>1 DEF Holds
<1>10. Holds(s, n)'
  BY <1>5, <1>8, <1>9 DEF Holds
<1> QED BY <1>1, <1>10 DEF TypeInv

(* The end of a walk that leaves the list as it is.                        *)
LEMMA LeaveStep ==
    ASSUME NEW s, NEW n, Holds(s, n), TypeInv, NEW op \in {"find", "remove"},
           NEW v, NEW x, Leave(op, v, x), UNCHANGED <<live, mem, list>>
    PROVE  Holds(s, n)' /\ TypeInv'
<1>1. /\ pc' = "idle" /\ arg' = Null /\ cursor' = Null /\ prev' = Null /\ result'.op = op
  BY DEF Leave, Answer
<1>2. Chain(s, n, list', mem') /\ NodesOf(s, n) \subseteq live'
  BY DEF Holds
<1> QED BY <1>1, <1>2 DEF Holds, TypeInv

(* kobject_list_remove_by_id at a match.                                   *)
Unlink ==
    /\ pc = "remove" /\ Match
    /\ mem' = UnlinkedMem /\ list' = UnlinkedList
    /\ Leave("remove", 1, cursor)
    /\ UNCHANGED live

LEMMA UnlinkStep ==
    ASSUME NEW s, NEW n, Holds(s, n), TypeInv, Unlink
    PROVE  /\ TypeInv'
           /\ \A y \in Nodes : mem'[y].id = mem[y].id
           /\ \A y \in Nodes \ NodesOf(s, n) : mem'[y] = mem[y]
           /\ \E k \in 1 .. n :
                /\ cursor = s[k] /\ mem[s[k]].id = arg /\ mem'[s[k]].next = Null
                /\ \A j \in 1 .. k - 1 : mem[s[j]].id # arg
                /\ Holds(Shortened(s, n, k), n - 1)'
<1>1. /\ n \in Nat /\ s \in [1 .. n -> Nodes] /\ Null \notin Nodes
      /\ Chain(s, n, list, mem) /\ mem \in NodeMem /\ pc # "idle"
      /\ cursor # Null /\ mem[cursor].id = arg
  BY WalkPlace DEF Holds, TypeInv, Unlink, Match
<1>2. PICK k \in 1 .. n + 1 :
            /\ cursor = IF k = n + 1 THEN Null ELSE s[k]
            /\ prev = IF k = 1 THEN Null ELSE s[k - 1]
            /\ \A j \in 1 .. k - 1 : mem[s[j]].id # arg
  BY <1>1, WalkPlace
<1>3. k \in 1 .. n /\ cursor = s[k]
  BY <1>1, <1>2
<1>4. list' = UnlinkedList /\ mem' = UnlinkedMem
  BY DEF Unlink
<1>5. /\ Chain(Shortened(s, n, k), n - 1, list', mem')
      /\ mem' \in NodeMem /\ \A y \in Nodes : mem'[y].id = mem[y].id
      /\ mem'[s[k]].next = Null
      /\ \A y \in Nodes \ NodesOf(s, n) : mem'[y] = mem[y]
  <2>1. /\ Chain(s, n, list, mem) /\ mem \in NodeMem /\ k \in 1 .. n /\ cursor = s[k]
        /\ prev = IF k = 1 THEN Null ELSE s[k - 1]
    BY <1>1, <1>2, <1>3
  <2> QED BY <1>4, <2>1, ChainRemove
<1>6. NodesOf(Shortened(s, n, k), n - 1) \subseteq live
  <2>1. ASSUME NEW j \in 1 .. n - 1 PROVE Shortened(s, n, k)[j] \in NodesOf(s, n)
    <3>1. Shortened(s, n, k)[j] = IF j < k THEN s[j] ELSE s[j + 1]
      BY DEF Shortened
    <3>2. j \in 1 .. n /\ j + 1 \in 1 .. n
      BY <1>1
    <3> QED BY <3>1, <3>2 DEF NodesOf
  <2>2. NodesOf(Shortened(s, n, k), n - 1) \subseteq NodesOf(s, n)
    BY <2>1 DEF NodesOf
  <2> QED BY <2>2 DEF Holds
<1>7. /\ pc' = "idle" /\ arg' = Null /\ cursor' = Null /\ prev' = Null /\ result'.op = "remove"
      /\ live' = live
  BY DEF Unlink, Leave, Answer
<1>8. Holds(Shortened(s, n, k), n - 1)'
  BY <1>5, <1>6, <1>7 DEF Holds
<1>9. TypeInv'
  BY <1>5, <1>7 DEF TypeInv
<1> QED BY <1>1, <1>2, <1>3, <1>5, <1>8, <1>9


(* The calls that leave the chain as it is.                                *)
LEMMA QuietStep ==
    ASSUME NEW s, NEW n, Holds(s, n), TypeInv,
           \/ \E id \in Ids : CreateFails(id)
           \/ \E x \in {Null} \cup (live \ Linked) : kobject_node_destroy(x)
           \/ \E x \in Nodes \cup {Null} : kobject_list_append(x) /\ AppendRefused(x)
           \/ kobject_list_count
    PROVE  Holds(s, n)' /\ TypeInv' /\ mem' = mem
<1>1. CASE \E x \in {Null} \cup (live \ Linked) : kobject_node_destroy(x)
  <2>1. PICK x \in {Null} \cup (live \ Linked) : kobject_node_destroy(x)
    BY <1>1
  <2>2. /\ pc = "idle" /\ live' = live \ {x} /\ UNCHANGED <<mem, list, walk>>
        /\ result'.op = "destroy"
    BY <2>1 DEF kobject_node_destroy, Answer
  <2>3. x \notin NodesOf(s, n)
    BY LinkedNodes, KObjectAssumption DEF Holds, TypeInv
  <2>4. Holds(s, n)'
    BY <2>2, <2>3, ChainKept DEF Holds
  <2> QED BY <2>2, <2>4 DEF TypeInv, walk
<1>2. CASE /\ pc = "idle" /\ UNCHANGED <<live, mem, list, walk>>
           /\ result'.op \in {"create", "append", "count"}
  <2>1. Holds(s, n)'
    BY <1>2, ChainKept DEF Holds
  <2> QED BY <1>2, <2>1 DEF TypeInv, walk
<1>3. ASSUME NEW id \in Ids, CreateFails(id)
      PROVE  pc = "idle" /\ UNCHANGED <<live, mem, list, walk>> /\ result'.op = "create"
  BY <1>3 DEF CreateFails, Answer
<1>4. ASSUME NEW x, kobject_list_append(x), AppendRefused(x)
      PROVE  pc = "idle" /\ UNCHANGED <<live, mem, list, walk>> /\ result'.op = "append"
  <2>1. /\ pc = "idle" /\ UNCHANGED <<live, walk>>
        /\ result' = Answer("append", x, 0, Null) /\ UNCHANGED <<mem, list>>
    BY <1>4, Zenon DEF kobject_list_append
  <2> QED BY <2>1 DEF Answer
<1>5. kobject_list_count =>
        pc = "idle" /\ UNCHANGED <<live, mem, list, walk>> /\ result'.op = "count"
  BY DEF kobject_list_count, Answer
<1> QED BY <1>1, <1>2, <1>3, <1>4, <1>5

LEMMA EnterStep ==
    ASSUME NEW s, NEW n, Holds(s, n), TypeInv, NEW id \in Ids, NEW op \in {"find", "remove"},
           Enter(op, id)
    PROVE  Holds(s, n)' /\ TypeInv'
<1>1. /\ pc' = op /\ arg' = id /\ cursor' = list.head /\ prev' = Null
      /\ UNCHANGED <<live, mem, list, result>>
  BY DEF Enter
<1>2. n \in Nat /\ list.head = IF n = 0 THEN Null ELSE s[1]
  BY DEF Holds, Chain
<1>3. 1 \in 1 .. n + 1 /\ ~ (1 - 1 \in 1 .. n) /\ (1 \in 1 .. n <=> n # 0) /\ 1 .. 1 - 1 = {}
  BY <1>2
<1>4. WalkAt(s, n, 1)'
  BY <1>1, <1>2, <1>3 DEF WalkAt, At
<1>5. Chain(s, n, list', mem') /\ NodesOf(s, n) \subseteq live' /\ pc' # "idle"
  BY <1>1 DEF Holds
<1> QED BY <1>1, <1>3, <1>4, <1>5 DEF Holds, TypeInv

LEMMA NewListStep ==
    ASSUME NEW s, NEW n, Holds(s, n), TypeInv, kobject_list_init
    PROVE  Holds(<<>>, 0)' /\ TypeInv'
<1>1. pc = "idle" /\ list' = EmptyList /\ UNCHANGED <<live, mem, walk, result>>
  BY DEF kobject_list_init
<1>2. Chain(<<>>, 0, list', mem') /\ NodesOf(<<>>, 0) = {}
  BY <1>1, EmptyChain
<1> QED BY <1>1, <1>2 DEF Holds, TypeInv, walk

(* Next, action by action, for careful callers.                            *)
LEMMA Steps ==
    ASSUME ~ CallersReappend, NEW s, NEW n, Holds(s, n), TypeInv, Next
    PROVE  \/ \E id \in Ids : \E x \in Nodes \ live : CreateAt(id, x)
           \/ \E id \in Ids : CreateFails(id)
           \/ \E x \in {Null} \cup (live \ Linked) : kobject_node_destroy(x)
           \/ \E x \in Nodes \cup {Null} : kobject_list_append(x) /\ AppendRefused(x)
                                           /\ x \in {Null} \cup (live \ Linked)
           \/ kobject_list_count
           \/ \E x \in live \ NodesOf(s, n) : kobject_list_append(x) /\ ~ AppendRefused(x)
           \/ kobject_list_init
           \/ \E id \in Ids : \E op \in {"find", "remove"} : Enter(op, id)
           \/ pc # "idle" /\ Advance
           \/ /\ pc = "find" /\ (cursor = Null \/ Match)
              /\ Leave("find", IF Match THEN 1 ELSE 0, cursor) /\ UNCHANGED <<live, mem, list>>
           \/ Unlink
           \/ /\ pc = "remove" /\ cursor = Null
              /\ Leave("remove", 0, Null) /\ UNCHANGED <<live, mem, list>>
<1>1. ASSUME NEW id \in Ids,
             kobject_node_create(id) \/ Enter("find", id) \/ Enter("remove", id)
      PROVE  \/ \E x \in Nodes \ live : CreateAt(id, x)
             \/ CreateFails(id)
             \/ \E op \in {"find", "remove"} : Enter(op, id)
  BY <1>1 DEF kobject_node_create
<1>2. ASSUME NEW x \in {Null} \cup (IF CallersReappend THEN live ELSE live \ Linked),
             kobject_list_append(x)
      PROVE  \/ /\ x \in Nodes \cup {Null} /\ kobject_list_append(x) /\ AppendRefused(x)
                /\ x \in {Null} \cup (live \ Linked)
             \/ x \in live \ NodesOf(s, n) /\ kobject_list_append(x) /\ ~ AppendRefused(x)
  <2>1. x \in {Null} \cup (live \ NodesOf(s, n)) /\ live \subseteq Nodes
    BY LinkedNodes DEF TypeInv
  <2>2. x = Null => AppendRefused(x)
    BY DEF AppendRefused
  <2> QED BY <1>2, <2>1, <2>2, LinkedNodes
<1>3. FindStep => \/ pc # "idle" /\ Advance
                  \/ /\ pc = "find" /\ (cursor = Null \/ Match)
                     /\ Leave("find", IF Match THEN 1 ELSE 0, cursor)
                     /\ UNCHANGED <<live, mem, list>>
  BY DEF FindStep
<1>4. RemoveStep => \/ pc # "idle" /\ Advance
                    \/ Unlink
                    \/ /\ pc = "remove" /\ cursor = Null
                       /\ Leave("remove", 0, Null) /\ UNCHANGED <<live, mem, list>>
  BY DEF RemoveStep, Unlink
<1> QED BY <1>1, <1>2, <1>3, <1>4 DEF Next


LEMMA NextInv == ~ CallersReappend /\ IInv /\ [Next]_vars => IInv'
<1> SUFFICES ASSUME ~ CallersReappend, IInv, [Next]_vars PROVE IInv'
  OBVIOUS
<1>1. PICK s, n : Holds(s, n)
  BY DEF IInv
<1>2. TypeInv
  BY DEF IInv
<1>3. CASE UNCHANGED vars
  <2>1. Holds(s, n)' /\ TypeInv'
    BY <1>1, <1>2, <1>3 DEF vars, Holds, WalkAt, TypeInv
  <2> QED BY <2>1 DEF IInv
<1>4. CASE Next
  <2>1. ASSUME NEW id \in Ids, NEW x \in Nodes \ live, CreateAt(id, x) PROVE IInv'
    BY <1>1, <1>2, <2>1, CreateStep DEF IInv
  <2>2. CASE \/ \E id \in Ids : CreateFails(id)
             \/ \E x \in {Null} \cup (live \ Linked) : kobject_node_destroy(x)
             \/ \E x \in Nodes \cup {Null} : kobject_list_append(x) /\ AppendRefused(x)
             \/ kobject_list_count
    BY <1>1, <1>2, <2>2, QuietStep DEF IInv
  <2>3. ASSUME NEW x \in live \ NodesOf(s, n), kobject_list_append(x), ~ AppendRefused(x)
        PROVE  IInv'
    BY <1>1, <1>2, <2>3, AppendStep DEF IInv
  <2>4. CASE kobject_list_init
    BY <1>1, <1>2, <2>4, NewListStep DEF IInv
  <2>5. ASSUME NEW id \in Ids, NEW op \in {"find", "remove"}, Enter(op, id) PROVE IInv'
    BY <1>1, <1>2, <2>5, EnterStep DEF IInv
  <2>6. CASE pc # "idle" /\ Advance
    BY <1>1, <1>2, <2>6, AdvanceStep DEF IInv
  <2>7. CASE Leave("find", IF Match THEN 1 ELSE 0, cursor) /\ UNCHANGED <<live, mem, list>>
    <3>1. PICK v : Leave("find", v, cursor)
      BY <2>7
    <3> QED BY <1>1, <1>2, <2>7, <3>1, LeaveStep DEF IInv
  <2>8. CASE Unlink
    <3>1. TypeInv' /\ \E k \in 1 .. n : Holds(Shortened(s, n, k), n - 1)'
      BY <1>1, <1>2, <2>8, UnlinkStep
    <3> QED BY <3>1 DEF IInv
  <2>9. CASE Leave("remove", 0, Null) /\ UNCHANGED <<live, mem, list>>
    BY <1>1, <1>2, <2>9, LeaveStep DEF IInv
  <2> QED BY <1>1, <1>2, <1>4, <2>1, <2>2, <2>3, <2>4, <2>5, <2>6, <2>7, <2>8, <2>9, Steps
<1> QED BY <1>3, <1>4

(* With callers that append only nodes the list does not reach, the list   *)
(* of kobject.c stays a chain of live nodes and a walk of                  *)
(* kobject_list_find_by_id or kobject_list_remove_by_id stays on it.       *)
THEOREM ListInvariant ==
    ASSUME ~ CallersReappend
    PROVE  Spec => []IInv
<1>1. IInv /\ [Next]_vars => IInv'
  BY NextInv
<1> QED BY <1>1, InitInv, PTL DEF Spec

(* The list invariants of Stage 11D hold for every set of nodes and ids,   *)
(* after any order of creating, appending, finding, removing, destroying   *)
(* and reusing nodes and of re-initialising the list: the chain ends after *)
(* count distinct live nodes at tail, and a walk has passed no match.      *)
THEOREM ListStaysIntact ==
    ASSUME ~ CallersReappend
    PROVE  Spec => []ListIntact
<1>1. IInv => ListIntact
  <2> SUFFICES ASSUME IInv PROVE ListIntact
    OBVIOUS
  <2>1. PICK s, n : Holds(s, n)
    BY DEF IInv
  <2>2. /\ Chain(s, n, list, mem) /\ NodesOf(s, n) \subseteq live /\ Linked = NodesOf(s, n)
        /\ n \in Nat /\ s \in [1 .. n -> Nodes] /\ Null \notin Nodes
        /\ list = [head |-> IF n = 0 THEN Null ELSE s[1],
                   tail |-> IF n = 0 THEN Null ELSE s[n], count |-> n]
    BY <2>1, LinkedNodes, KObjectAssumption DEF Holds, Chain
  <2>3. PICK N \in Nat : N = Cardinality(Nodes) /\ n <= N /\ Cardinality(Linked) = n
    BY <2>2, ChainLength
  <2>4. Hop = [k \in 0 .. N |-> IF k < n THEN s[k + 1] ELSE Null]
    <3>1. Hop = HopOf(list, mem)
      BY DEF Hop, HopOf
    <3> QED BY <2>2, <2>3, <3>1, HopIsChain
  <2>5. \A k \in 1 .. n : s[k] \in live
    BY <2>2 DEF NodesOf
  <2>6. /\ cursor \in live \cup {Null} /\ prev \in live \cup {Null}
    <3>1. CASE pc = "idle"
      BY <2>1, <3>1 DEF Holds
    <3>2. CASE pc # "idle"
      <4>1. PICK k \in 1 .. n + 1 : cursor = At(s, n, k) /\ prev = At(s, n, k - 1)
        BY <2>1, <3>2 DEF Holds, WalkAt
      <4> QED BY <2>5, <4>1 DEF At
    <3> QED BY <3>1, <3>2
  <2>7. list \in [head : live \cup {Null}, tail : live \cup {Null}, count : 0 .. Cardinality(Nodes)]
    <3>1. n # 0 => s[1] \in live /\ s[n] \in live
      BY <2>2, <2>5
    <3> QED BY <2>2, <2>3, <3>1
  <2>8. TypeOK
    BY <2>6, <2>7 DEF IInv, TypeInv, TypeOK, NodeMem
  <2>9. ListWellFormed
    <3>1. Hop[N] = Null
      <4>1. N \in 0 .. N /\ ~ (N < n)
        BY <2>2, <2>3
      <4> QED BY <2>4, <4>1
    <3>2. n # 0 => Hop[n - 1] = s[n]
      BY <2>2, <2>3, <2>4
    <3> QED BY <2>2, <2>3, <3>1, <3>2 DEF ListWellFormed
  <2>10. ASSUME pc # "idle"
         PROVE  \E k \in DOMAIN Hop :
                    /\ cursor = Hop[k]
                    /\ prev = IF k = 0 THEN Null ELSE Hop[k - 1]
                    /\ \A j \in 0 .. k - 1 : Hop[j] # Null /\ mem[Hop[j]].id # arg
    <3>1. PICK k \in 1 .. n + 1 :
            /\ cursor = IF k = n + 1 THEN Null ELSE s[k]
            /\ prev = IF k = 1 THEN Null ELSE s[k - 1]
            /\ \A j \in 1 .. k - 1 : mem[s[j]].id # arg
      BY <2>1, <2>10, WalkPlace
    <3>2. k - 1 \in 0 .. N /\ DOMAIN Hop = 0 .. N
      BY <2>2, <2>3, <2>4, <3>1
    <3>3. cursor = Hop[k - 1]
      <4>1. (k - 1 < n <=> k # n + 1) /\ (k - 1) + 1 = k
        BY <2>2, <3>1
      <4>2. Hop[k - 1] = IF k - 1 < n THEN s[(k - 1) + 1] ELSE Null
        BY <2>4, <3>2
      <4> QED BY <3>1, <4>1, <4>2
    <3>4. prev = IF k - 1 = 0 THEN Null ELSE Hop[(k - 1) - 1]
      <4>1. CASE k = 1
        BY <3>1, <4>1
      <4>2. CASE k # 1
        <5>1. (k - 1) - 1 \in 0 .. N /\ (k - 1) - 1 < n /\ ((k - 1) - 1) + 1 = k - 1 /\ k - 1 # 0
          BY <2>2, <2>3, <3>1, <4>2
        <5> QED BY <2>4, <3>1, <4>2, <5>1
      <4> QED BY <4>1, <4>2
    <3>5. ASSUME NEW j \in 0 .. (k - 1) - 1 PROVE Hop[j] # Null /\ mem[Hop[j]].id # arg
      <4>1. j \in 0 .. N /\ j < n /\ j + 1 \in 1 .. k - 1 /\ j + 1 \in 1 .. n
        BY <2>2, <2>3, <3>1
      <4>2. Hop[j] = s[j + 1] /\ s[j + 1] \in Nodes
        BY <2>2, <2>4, <4>1
      <4> QED BY <2>2, <3>1, <4>1, <4>2
    <3> QED BY <3>2, <3>3, <3>4, <3>5
  <2> QED BY <2>8, <2>9, <2>10 DEF ListIntact, WalkPassedNoMatch
<1> QED BY <1>1, ListInvariant, PTL


-----------------------------------------------------------------------------
(* The walks end.                                                          *)
LEMMA FromPlace ==
    ASSUME NEW s, NEW n, Holds(s, n), NEW k \in 1 .. n + 1
    PROVE  NodesFrom(IF k = n + 1 THEN Null ELSE s[k]) = {s[j] : j \in k .. n}
<1> DEFINE c == IF k = n + 1 THEN Null ELSE s[k]
<1>1. /\ n \in Nat /\ s \in [1 .. n -> Nodes] /\ Null \notin Nodes
      /\ \A i, j \in 1 .. n : s[i] = s[j] => i = j
  BY KObjectAssumption DEF Holds, Chain
<1>2. PICK N \in Nat : N = Cardinality(Nodes) /\ n <= N
  BY ChainLength DEF Holds
<1>3. PICK h : h = Hop /\ h = [i \in 0 .. N |-> IF i < n THEN s[i + 1] ELSE Null]
  <2>1. Hop = HopOf(list, mem)
    BY DEF Hop, HopOf
  <2> QED BY <1>2, <2>1, HopIsChain DEF Holds
<1>4. NodesFrom(c) = {x \in NodesOf(s, n) :
                        \E i, j \in 0 .. N : i <= j /\ h[i] = c /\ h[j] = x}
  BY <1>3, LinkedNodes DEF NodesFrom
<1>5. ASSUME NEW x \in NodesOf(s, n), NEW i \in 0 .. N, NEW j \in 0 .. N,
             i <= j, h[i] = c, h[j] = x
      PROVE  x \in {s[q] : q \in k .. n}
  <2>1. x \in Nodes
    BY <1>1 DEF NodesOf
  <2>2. j < n /\ x = s[j + 1]
    BY <1>1, <1>3, <1>5, <2>1
  <2>3. i < n /\ h[i] = s[i + 1] /\ i + 1 \in 1 .. n /\ j + 1 \in 1 .. n
    BY <1>1, <1>2, <1>3, <1>5, <2>2
  <2>4. k # n + 1 /\ k \in 1 .. n /\ s[i + 1] = s[k]
    BY <1>1, <1>5, <2>3
  <2>5. k = i + 1
    BY <1>1, <2>3, <2>4
  <2>6. j + 1 \in k .. n
    BY <1>1, <1>5, <2>3, <2>5
  <2> QED BY <2>2, <2>6
<1>6. ASSUME NEW q \in k .. n
      PROVE  /\ s[q] \in NodesOf(s, n)
             /\ \E i, j \in 0 .. N : i <= j /\ h[i] = c /\ h[j] = s[q]
  <2>1. q \in 1 .. n /\ k # n + 1 /\ k \in 1 .. n
    BY <1>1
  <2>2. k - 1 \in 0 .. N /\ q - 1 \in 0 .. N /\ k - 1 <= q - 1 /\ k - 1 < n /\ q - 1 < n
    BY <1>1, <1>2, <2>1
  <2>3. h[k - 1] = s[(k - 1) + 1] /\ h[q - 1] = s[(q - 1) + 1]
    BY <1>3, <2>2
  <2>4. (k - 1) + 1 = k /\ (q - 1) + 1 = q
    BY <2>1
  <2>5. h[k - 1] = c /\ h[q - 1] = s[q]
    BY <2>1, <2>3, <2>4
  <2> QED BY <2>1, <2>2, <2>5 DEF NodesOf
<1> HIDE DEF c
<1>7. NodesFrom(c) = {s[q] : q \in k .. n}
  BY <1>4, <1>5, <1>6
<1> QED BY <1>7 DEF c

(* A step that stays in the loop moves the cursor one place on.            *)
LEMMA AdvanceProgress ==
    ASSUME NEW s, NEW n, Holds(s, n), pc # "idle", Advance
    PROVE  /\ NodesFrom(cursor)' \subseteq NodesFrom(cursor)
           /\ NodesFrom(cursor)' # NodesFrom(cursor)
<1>1. /\ cursor # Null /\ cursor' = mem[cursor].next /\ UNCHANGED <<mem, list>>
  BY DEF Advance
<1>2. /\ n \in Nat /\ s \in [1 .. n -> Nodes] /\ Null \notin Nodes
      /\ \A i, j \in 1 .. n : s[i] = s[j] => i = j
  BY KObjectAssumption DEF Holds, Chain
<1>3. PICK k \in 1 .. n + 1 : cursor = IF k = n + 1 THEN Null ELSE s[k]
  BY WalkPlace
<1>4. k \in 1 .. n /\ k # n + 1 /\ k + 1 \in 1 .. n + 1
  BY <1>1, <1>2, <1>3
<1>5. cursor' = IF k + 1 = n + 1 THEN Null ELSE s[k + 1]
  <2>1. mem[s[k]].next = IF k = n THEN Null ELSE s[k + 1]
    BY <1>4 DEF Holds, Chain
  <2> QED BY <1>1, <1>2, <1>3, <1>4, <2>1
<1>6. NodesFrom(cursor) = {s[j] : j \in k .. n}
  BY <1>3, FromPlace
<1>7. NodesFrom(cursor') = {s[j] : j \in k + 1 .. n}
  BY <1>4, <1>5, FromPlace
<1>8. NodesFrom(cursor)' = NodesFrom(cursor')
  BY <1>1 DEF NodesFrom, Linked, Hop
<1>9. s[k] \in NodesFrom(cursor) /\ s[k] \notin NodesFrom(cursor')
  BY <1>2, <1>4, <1>6, <1>7
<1>10. \A j \in k + 1 .. n : j \in k .. n
  BY <1>2, <1>4
<1> QED BY <1>6, <1>7, <1>8, <1>9, <1>10

(* Lookup and removal are bounded by the length of the list for careful    *)
(* callers: a step leaves a node behind and never comes back to it.        *)
THEOREM ListWalksEnd ==
    ASSUME ~ CallersReappend
    PROVE  Spec => WalkMakesProgress
<1>1. IInv /\ [Next]_vars =>
        [pc # "idle" /\ pc' # "idle" =>
            /\ NodesFrom(cursor)' \subseteq NodesFrom(cursor)
            /\ NodesFrom(cursor)' # NodesFrom(cursor)]_vars
  <2> SUFFICES ASSUME IInv, Next, pc # "idle", pc' # "idle"
               PROVE  /\ NodesFrom(cursor)' \subseteq NodesFrom(cursor)
                      /\ NodesFrom(cursor)' # NodesFrom(cursor)
    OBVIOUS
  <2>1. PICK s, n : Holds(s, n)
    BY DEF IInv
  <2>2. Advance
    BY DEF Next, kobject_node_create, CreateAt, CreateFails, Enter, kobject_node_destroy,
           kobject_list_append, kobject_list_init, kobject_list_count, FindStep, RemoveStep,
           Leave
  <2> QED BY <2>1, <2>2, AdvanceProgress
<1> QED BY <1>1, ListInvariant, PTL DEF Spec, WalkMakesProgress

-----------------------------------------------------------------------------
(* The refinement.  The sequence that the abstract list holds is the       *)
(* chain.                                                                  *)
SeqOf(l, m) == [k \in 1 .. Cardinality(LinkedOf(l, m)) |-> HopOf(l, m)[k - 1]]

LEMMA ChainIsSeq ==
    ASSUME NEW s, NEW n, NEW l, NEW m, Chain(s, n, l, m)
    PROVE  SeqOf(l, m) = s /\ s \in Seq(Nodes) /\ Len(s) = n
<1>1. n \in Nat /\ s \in [1 .. n -> Nodes]
  BY DEF Chain
<1>2. PICK N \in Nat : N = Cardinality(Nodes) /\ n <= N /\ Cardinality(LinkedOf(l, m)) = n
  BY ChainLength, LinkedIsChain
<1>3. HopOf(l, m) = [k \in 0 .. N |-> IF k < n THEN s[k + 1] ELSE Null]
  BY <1>2, HopIsChain
<1>4. SeqOf(l, m) = [k \in 1 .. n |-> HopOf(l, m)[k - 1]]
  BY <1>2 DEF SeqOf
<1>5. ASSUME NEW k \in 1 .. n PROVE HopOf(l, m)[k - 1] = s[k]
  <2>1. k - 1 \in 0 .. N /\ k - 1 < n /\ (k - 1) + 1 = k
    BY <1>1, <1>2
  <2> QED BY <1>3, <2>1
<1>6. SeqOf(l, m) = [k \in 1 .. n |-> s[k]]
  BY <1>4, <1>5
<1>7. SeqOf(l, m) = s
  BY <1>1, <1>6
<1> QED BY <1>1, <1>7

LEMMA ListSeqNow ==
    ASSUME NEW s, NEW n, Holds(s, n)
    PROVE  ListSeq = s /\ Linked = NodesOf(s, n) /\ s \in Seq(Nodes) /\ Len(s) = n
           /\ n \in Nat /\ s \in [1 .. n -> Nodes] /\ DOMAIN s = 1 .. n
<1>1. Chain(s, n, list, mem)
  BY DEF Holds
<1>2. ListSeq = SeqOf(list, mem)
  BY DEF ListSeq, SeqOf, Linked, LinkedOf, Hop, HopOf
<1>3. n \in Nat /\ s \in [1 .. n -> Nodes]
  BY <1>1 DEF Chain
<1> QED BY <1>1, <1>2, <1>3, ChainIsSeq, LinkedNodes

LEMMA ListSeqNext ==
    ASSUME NEW s, NEW n, Holds(s, n)'
    PROVE  ListSeq' = s /\ Linked' = NodesOf(s, n)
<1>1. Chain(s, n, list', mem')
  BY DEF Holds
<1>2. ListSeq' = SeqOf(list', mem') /\ Linked' = LinkedOf(list', mem')
  BY DEF ListSeq, SeqOf, Linked, LinkedOf, Hop, HopOf
<1> QED BY <1>1, <1>2, ChainIsSeq, LinkedIsChain

(* The two ways a chain changes are Append and RemoveAt.                   *)
LEMMA ExtendedIsAppend ==
    ASSUME NEW n \in Nat, NEW s \in [1 .. n -> Nodes], NEW x \in Nodes
    PROVE  Extended(s, n, x) = Append(s, x)
<1>1. s \in Seq(Nodes) /\ Len(s) = n
  OBVIOUS
<1>2. PICK t : t = Extended(s, n, x) /\ t = [k \in 1 .. n + 1 |-> IF k <= n THEN s[k] ELSE x]
  BY DEF Extended
<1>3. t \in Seq(Nodes) /\ Len(t) = n + 1
  <2>1. t \in [1 .. n + 1 -> Nodes]
    BY <1>2
  <2> QED BY <2>1
<1>4. /\ Append(s, x) \in Seq(Nodes) /\ Len(Append(s, x)) = n + 1
      /\ \A k \in 1 .. n : Append(s, x)[k] = s[k]
      /\ Append(s, x)[n + 1] = x
  BY <1>1, AppendProperties
<1>5. ASSUME NEW k \in 1 .. Len(t) PROVE t[k] = Append(s, x)[k]
  <2>1. k \in 1 .. n \/ k = n + 1
    BY <1>3
  <2> QED BY <1>2, <1>3, <1>4, <2>1
<1> QED BY <1>2, <1>3, <1>4, <1>5, SeqEqual

LEMMA ShortenedIsRemoveAt ==
    ASSUME NEW n \in Nat, NEW s \in [1 .. n -> Nodes], NEW k \in 1 .. n
    PROVE  Sequence!RemoveAt(s, k) = Shortened(s, n, k)
<1>1. s \in Seq(Nodes) /\ Len(s) = n /\ k \in Nat /\ 1 <= k /\ k <= n
  OBVIOUS
<1>2. PICK t : t = Shortened(s, n, k)
               /\ t = [j \in 1 .. n - 1 |-> IF j < k THEN s[j] ELSE s[j + 1]]
  BY DEF Shortened
<1>3. t \in Seq(Nodes) /\ Len(t) = n - 1
  <2>1. \A j \in 1 .. n - 1 : j \in 1 .. n /\ j + 1 \in 1 .. n
    BY <1>1
  <2>2. t \in [1 .. n - 1 -> Nodes]
    BY <1>2, <2>1
  <2> QED BY <1>1, <2>2
<1>4. PICK a, b \in Seq(Nodes) :
        /\ a = SubSeq(s, 1, k - 1) /\ b = SubSeq(s, k + 1, n)
        /\ Len(a) = k - 1 /\ Len(b) = n - k
        /\ \A j \in 1 .. k - 1 : a[j] = s[j]
        /\ \A j \in 1 .. n - k : b[j] = s[k + j]
  <2>1. /\ SubSeq(s, 1, k - 1) \in Seq(Nodes) /\ Len(SubSeq(s, 1, k - 1)) = k - 1
        /\ \A j \in 1 .. k - 1 : SubSeq(s, 1, k - 1)[j] = s[j]
    <3>1. \A j \in 1 .. k - 1 : s[j] \in Nodes
      BY <1>1
    <3>2. /\ SubSeq(s, 1, k - 1) \in Seq(Nodes)
          /\ Len(SubSeq(s, 1, k - 1)) = IF 1 <= k - 1 THEN (k - 1) - 1 + 1 ELSE 0
          /\ \A j \in 1 .. (k - 1) - 1 + 1 : SubSeq(s, 1, k - 1)[j] = s[1 + j - 1]
      BY <1>1, <3>1, SubSeqProperties
    <3> QED BY <1>1, <3>2
  <2>2. /\ SubSeq(s, k + 1, n) \in Seq(Nodes) /\ Len(SubSeq(s, k + 1, n)) = n - k
        /\ \A j \in 1 .. n - k : SubSeq(s, k + 1, n)[j] = s[k + j]
    <3>1. \A j \in k + 1 .. n : s[j] \in Nodes
      BY <1>1
    <3>2. /\ SubSeq(s, k + 1, n) \in Seq(Nodes)
          /\ Len(SubSeq(s, k + 1, n)) = IF k + 1 <= n THEN n - (k + 1) + 1 ELSE 0
          /\ \A j \in 1 .. n - (k + 1) + 1 : SubSeq(s, k + 1, n)[j] = s[(k + 1) + j - 1]
      BY <1>1, <3>1, SubSeqProperties
    <3>3. n - (k + 1) + 1 = n - k /\ \A j \in 1 .. n - k : (k + 1) + j - 1 = k + j
      BY <1>1
    <3> QED BY <1>1, <3>2, <3>3
  <2> QED BY <2>1, <2>2
<1>5. /\ a \o b \in Seq(Nodes) /\ Len(a \o b) = n - 1
      /\ \A j \in 1 .. n - 1 : (a \o b)[j] = IF j <= k - 1 THEN a[j] ELSE b[j - (k - 1)]
  <2>1. Len(a) + Len(b) = n - 1
    BY <1>1, <1>4
  <2> QED BY <1>4, <2>1, ConcatProperties
<1>6. ASSUME NEW j \in 1 .. n - 1 PROVE (a \o b)[j] = t[j]
  <2>1. CASE j < k
    <3>1. j \in 1 .. k - 1 /\ j <= k - 1
      BY <1>1, <2>1
    <3> QED BY <1>2, <1>4, <1>5, <2>1, <3>1
  <2>2. CASE ~ (j < k)
    <3>1. j - (k - 1) \in 1 .. n - k /\ k + (j - (k - 1)) = j + 1 /\ ~ (j <= k - 1)
      BY <1>1, <2>2
    <3>2. b[j - (k - 1)] = s[j + 1]
      BY <1>4, <3>1
    <3> QED BY <1>2, <1>5, <2>2, <3>1, <3>2
  <2> QED BY <2>1, <2>2
<1>7. a \o b = t
  BY <1>3, <1>5, <1>6, SeqEqual
<1> QED BY <1>1, <1>2, <1>4, <1>7 DEF Sequence!RemoveAt

(* Each call takes the abstract step of the same name.                     *)
LEMMA IdOfKept ==
    ASSUME TypeInv, live' = live, \A y \in Nodes : mem'[y].id = mem[y].id
    PROVE  IdOf' = IdOf
<1>1. IdOf' = [y \in live |-> mem'[y].id]
  BY DEF IdOf
<1>2. \A y \in live : mem'[y].id = mem[y].id
  BY DEF TypeInv
<1> QED BY <1>1, <1>2 DEF IdOf

LEMMA CreateRefines ==
    ASSUME NEW s, NEW n, Holds(s, n), TypeInv, NEW id \in Ids, NEW x \in Nodes \ live,
           CreateAt(id, x)
    PROVE  Sequence!Create(x, id)
<1>1. /\ ListSeq' = ListSeq /\ Linked' = Linked /\ x \notin Linked
      /\ mem' = [mem EXCEPT ![x] = [id |-> id, next |-> Null]]
  BY CreateStep, ListSeqNow, ListSeqNext DEF Holds
<1>2. /\ live' = live \cup {x} /\ result' = Answer("create", id, 1, x)
      /\ live \subseteq Nodes /\ DOMAIN mem = Nodes
  BY DEF CreateAt, TypeInv, NodeMem
<1>3. mem'[x] = [id |-> id, next |-> Null] /\ \A y \in live : mem'[y] = mem[y]
  BY <1>1, <1>2
<1>4. IdOf' = [m \in DOMAIN IdOf \cup {x} |-> IF m = x THEN id ELSE IdOf[m]]
  <2>1. IdOf' = [m \in live \cup {x} |-> mem'[m].id]
    BY <1>2 DEF IdOf
  <2>2. DOMAIN IdOf = live /\ \A m \in live : IdOf[m] = mem[m].id
    BY DEF IdOf
  <2>3. ASSUME NEW m \in live \cup {x} PROVE mem'[m].id = IF m = x THEN id ELSE IdOf[m]
    BY <1>3, <2>2
  <2> HIDE DEF IdOf
  <2> QED BY <2>1, <2>2, <2>3
<1>5. Stale' = Stale
  <2>1. Stale' = {y \in (live \cup {x}) \ Linked : mem'[y].next # Null}
    BY <1>1, <1>2 DEF Stale
  <2> QED BY <1>3, <2>1 DEF Stale
<1>6. x \in Nodes \ DOMAIN IdOf
  BY DEF IdOf
<1> QED BY <1>1, <1>2, <1>4, <1>5, <1>6 DEF Sequence!Create, Sequence!Answer, Answer

LEMMA QuietRefines ==
    ASSUME NEW s, NEW n, Holds(s, n), Holds(s, n)', TypeInv, UNCHANGED <<live, mem>>
    PROVE  UNCHANGED <<ListSeq, IdOf, Stale>>
<1>1. ListSeq' = ListSeq /\ Linked' = Linked
  BY ListSeqNow, ListSeqNext
<1> QED BY <1>1 DEF IdOf, Stale

LEMMA DestroyRefines ==
    ASSUME NEW s, NEW n, Holds(s, n), TypeInv, NEW x \in live \ Linked,
           kobject_node_destroy(x)
    PROVE  Sequence!Destroy(x)
<1>1. ListSeq' = ListSeq /\ Linked' = Linked /\ mem' = mem
  BY QuietStep, ListSeqNow, ListSeqNext
<1>2. live' = live \ {x} /\ result' = Answer("destroy", x, 1, Null)
  BY KObjectAssumption DEF kobject_node_destroy, TypeInv
<1>3. x \in DOMAIN IdOf /\ IdOf' = [m \in DOMAIN IdOf \ {x} |-> IdOf[m]]
  <2>1. IdOf' = [m \in live \ {x} |-> mem[m].id]
    BY <1>1, <1>2 DEF IdOf
  <2>2. DOMAIN IdOf = live /\ \A m \in live : IdOf[m] = mem[m].id
    BY DEF IdOf
  <2> HIDE DEF IdOf
  <2> QED BY <2>1, <2>2
<1>4. Stale' = Stale \ {x}
  BY <1>1, <1>2 DEF Stale
<1>5. ~ Sequence!Contains(ListSeq, x)
  <2>1. ListSeq = s /\ Linked = NodesOf(s, n) /\ Len(s) = n
    BY ListSeqNow
  <2> QED BY <2>1 DEF Sequence!Contains, NodesOf
<1> QED BY <1>1, <1>2, <1>3, <1>4, <1>5
        DEF Sequence!Destroy, Sequence!Without, Sequence!Answer, Answer

LEMMA AppendRefines ==
    ASSUME NEW s, NEW n, Holds(s, n), TypeInv, NEW x \in live \ NodesOf(s, n),
           kobject_list_append(x), ~ AppendRefused(x)
    PROVE  Sequence!Add(x)
<1>1. /\ ListSeq = s /\ Linked = NodesOf(s, n) /\ Len(s) = n /\ n \in Nat
      /\ s \in [1 .. n -> Nodes] /\ x \in Nodes
  BY ListSeqNow DEF TypeInv
<1>2. /\ Holds(Extended(s, n, x), n + 1)' /\ \A y \in Nodes : mem'[y].id = mem[y].id
      /\ \A y \in Nodes \ NodesOf(s, n) : mem'[y] = mem[y]
  BY AppendStep
<1>3. ListSeq' = Append(ListSeq, x) /\ Linked' = NodesOf(Extended(s, n, x), n + 1)
  BY <1>1, <1>2, ListSeqNext, ExtendedIsAppend
<1>4. NodesOf(Extended(s, n, x), n + 1) = NodesOf(s, n) \cup {x}
  <2>1. PICK t : t = Extended(s, n, x)
    OBVIOUS
  <2>2. t[n + 1] = x /\ n + 1 \in 1 .. n + 1
        /\ \A k \in 1 .. n : k \in 1 .. n + 1 /\ t[k] = s[k]
    BY <1>1, <2>1 DEF Extended
  <2>3. \A k \in 1 .. n + 1 : k \in 1 .. n \/ k = n + 1
    BY <1>1
  <2>4. NodesOf(t, n + 1) = NodesOf(s, n) \cup {x}
    BY <2>2, <2>3 DEF NodesOf
  <2> QED BY <2>1, <2>4
<1>5. mem[x].next = Null /\ x \notin Stale /\ live \subseteq Nodes
  BY DEF AppendRefused, Stale, TypeInv
<1>6. live' = live /\ result' = Answer("append", x, 1, Null)
  BY DEF kobject_list_append
<1>7. Stale' = Stale
  <2>1. Stale' = {y \in live \ (NodesOf(s, n) \cup {x}) : mem'[y].next # Null}
    BY <1>3, <1>4, <1>6 DEF Stale
  <2>2. Stale = {y \in live \ NodesOf(s, n) : mem[y].next # Null}
    BY <1>1 DEF Stale
  <2> QED BY <1>2, <1>5, <2>1, <2>2
<1>8. IdOf' = IdOf
  BY <1>2, <1>6, IdOfKept
<1>9. ~ Sequence!Contains(ListSeq, x)
  BY <1>1 DEF Sequence!Contains, NodesOf
<1>10. x \in DOMAIN IdOf \ Stale
  BY <1>5 DEF IdOf
<1> QED BY <1>3, <1>6, <1>7, <1>8, <1>9, <1>10 DEF Sequence!Add, Sequence!Answer, Answer

(* A list that is not empty has a tail, so only NULL and a node that still *)
(* has a link are refused.                                                 *)
LEMMA RefusalRefines ==
    ASSUME NEW s, NEW n, Holds(s, n), TypeInv, NEW x \in {Null} \cup (live \ Linked),
           kobject_list_append(x), AppendRefused(x)
    PROVE  Sequence!Fail("append", x) /\ x \in {Null} \cup (Nodes \cap Stale)
<1>1. live' = live /\ mem' = mem /\ result' = Answer("append", x, 0, Null)
  BY Zenon DEF kobject_list_append
<1>2. x \in Nodes \cup {Null}
  BY DEF TypeInv
<1>3. Holds(s, n)'
  BY <1>2, QuietStep
<1>4. ~ (list.head # Null /\ list.tail = Null)
  BY KObjectAssumption DEF Holds, Chain
<1>5. x \in {Null} \cup (Nodes \cap Stale)
  BY <1>2, <1>4 DEF AppendRefused, Stale
<1>6. UNCHANGED <<ListSeq, IdOf, Stale>>
  BY <1>1, <1>3, QuietRefines
<1> QED BY <1>1, <1>5, <1>6 DEF Sequence!Fail, Sequence!Answer, Answer

(* kobject_list_init leaves every node but the last with its link.         *)
LEMMA NewListRefines ==
    ASSUME NEW s, NEW n, Holds(s, n), TypeInv, kobject_list_init
    PROVE  Sequence!NewList
<1>1. /\ ListSeq = s /\ Linked = NodesOf(s, n) /\ Len(s) = n /\ n \in Nat
      /\ s \in [1 .. n -> Nodes] /\ Null \notin Nodes
  BY ListSeqNow, KObjectAssumption
<1>2. ListSeq' = <<>> /\ Linked' = {}
  BY NewListStep, ListSeqNext, EmptyChain
<1>3. UNCHANGED <<live, mem, result>>
  BY DEF kobject_list_init
<1>4. Stale' = {y \in live : mem[y].next # Null}
  BY <1>2, <1>3 DEF Stale
<1>5. \A k \in 1 .. n : s[k] \in live /\ mem[s[k]].next = IF k = n THEN Null ELSE s[k + 1]
  BY DEF Holds, Chain, NodesOf
<1>6. ASSUME NEW y \in live, mem[y].next # Null
      PROVE  y \in Stale \/ \E i \in 1 .. n - 1 : y = s[i]
  <2>1. CASE y \in NodesOf(s, n)
    <3>1. PICK k \in 1 .. n : y = s[k]
      BY <2>1 DEF NodesOf
    <3>2. k # n
      BY <1>5, <1>6, <3>1
    <3>3. k \in 1 .. n - 1
      BY <1>1, <3>2
    <3> QED BY <3>1, <3>3
  <2>2. CASE y \notin NodesOf(s, n)
    BY <1>1, <1>6, <2>2 DEF Stale
  <2> QED BY <2>1, <2>2
<1>7. ASSUME NEW i \in 1 .. n - 1 PROVE s[i] \in live /\ mem[s[i]].next # Null
  <2>1. i \in 1 .. n /\ i + 1 \in 1 .. n /\ i # n
    BY <1>1
  <2> QED BY <1>1, <1>5, <2>1
<1>8. Stale' = Stale \cup {s[i] : i \in 1 .. n - 1}
  BY <1>4, <1>6, <1>7 DEF Stale
<1> QED BY <1>1, <1>2, <1>3, <1>8 DEF Sequence!NewList, IdOf

(* The place of a walk that has come to a match is the first match, and a  *)
(* walk that has come to the end has found none.                           *)
LEMMA FirstMatch ==
    ASSUME NEW s, NEW n, Holds(s, n), TypeInv, NEW k \in 1 .. n, mem[s[k]].id = arg,
           \A j \in 1 .. k - 1 : mem[s[j]].id # arg
    PROVE  k \in DOMAIN ListSeq /\ Sequence!IsFirstMatch(k, arg)
<1>1. ListSeq = s /\ DOMAIN s = 1 .. n /\ n \in Nat
  BY ListSeqNow
<1>2. \A j \in 1 .. n : IdOf[s[j]] = mem[s[j]].id
  BY DEF Holds, NodesOf, IdOf
<1>3. k \in Sequence!Matches(arg)
  BY <1>1, <1>2 DEF Sequence!Matches
<1>4. ASSUME NEW j \in Sequence!Matches(arg) PROVE k <= j
  <2>1. j \in 1 .. n /\ mem[s[j]].id = arg
    BY <1>1, <1>2 DEF Sequence!Matches
  <2>2. j \notin 1 .. k - 1
    BY <2>1
  <2> QED BY <1>1, <2>1, <2>2
<1> QED BY <1>1, <1>3, <1>4 DEF Sequence!IsFirstMatch

LEMMA NoMatch ==
    ASSUME NEW s, NEW n, Holds(s, n), TypeInv, pc # "idle", cursor = Null
    PROVE  Sequence!Matches(arg) = {}
<1>1. ListSeq = s /\ DOMAIN s = 1 .. n
  BY ListSeqNow
<1>2. /\ n \in Nat /\ s \in [1 .. n -> Nodes] /\ Null \notin Nodes
  BY WalkPlace
<1>3. PICK k \in 1 .. n + 1 :
            /\ cursor = IF k = n + 1 THEN Null ELSE s[k]
            /\ \A j \in 1 .. k - 1 : mem[s[j]].id # arg
  BY WalkPlace
<1>4. k = n + 1
  BY <1>2, <1>3
<1>5. \A j \in 1 .. n : j \in 1 .. k - 1 /\ IdOf[s[j]] = mem[s[j]].id
  BY <1>2, <1>4 DEF Holds, NodesOf, IdOf
<1> QED BY <1>1, <1>3, <1>5 DEF Sequence!Matches

LEMMA FindRefines ==
    ASSUME NEW s, NEW n, Holds(s, n), TypeInv, pc = "find", cursor = Null \/ Match,
           Leave("find", IF Match THEN 1 ELSE 0, cursor), UNCHANGED <<live, mem, list>>
    PROVE  \/ Sequence!Find(arg)
           \/ Sequence!Matches(arg) = {} /\ Sequence!Fail("find", arg)
<1>1. PICK v : v = (IF Match THEN 1 ELSE 0) /\ Leave("find", v, cursor)
  OBVIOUS
<1>2. Holds(s, n)'
  BY <1>1, LeaveStep
<1>3. UNCHANGED <<ListSeq, IdOf, Stale>>
  BY <1>2, QuietRefines
<1>4. result' = Answer("find", arg, v, cursor)
  BY <1>1 DEF Leave
<1>5. CASE Match
  <2>1. /\ n \in Nat /\ s \in [1 .. n -> Nodes] /\ ListSeq = s
        /\ cursor # Null /\ mem[cursor].id = arg /\ v = 1
    BY <1>1, <1>5, ListSeqNow DEF Match
  <2>2. PICK k \in 1 .. n + 1 :
            /\ cursor = IF k = n + 1 THEN Null ELSE s[k]
            /\ \A j \in 1 .. k - 1 : mem[s[j]].id # arg
    BY WalkPlace
  <2>3. k \in 1 .. n /\ cursor = s[k]
    BY <2>1, <2>2
  <2>4. k \in DOMAIN ListSeq /\ Sequence!IsFirstMatch(k, arg)
    BY <2>1, <2>2, <2>3, FirstMatch
  <2>5. result' = Sequence!Answer("find", arg, 1, ListSeq[k])
    BY <1>4, <2>1, <2>3 DEF Answer, Sequence!Answer
  <2> QED BY <1>3, <2>4, <2>5 DEF Sequence!Find
<1>6. CASE ~ Match
  <2>1. cursor = Null /\ v = 0
    BY <1>1, <1>6
  <2>2. Sequence!Matches(arg) = {}
    BY <2>1, NoMatch
  <2> QED BY <1>3, <1>4, <2>1, <2>2 DEF Sequence!Fail, Answer, Sequence!Answer
<1> QED BY <1>5, <1>6

LEMMA MissRefines ==
    ASSUME NEW s, NEW n, Holds(s, n), TypeInv, pc = "remove", cursor = Null,
           Leave("remove", 0, Null), UNCHANGED <<live, mem, list>>
    PROVE  Sequence!Matches(arg) = {} /\ Sequence!Fail("remove", arg)
<1>1. Sequence!Matches(arg) = {}
  BY NoMatch
<1>2. UNCHANGED <<ListSeq, IdOf, Stale>>
  BY LeaveStep, QuietRefines
<1>3. result' = Answer("remove", arg, 0, Null)
  BY DEF Leave
<1> QED BY <1>1, <1>2, <1>3 DEF Sequence!Fail, Answer, Sequence!Answer

LEMMA UnlinkRefines ==
    ASSUME NEW s, NEW n, Holds(s, n), TypeInv, Unlink
    PROVE  Sequence!Detach(arg)
<1>1. /\ ListSeq = s /\ Linked = NodesOf(s, n) /\ n \in Nat
      /\ s \in [1 .. n -> Nodes] /\ live \subseteq Nodes
  BY ListSeqNow DEF TypeInv
<1>2. /\ \A y \in Nodes : mem'[y].id = mem[y].id
      /\ \A y \in Nodes \ NodesOf(s, n) : mem'[y] = mem[y]
  BY UnlinkStep
<1>3. PICK k \in 1 .. n :
            /\ cursor = s[k] /\ mem[s[k]].id = arg /\ mem'[s[k]].next = Null
            /\ \A j \in 1 .. k - 1 : mem[s[j]].id # arg
            /\ Holds(Shortened(s, n, k), n - 1)'
  BY UnlinkStep
<1>4. PICK t : t = Shortened(s, n, k)
  OBVIOUS
<1>5. ListSeq' = Sequence!RemoveAt(ListSeq, k) /\ Linked' = NodesOf(t, n - 1)
  BY <1>1, <1>3, <1>4, ListSeqNext, ShortenedIsRemoveAt
<1>6. k \in DOMAIN ListSeq /\ Sequence!IsFirstMatch(k, arg)
  BY <1>3, FirstMatch
<1>7. live' = live /\ result' = Answer("remove", arg, 1, cursor)
  BY DEF Unlink, Leave
<1>8. IdOf' = IdOf
  BY <1>2, <1>7, IdOfKept
<1>9. ASSUME NEW y \in NodesOf(s, n), y # s[k] PROVE y \in NodesOf(t, n - 1)
  <2>1. PICK j \in 1 .. n : y = s[j] /\ j # k
    BY <1>9 DEF NodesOf
  <2>2. CASE j < k
    <3>1. j \in 1 .. n - 1 /\ t[j] = s[j]
      BY <1>1, <1>4, <2>1, <2>2 DEF Shortened
    <3> QED BY <2>1, <3>1 DEF NodesOf
  <2>3. CASE ~ (j < k)
    <3>1. j - 1 \in 1 .. n - 1 /\ ~ (j - 1 < k) /\ (j - 1) + 1 = j
      BY <1>1, <2>1, <2>3
    <3>2. t[j - 1] = s[j]
      BY <1>4, <3>1 DEF Shortened
    <3> QED BY <2>1, <3>1, <3>2 DEF NodesOf
  <2> QED BY <2>2, <2>3
<1>10. NodesOf(t, n - 1) \subseteq NodesOf(s, n)
  <2>1. ASSUME NEW j \in 1 .. n - 1 PROVE t[j] \in NodesOf(s, n)
    <3>1. t[j] = IF j < k THEN s[j] ELSE s[j + 1]
      BY <1>4 DEF Shortened
    <3>2. j \in 1 .. n /\ j + 1 \in 1 .. n
      BY <1>1
    <3> QED BY <3>1, <3>2 DEF NodesOf
  <2> QED BY <2>1 DEF NodesOf
<1>11. Stale' = Stale
  <2>1. Stale' = {y \in live \ NodesOf(t, n - 1) : mem'[y].next # Null}
    BY <1>5, <1>7 DEF Stale
  <2>2. Stale = {y \in live \ NodesOf(s, n) : mem[y].next # Null}
    BY <1>1 DEF Stale
  <2> QED BY <1>1, <1>2, <1>3, <1>9, <1>10, <2>1, <2>2
<1>12. result' = Sequence!Answer("remove", arg, 1, ListSeq[k])
  BY <1>1, <1>3, <1>7 DEF Answer, Sequence!Answer
<1> QED BY <1>5, <1>6, <1>8, <1>11, <1>12 DEF Sequence!Detach

LEMMA SequenceStep ==
    ~ CallersReappend /\ IInv /\ [Next]_vars
        => [Sequence!Next]_<<ListSeq, IdOf, Stale, result>>
<1> SUFFICES ASSUME ~ CallersReappend, IInv, [Next]_vars
             PROVE  Sequence!Next \/ UNCHANGED <<ListSeq, IdOf, Stale, result>>
  BY Zenon
<1>1. PICK s, n : Holds(s, n)
  BY DEF IInv
<1>2. TypeInv
  BY DEF IInv
<1>3. CASE UNCHANGED vars
  <2>1. Holds(s, n)'
    BY <1>1, <1>3 DEF vars, Holds, WalkAt
  <2> QED BY <1>1, <1>2, <1>3, <2>1, QuietRefines DEF vars
<1>4. CASE Next
  <2>1. ASSUME NEW id \in Ids, NEW x \in Nodes \ live, CreateAt(id, x) PROVE Sequence!Next
    <3>1. Sequence!Create(x, id)
      BY <1>1, <1>2, <2>1, CreateRefines
    <3> QED BY <3>1, Zenon DEF Sequence!Next
  <2>2. ASSUME NEW id \in Ids, CreateFails(id) PROVE Sequence!Next
    <3>1. UNCHANGED <<live, mem>> /\ result' = Answer("create", id, 0, Null)
      BY <2>2 DEF CreateFails
    <3>2. UNCHANGED <<ListSeq, IdOf, Stale>>
      BY <1>1, <1>2, <2>2, <3>1, QuietStep, QuietRefines
    <3>3. Sequence!Fail("create", id)
      BY <3>1, <3>2 DEF Sequence!Fail, Answer, Sequence!Answer
    <3> QED BY <3>3, Zenon DEF Sequence!Next
  <2>3. ASSUME NEW x \in live \ Linked, kobject_node_destroy(x) PROVE Sequence!Next
    <3>1. Sequence!Destroy(x) /\ x \in Nodes
      BY <1>1, <1>2, <2>3, DestroyRefines DEF TypeInv
    <3> QED BY <3>1, Zenon DEF Sequence!Next
  <2>4. ASSUME kobject_node_destroy(Null) PROVE Sequence!Next
    <3>1. UNCHANGED <<live, mem>> /\ result' = Answer("destroy", Null, 0, Null)
      BY <1>2, <2>4, KObjectAssumption DEF kobject_node_destroy, TypeInv
    <3>2. UNCHANGED <<ListSeq, IdOf, Stale>>
      BY <1>1, <1>2, <2>4, <3>1, QuietStep, QuietRefines
    <3>3. Sequence!Fail("destroy", Null)
      BY <3>1, <3>2 DEF Sequence!Fail, Answer, Sequence!Answer
    <3> QED BY <3>3, Zenon DEF Sequence!Next
  <2>5. ASSUME NEW x \in {Null} \cup (live \ Linked), kobject_list_append(x), AppendRefused(x)
        PROVE  Sequence!Next
    <3>1. Sequence!Fail("append", x) /\ (x = Null \/ (x \in Nodes /\ x \in Stale))
      BY <1>1, <1>2, <2>5, RefusalRefines
    <3> QED BY <3>1, Zenon DEF Sequence!Next
  <2>6. ASSUME NEW x \in live \ NodesOf(s, n), kobject_list_append(x), ~ AppendRefused(x)
        PROVE  Sequence!Next
    <3>1. Sequence!Add(x) /\ x \in Nodes
      BY <1>1, <1>2, <2>6, AppendRefines DEF TypeInv
    <3> QED BY <3>1, Zenon DEF Sequence!Next
  <2>7. ASSUME kobject_list_count PROVE Sequence!Next
    <3>1. UNCHANGED <<live, mem>> /\ result' = Answer("count", Null, list.count, Null)
      BY <2>7 DEF kobject_list_count
    <3>2. UNCHANGED <<ListSeq, IdOf, Stale>>
      BY <1>1, <1>2, <2>7, <3>1, QuietStep, QuietRefines
    <3>3. list.count = Len(ListSeq)
      BY <1>1, ListSeqNow DEF Holds, Chain
    <3>4. Sequence!Count
      BY <3>1, <3>2, <3>3 DEF Sequence!Count, Answer, Sequence!Answer
    <3> QED BY <3>4, Zenon DEF Sequence!Next
  <2>8. ASSUME kobject_list_init PROVE Sequence!Next
    <3>1. Sequence!NewList
      BY <1>1, <1>2, <2>8, NewListRefines
    <3> QED BY <3>1, Zenon DEF Sequence!Next
  <2>9. ASSUME NEW id \in Ids, NEW op \in {"find", "remove"}, Enter(op, id)
        PROVE  UNCHANGED <<ListSeq, IdOf, Stale, result>>
    <3>1. Holds(s, n)' /\ UNCHANGED <<live, mem, result>>
      BY <1>1, <1>2, <2>9, EnterStep DEF Enter
    <3> QED BY <1>1, <1>2, <3>1, QuietRefines
  <2>10. ASSUME pc # "idle", Advance PROVE UNCHANGED <<ListSeq, IdOf, Stale, result>>
    <3>1. Holds(s, n)' /\ UNCHANGED <<live, mem, result>>
      BY <1>1, <1>2, <2>10, AdvanceStep DEF Advance
    <3> QED BY <1>1, <1>2, <3>1, QuietRefines
  <2>11. ASSUME pc = "find", cursor = Null \/ Match,
                Leave("find", IF Match THEN 1 ELSE 0, cursor), UNCHANGED <<live, mem, list>>
         PROVE  Sequence!Next
    <3>1. \/ Sequence!Find(arg)
          \/ Sequence!Matches(arg) = {} /\ Sequence!Fail("find", arg)
      BY <1>1, <1>2, <2>11, FindRefines
    <3>2. arg \in Ids
      BY <1>2, <2>11 DEF TypeInv
    <3> QED BY <3>1, <3>2, Zenon DEF Sequence!Next
  <2>12. ASSUME Unlink PROVE Sequence!Next
    <3>1. Sequence!Detach(arg)
      BY <1>1, <1>2, <2>12, UnlinkRefines
    <3>2. arg \in Ids
      BY <1>2, <2>12 DEF TypeInv, Unlink
    <3> QED BY <3>1, <3>2, Zenon DEF Sequence!Next
  <2>13. ASSUME pc = "remove", cursor = Null, Leave("remove", 0, Null),
                UNCHANGED <<live, mem, list>>
         PROVE  Sequence!Next
    <3>1. Sequence!Matches(arg) = {} /\ Sequence!Fail("remove", arg)
      BY <1>1, <1>2, <2>13, MissRefines
    <3>2. arg \in Ids
      BY <1>2, <2>13 DEF TypeInv
    <3> QED BY <3>1, <3>2, Zenon DEF Sequence!Next
  <2> QED BY <1>1, <1>2, <1>4, <2>1, <2>2, <2>3, <2>4, <2>5, <2>6, <2>7, <2>8, <2>9,
             <2>10, <2>11, <2>12, <2>13, Steps
<1> QED BY <1>3, <1>4

(* kobject.c implements the abstract sequence of objects: every call that  *)
(* changes the list, answers a lookup or fails is one step of ObjectList,  *)
(* and an iteration of a walk changes nothing that a caller can see.       *)
THEOREM ListMeetsContract ==
    ASSUME ~ CallersReappend
    PROVE  Spec => ImplementsSequence
<1>1. Init => Sequence!Init
  <2> SUFFICES ASSUME Init PROVE Sequence!Init
    OBVIOUS
  <2>1. Holds(<<>>, 0) /\ live = {}
    BY EmptyChain DEF Init, Holds
  <2>2. ListSeq = <<>>
    BY <2>1, ListSeqNow
  <2>3. Stale = {} /\ IdOf = [y \in {} |-> 0]
    BY <2>1 DEF Stale, IdOf
  <2>4. result = Answer("none", Null, 0, Null)
    BY DEF Init
  <2> QED BY <2>2, <2>3, <2>4 DEF Sequence!Init, Answer, Sequence!Answer
<1>2. IInv /\ [Next]_vars => [Sequence!Next]_<<ListSeq, IdOf, Stale, result>>
  BY SequenceStep
<1> QED BY <1>1, <1>2, ListInvariant, PTL DEF Spec, ImplementsSequence, Sequence!Spec

-----------------------------------------------------------------------------
LEMMA RemovedStep ==
    ~ CallersReappend /\ IInv /\ RemovedUnreachable /\ [Next]_vars => RemovedUnreachable'
<1> SUFFICES ASSUME ~ CallersReappend, IInv, RemovedUnreachable, [Next]_vars
             PROVE  RemovedUnreachable'
  OBVIOUS
<1>1. PICK s, n : Holds(s, n)
  BY DEF IInv
<1>2. TypeInv
  BY DEF IInv
<1>3. ASSUME Linked' \subseteq Linked, result' = result PROVE RemovedUnreachable'
  BY <1>3 DEF RemovedUnreachable
<1>4. ASSUME result'.op # "remove" \/ result'.value = 0 PROVE RemovedUnreachable'
  BY <1>4 DEF RemovedUnreachable
<1>5. CASE UNCHANGED vars
  <2>1. Holds(s, n)'
    BY <1>1, <1>5 DEF vars, Holds, WalkAt
  <2>2. Linked' = Linked
    BY <1>1, <2>1, LinkedNodes, ListSeqNext
  <2> QED BY <1>3, <1>5, <2>2 DEF vars
<1>6. CASE Next
  <2>1. ASSUME NEW id \in Ids, NEW x \in Nodes \ live, CreateAt(id, x)
        PROVE  result'.op # "remove"
    BY <2>1 DEF CreateAt, Answer
  <2>2. ASSUME NEW id \in Ids, CreateFails(id) PROVE result'.op # "remove"
    BY <2>2 DEF CreateFails, Answer
  <2>3. ASSUME NEW x, kobject_node_destroy(x) PROVE result'.op # "remove"
    BY <2>3 DEF kobject_node_destroy, Answer
  <2>4. ASSUME NEW x, kobject_list_append(x) PROVE result'.op # "remove"
    <3>1. \E v \in {0, 1} : result' = Answer("append", x, v, Null)
      BY <2>4 DEF kobject_list_append
    <3> QED BY <3>1 DEF Answer
  <2>5. kobject_list_count => result'.op # "remove"
    BY DEF kobject_list_count, Answer
  <2>6. ASSUME kobject_list_init PROVE Linked' \subseteq Linked /\ result' = result
    <3>1. Linked' = {}
      BY <1>1, <1>2, <2>6, NewListStep, ListSeqNext, EmptyChain
    <3> QED BY <2>6, <3>1 DEF kobject_list_init
  <2>7. ASSUME NEW id \in Ids, NEW op \in {"find", "remove"}, Enter(op, id)
        PROVE  Linked' \subseteq Linked /\ result' = result
    <3>1. Holds(s, n)' /\ result' = result
      BY <1>1, <1>2, <2>7, EnterStep DEF Enter
    <3> QED BY <1>1, <3>1, LinkedNodes, ListSeqNext
  <2>8. ASSUME pc # "idle", Advance PROVE Linked' \subseteq Linked /\ result' = result
    <3>1. Holds(s, n)' /\ result' = result
      BY <1>1, <1>2, <2>8, AdvanceStep DEF Advance
    <3> QED BY <1>1, <3>1, LinkedNodes, ListSeqNext
  <2>9. ASSUME NEW v, Leave("find", v, cursor) PROVE result'.op # "remove"
    BY <2>9 DEF Leave, Answer
  <2>10. Leave("remove", 0, Null) => result'.value = 0
    BY DEF Leave, Answer
  <2>11. ASSUME Unlink PROVE RemovedUnreachable'
    <3>1. PICK k \in 1 .. n : cursor = s[k] /\ Holds(Shortened(s, n, k), n - 1)'
      BY <1>1, <1>2, <2>11, UnlinkStep
    <3>2. result'.node = s[k]
      BY <2>11, <3>1 DEF Unlink, Leave, Answer
    <3>3. Linked' = NodesOf(Shortened(s, n, k), n - 1)
      BY <3>1, ListSeqNext
    <3>4. n \in Nat /\ \A i, j \in 1 .. n : s[i] = s[j] => i = j
      BY <1>1 DEF Holds, Chain
    <3>5. ASSUME NEW j \in 1 .. n - 1 PROVE Shortened(s, n, k)[j] # s[k]
      <4>1. Shortened(s, n, k)[j] = IF j < k THEN s[j] ELSE s[j + 1]
        BY DEF Shortened
      <4>2. j \in 1 .. n /\ j + 1 \in 1 .. n /\ (j < k => j # k) /\ (~ (j < k) => j + 1 # k)
        BY <3>4
      <4> QED BY <3>4, <4>1, <4>2
    <3> QED BY <3>2, <3>3, <3>5 DEF RemovedUnreachable, NodesOf
  <2>12. CASE Leave("find", IF Match THEN 1 ELSE 0, cursor)
    <3>1. PICK v : Leave("find", v, cursor)
      BY <2>12
    <3> QED BY <1>4, <2>9, <3>1
  <2> QED BY <1>1, <1>2, <1>3, <1>4, <1>6, <2>1, <2>2, <2>3, <2>4, <2>5, <2>6, <2>7,
             <2>8, <2>10, <2>11, <2>12, Steps
<1> QED BY <1>5, <1>6

(* The removal contract of docs/milestones/stage-11d.md for careful        *)
(* callers: the node that kobject_list_remove_by_id answered is not        *)
(* reachable from the head until another call answers.  Its hypothesis is  *)
(* what the counterexample for careless callers breaks.                    *)
THEOREM RemovalMeetsContract ==
    ASSUME ~ CallersReappend
    PROVE  Spec => []RemovedUnreachable
<1>1. Init => RemovedUnreachable
  BY DEF Init, RemovedUnreachable, Answer
<1>2. IInv /\ RemovedUnreachable /\ [Next]_vars => RemovedUnreachable'
  BY RemovedStep
<1> QED BY <1>1, <1>2, ListInvariant, PTL DEF Spec
=============================================================================
