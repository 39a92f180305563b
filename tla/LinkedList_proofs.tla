-------------------------- MODULE LinkedList_proofs --------------------------
(***************************************************************************)
(* Proofs about LinkedList for all sets of nodes and lists: the links form *)
(* the sequences of the nodes that are owned, each component of a pass is  *)
(* called once and in order, and the lists implement NodeSequence.         *)
(***************************************************************************)
EXTENDS LinkedList, FiniteSetTheorems, WellFoundedInduction, TLAPS

----------------------------------------------------------------------------
(* Induction. *)

(* A non-empty set of natural numbers has a least element.                 *)
LEMMA LeastNumber ==
  ASSUME NEW T, T \subseteq Nat, T # {}
  PROVE  \E n \in T : \A m \in T : n <= m
<1>1. \E n \in T : \A m \in T : ~ (<<m, n>> \in OpToRel(<, Nat))
  BY NatLessThanWellFounded, WFMin, Zenon
<1>2. PICK n \in T : \A m \in T : ~ (<<m, n>> \in OpToRel(<, Nat))
  BY <1>1
<1>3. ASSUME NEW m \in T PROVE n <= m
  <2>1. ~ (<<m, n>> \in {ss \in Nat \X Nat : ss[1] < ss[2]})
    BY <1>2 DEF OpToRel
  <2> QED
    BY <2>1
<1> QED
  BY <1>3

(* A set that has 0 and with each number the next one has all up to n.     *)
LEMMA UpTo ==
  ASSUME NEW n \in Nat, NEW S, 0 \in S, \A k \in 1 .. n : k - 1 \in S => k \in S
  PROVE  \A k \in 0 .. n : k \in S
<1> SUFFICES ASSUME NEW j \in 0 .. n, j \notin S PROVE FALSE
  OBVIOUS
<1> DEFINE Bad == {k \in 0 .. n : k \notin S}
<1>1. PICK k \in Bad : \A m \in Bad : k <= m
  <2>1. Bad \subseteq Nat /\ j \in Bad
    OBVIOUS
  <2> HIDE DEF Bad
  <2> QED
    BY <2>1, LeastNumber
<1>2. k \in 1 .. n /\ k - 1 \in 0 .. n
  OBVIOUS
<1>3. k - 1 \in S
  BY <1>1, <1>2
<1> QED
  BY <1>2, <1>3

(* f gives the value of D after each of n rounds.                          *)
Run(f, D, a, n, step) ==
  f \in [0 .. n -> D] /\ f[0] = a /\ \A k \in 1 .. n : f[k] = step[k][f[k - 1]]

(* A loop of n rounds, each of which turns a value of D into another: there*)
(* is a function that gives the value after each round.                    *)
LEMMA Rounds ==
  ASSUME NEW D, NEW a \in D, NEW n \in Nat, NEW step \in [1 .. n -> [D -> D]]
  PROVE  \E f : Run(f, D, a, n, step)
<1> DEFINE Upto(m, f) ==
             f \in [0 .. n -> D] /\ f[0] = a /\ \A k \in 1 .. m : f[k] = step[k][f[k - 1]]
           S == {m \in 0 .. n : \E f : Upto(m, f)}
<1>1. 0 \in S
  <2> DEFINE f == [k \in 0 .. n |-> a]
  <2>1. f \in [0 .. n -> D] /\ f[0] = a /\ 0 \in 0 .. n
    OBVIOUS
  <2> HIDE DEF f
  <2>2. Upto(0, f)
    BY <2>1
  <2> QED
    BY <2>1, <2>2, Zenon
<1>2. ASSUME NEW m \in 1 .. n, m - 1 \in S PROVE m \in S
  <2>1. PICK f : Upto(m - 1, f)
    BY <1>2
  <2> DEFINE g == [f EXCEPT ![m] = step[m][f[m - 1]]]
  <2>2. f \in [0 .. n -> D] /\ m - 1 \in 0 .. n /\ f[m - 1] \in D /\ m \in 0 .. n
    BY <2>1
  <2>3. step[m][f[m - 1]] \in D
    BY <2>2
  <2>4. g \in [0 .. n -> D] /\ g[0] = a
    BY <2>1, <2>2, <2>3
  <2>5. ASSUME NEW k \in 1 .. m PROVE g[k] = step[k][g[k - 1]]
    <3>1. k - 1 \in 0 .. n /\ k \in 0 .. n /\ k - 1 # m /\ g[k - 1] = f[k - 1]
      BY <2>2
    <3>2. CASE k = m
      BY <3>1, <3>2, <2>2
    <3>3. CASE k # m
      <4>1. k \in 1 .. (m - 1) /\ g[k] = f[k]
        BY <3>1, <3>3, <2>2
      <4> QED
        BY <4>1, <3>1, <2>1
    <3> QED
      BY <3>2, <3>3
  <2> HIDE DEF g
  <2>6. Upto(m, g)
    BY <2>4, <2>5
  <2> QED
    BY <2>2, <2>6, Zenon
<1>3. n \in S
  <2> HIDE DEF S
  <2>1. \A k \in 0 .. n : k \in S
    BY <1>1, <1>2, UpTo
  <2> QED
    BY <2>1
<1> QED
  BY <1>3 DEF Run

----------------------------------------------------------------------------
(* What the links of a list are. *)

Heaps == [first : [List -> Node \cup {None}], last : [List -> Node \cup {None}],
          next : [Node -> Node \cup {None}], owner : [Node -> List \cup {None}]]

(* The node at a place of a sequence, or none past its end.                *)
Nth(w, i) == IF i \in 1 .. Len(w) THEN w[i] ELSE None

(* The links of list l are those of the sequence w.                        *)
ListIs(h, l, w) ==
  /\ w \in Seq(Node)
  /\ \A i, j \in 1 .. Len(w) : w[i] = w[j] => i = j
  /\ h.first[l] = Nth(w, 1) /\ h.last[l] = Nth(w, Len(w))
  /\ \A i \in 1 .. Len(w) : h.owner[w[i]] = l /\ h.next[w[i]] = Nth(w, i + 1)
  /\ \A n \in Node : h.owner[n] = l => \E i \in 1 .. Len(w) : w[i] = n

(* A sequence of different nodes is no longer than there are nodes.        *)
LEMMA NotLonger ==
  ASSUME NEW w \in Seq(Node), \A i, j \in 1 .. Len(w) : w[i] = w[j] => i = j
  PROVE  Len(w) \in Nat /\ Len(w) <= Cardinality(Node) /\ Cardinality(Node) \in Nat
<1>1. Len(w) \in Nat /\ \A i \in 1 .. Len(w) : w[i] \in Node
  OBVIOUS
<1>2. IsFiniteSet(Node) /\ Cardinality(Node) \in Nat
  BY NodeAssumption, FS_CardinalityType
<1> DEFINE m == Len(w)
           f == [i \in 1 .. m |-> w[i]]
<1>3. f \in Injection(1 .. m, Node)
  BY <1>1 DEF Injection, IsInjective
<1>4. m \in Nat
  BY <1>1
<1> HIDE DEF m, f
<1>5. Cardinality(1 .. m) = m
  <2>1. 1 \in Int /\ m \in Int /\ (IF 1 > m THEN 0 ELSE m - 1 + 1) = m
    BY <1>4
  <2> QED
    BY <2>1, FS_Interval
<1>6. Cardinality(1 .. m) <= Cardinality(Node)
  BY <1>2, <1>3, FS_Injection
<1> QED
  BY <1>1, <1>2, <1>5, <1>6 DEF m

(* The links of a list are those of what walking along them yields.        *)
LEMMA WalkIs ==
  ASSUME NEW h \in Heaps, NEW l \in List, NEW w, ListIs(h, l, w)
  PROVE  Walk(h, l) = w
<1> DEFINE N == Cardinality(Node)
           m == Len(w)
           D == Node \cup {None}
           next(n) == IF n = None THEN None ELSE h.next[n]
           A == CHOOSE f : f = [k \in 0 .. N |->
                  IF k = 0 THEN h.first[l]
                  ELSE IF f[k - 1] = None THEN None ELSE h.next[f[k - 1]]]
           step == [k \in 1 .. N |-> [n \in D |-> next(n)]]
<1>1. Walk(h, l) = [i \in 1 .. Cardinality({k \in 0 .. (N - 1) : A[k] # None}) |-> A[i - 1]]
  BY DEF Walk
<1>2. /\ w \in Seq(Node) /\ m \in Nat /\ N \in Nat /\ m <= N /\ N \in Int
      /\ \A i \in 1 .. m : w[i] \in Node /\ w[i] # None
  BY NotLonger, NodeAssumption DEF ListIs
<1>3. /\ h.first[l] = Nth(w, 1) /\ h.first[l] \in D
      /\ \A i \in 1 .. m : h.next[w[i]] = Nth(w, i + 1)
      /\ \A n \in D : next(n) \in D
  BY DEF ListIs, Heaps
<1> HIDE DEF N
<1>4. step \in [1 .. N -> [D -> D]] /\ \A k \in 1 .. N : \A n \in D : step[k][n] = next(n)
  BY <1>3
<1> HIDE DEF step, D
<1>5. PICK g : Run(g, D, h.first[l], N, step)
  BY <1>2, <1>3, <1>4, Rounds, Zenon
<1>6. g \in [0 .. N -> D] /\ g[0] = h.first[l] /\ \A k \in 1 .. N : g[k] = next(g[k - 1])
  <2>1. g \in [0 .. N -> D] /\ g[0] = h.first[l] /\ \A k \in 1 .. N : g[k] = step[k][g[k - 1]]
    BY <1>5, Zenon DEF Run
  <2>2. \A k \in 1 .. N : g[k - 1] \in D
    BY <1>2, <2>1
  <2> QED
    BY <1>4, <2>1, <2>2
<1>7. g = [k \in 0 .. N |-> IF k = 0 THEN h.first[l]
                            ELSE IF g[k - 1] = None THEN None ELSE h.next[g[k - 1]]]
  BY <1>2, <1>6
<1>8. A = [k \in 0 .. N |-> IF k = 0 THEN h.first[l]
                            ELSE IF A[k - 1] = None THEN None ELSE h.next[A[k - 1]]]
  BY <1>7
<1> HIDE DEF A
<1> DEFINE S == {k \in 0 .. N : A[k] = Nth(w, k + 1)}
<1>9. 0 \in S
  BY <1>2, <1>3, <1>8
<1>10. ASSUME NEW k \in 1 .. N, k - 1 \in S PROVE k \in S
  <2>1. A[k - 1] = Nth(w, k) /\ A[k] = next(A[k - 1])
    BY <1>2, <1>8, <1>10
  <2>2. CASE k \in 1 .. m
    BY <1>2, <1>3, <2>1, <2>2 DEF Nth
  <2>3. CASE ~ (k \in 1 .. m)
    BY <1>2, <2>1, <2>3 DEF Nth
  <2> QED
    BY <2>2, <2>3
<1>11. \A k \in 0 .. N : A[k] = Nth(w, k + 1)
  <2>1. \A k \in 0 .. N : k \in S
    <3> HIDE DEF S
    <3> QED
      BY <1>2, <1>9, <1>10, UpTo
  <2> QED
    BY <2>1
<1>12. {k \in 0 .. (N - 1) : A[k] # None} = 0 .. (m - 1)
  BY <1>2, <1>11 DEF Nth
<1> HIDE DEF m
<1>13. Cardinality(0 .. (m - 1)) = m
  <2>1. 0 \in Int /\ m - 1 \in Int /\ (IF 0 > m - 1 THEN 0 ELSE (m - 1) - 0 + 1) = m
    BY <1>2
  <2> QED
    BY <2>1, FS_Interval
<1>14. \A i \in 1 .. m : A[i - 1] = w[i]
  BY <1>2, <1>11 DEF Nth, m
<1>15. w = [i \in 1 .. m |-> w[i]]
  BY <1>2 DEF m
<1> QED
  BY <1>1, <1>12, <1>13, <1>14, <1>15

(* What a change of the heap has to leave alone for a list to stay.        *)
LEMMA Untouched ==
  ASSUME NEW h \in Heaps, NEW g \in Heaps, NEW k \in List, NEW w, ListIs(h, k, w),
         g.first[k] = h.first[k], g.last[k] = h.last[k],
         \A n \in Node : /\ h.owner[n] = k <=> g.owner[n] = k
                         /\ h.owner[n] = k => g.next[n] = h.next[n]
  PROVE  ListIs(g, k, w)
<1>1. w \in Seq(Node) /\ \A i \in 1 .. Len(w) : w[i] \in Node
  BY DEF ListIs
<1> QED
  BY <1>1 DEF ListIs

(* A change that only concerns list l and nodes without a list.            *)
OthersKept(h, g, l) == \A k \in List \ {l} : \A v : ListIs(h, k, v) => ListIs(g, k, v)

(* Heaps that differ in list l and in nodes of no list only.               *)
LEMMA OnlyThere ==
  ASSUME NEW h \in Heaps, NEW g \in Heaps, NEW l \in List,
         \A k \in List \ {l} : g.first[k] = h.first[k] /\ g.last[k] = h.last[k],
         \A n \in Node :
           IF h.owner[n] \in {l, None} THEN g.owner[n] \in {l, None}
           ELSE g.owner[n] = h.owner[n] /\ g.next[n] = h.next[n]
  PROVE  OthersKept(h, g, l)
<1> SUFFICES ASSUME NEW k \in List \ {l}, NEW v, ListIs(h, k, v) PROVE ListIs(g, k, v)
  BY DEF OthersKept
<1>1. k # None
  BY NodeAssumption
<1>2. \A n \in Node : /\ h.owner[n] = k <=> g.owner[n] = k
                      /\ h.owner[n] = k => g.next[n] = h.next[n]
  BY <1>1
<1> QED
  BY <1>2, Untouched

(* push_front puts a node without a list in front of the others.           *)
LEMMA FrontPushed ==
  ASSUME NEW h \in Heaps, NEW l \in List, NEW w, ListIs(h, l, w), NEW n \in Node,
         h.owner[n] = None
  PROVE  /\ pushed_front(h, l, n) \in Heaps /\ OthersKept(h, pushed_front(h, l, n), l)
         /\ ListIs(pushed_front(h, l, n), l, <<n>> \o w)
<1> DEFINE g == pushed_front(h, l, n)
           u == <<n>> \o w
<1>1. /\ g \in Heaps
      /\ g.first = [h.first EXCEPT ![l] = n]
      /\ g.last = [h.last EXCEPT ![l] = IF h.last[l] = None THEN n ELSE h.last[l]]
      /\ g.next = [h.next EXCEPT ![n] = h.first[l]]
      /\ g.owner = [h.owner EXCEPT ![n] = l]
  BY DEF Heaps, pushed_front, Linked
<1> HIDE DEF g
<1>2. OthersKept(h, g, l)
  <2>1. \A k \in List \ {l} : g.first[k] = h.first[k] /\ g.last[k] = h.last[k]
    BY <1>1 DEF Heaps
  <2>2. \A x \in Node :
           IF h.owner[x] \in {l, None} THEN g.owner[x] \in {l, None}
           ELSE g.owner[x] = h.owner[x] /\ g.next[x] = h.next[x]
    BY <1>1 DEF Heaps
  <2> QED
    BY <1>1, <2>1, <2>2, OnlyThere
<1>3. w \in Seq(Node) /\ Len(w) \in Nat /\ \A i \in 1 .. Len(w) : w[i] \in Node /\ w[i] # None
  BY NodeAssumption DEF ListIs
<1>4. /\ u \in Seq(Node) /\ Len(u) = Len(w) + 1 /\ u[1] = n
      /\ \A i \in 2 .. Len(u) : i - 1 \in 1 .. Len(w) /\ u[i] = w[i - 1]
  BY <1>3
<1> HIDE DEF u
<1>5. \A i \in 1 .. Len(w) : w[i] # n
  BY NodeAssumption DEF ListIs
<1>6. ASSUME NEW i \in 1 .. Len(u), NEW j \in 1 .. Len(u), u[i] = u[j] PROVE i = j
  <2>1. CASE i = 1 \/ j = 1
    BY <1>3, <1>4, <1>5, <1>6, <2>1
  <2>2. CASE i # 1 /\ j # 1
    <3>1. /\ i - 1 \in 1 .. Len(w) /\ j - 1 \in 1 .. Len(w) /\ w[i - 1] = w[j - 1]
      BY <1>3, <1>4, <1>6, <2>2
    <3>2. i - 1 = j - 1
      BY <3>1 DEF ListIs
    <3> QED
      BY <3>2
  <2> QED
    BY <2>1, <2>2
<1>7. g.first[l] = Nth(u, 1) /\ g.last[l] = Nth(u, Len(u))
  <2>1. h.last[l] = Nth(w, Len(w)) /\ n # None
    BY NodeAssumption DEF ListIs
  <2>2. CASE Len(w) = 0
    BY <1>1, <1>4, <2>1, <2>2 DEF Nth, Heaps
  <2>3. CASE Len(w) # 0
    <3>1. /\ Len(w) \in 1 .. Len(w) /\ Len(u) \in 2 .. Len(u) /\ Len(u) - 1 = Len(w)
          /\ Len(u) \in 1 .. Len(u) /\ 1 \in 1 .. Len(u)
      BY <1>3, <1>4, <2>3
    <3>2. u[Len(u)] = w[Len(w)] /\ w[Len(w)] # None
      BY <1>3, <1>4, <3>1
    <3>3. Nth(u, Len(u)) = w[Len(w)] /\ Nth(w, Len(w)) = w[Len(w)] /\ Nth(u, 1) = n
      BY <1>4, <3>1, <3>2 DEF Nth
    <3> QED
      BY <1>1, <2>1, <3>2, <3>3 DEF Heaps
  <2> QED
    BY <1>3, <2>2, <2>3
<1>8. ASSUME NEW i \in 1 .. Len(u) PROVE g.owner[u[i]] = l /\ g.next[u[i]] = Nth(u, i + 1)
  <2>1. CASE i = 1
    <3>1. Nth(u, 2) = Nth(w, 1)
      <4>1. CASE Len(w) = 0
        BY <1>4, <4>1 DEF Nth
      <4>2. CASE Len(w) # 0
        <5>1. 2 \in 2 .. Len(u) /\ 2 \in 1 .. Len(u) /\ 1 \in 1 .. Len(w) /\ 2 - 1 = 1
          BY <1>3, <1>4, <4>2
        <5> QED
          BY <1>4, <5>1 DEF Nth
      <4> QED
        BY <4>1, <4>2
    <3> QED
      BY <1>1, <1>4, <2>1, <3>1 DEF Heaps, ListIs
  <2>2. CASE i # 1
    <3>1. /\ i \in 2 .. Len(u) /\ u[i] = w[i - 1] /\ i - 1 \in 1 .. Len(w) /\ w[i - 1] # n
          /\ w[i - 1] \in Node
      BY <1>3, <1>4, <1>5, <2>2
    <3>2. h.owner[w[i - 1]] = l /\ h.next[w[i - 1]] = Nth(w, i)
      <4>1. h.owner[w[i - 1]] = l /\ h.next[w[i - 1]] = Nth(w, (i - 1) + 1)
        BY <3>1 DEF ListIs
      <4>2. (i - 1) + 1 = i
        BY <3>1
      <4> QED
        BY <4>1, <4>2
    <3>3. Nth(w, i) = Nth(u, i + 1)
      <4>1. CASE i \in 1 .. Len(w)
        <5>1. i + 1 \in 2 .. Len(u) /\ i + 1 \in 1 .. Len(u) /\ (i + 1) - 1 = i
          BY <1>3, <1>4, <4>1
        <5>2. u[i + 1] = w[(i + 1) - 1]
          BY <1>4, <5>1
        <5> QED
          BY <4>1, <5>1, <5>2 DEF Nth
      <4>2. CASE ~ (i \in 1 .. Len(w))
        BY <1>3, <1>4, <4>2, <3>1 DEF Nth
      <4> QED
        BY <4>1, <4>2
    <3> QED
      BY <1>1, <3>1, <3>2, <3>3 DEF Heaps
  <2> QED
    BY <2>1, <2>2
<1>9. ASSUME NEW x \in Node, g.owner[x] = l PROVE \E i \in 1 .. Len(u) : u[i] = x
  <2>1. CASE x = n
    <3>1. 1 \in 1 .. Len(u)
      BY <1>3, <1>4
    <3> QED
      BY <1>4, <2>1, <3>1
  <2>2. CASE x # n
    <3>1. PICK i \in 1 .. Len(w) : w[i] = x
      BY <1>1, <1>9, <2>2 DEF Heaps, ListIs
    <3>2. i + 1 \in 2 .. Len(u) /\ i + 1 \in 1 .. Len(u) /\ (i + 1) - 1 = i
      BY <1>3, <1>4
    <3>3. u[i + 1] = w[(i + 1) - 1]
      BY <1>4, <3>2
    <3> QED
      BY <3>1, <3>2, <3>3
  <2> QED
    BY <2>1, <2>2
<1>10. ListIs(g, l, u)
  BY <1>4, <1>6, <1>7, <1>8, <1>9 DEF ListIs
<1> QED
  BY <1>1, <1>2, <1>10 DEF g, u

(* Taking out the i-th member of a sequence.                               *)
LEMMA WithoutMember ==
  ASSUME NEW X, NEW w \in Seq(X), NEW i \in 1 .. Len(w)
  PROVE  /\ RemoveAt(w, i) \in Seq(X) /\ Len(RemoveAt(w, i)) = Len(w) - 1
         /\ \A j \in 1 .. (Len(w) - 1) :
              RemoveAt(w, i)[j] = IF j < i THEN w[j] ELSE w[j + 1]
         /\ RemoveAt(w, 1) = SubSeq(w, 2, Len(w))
<1> DEFINE p == SubSeq(w, 1, i - 1)
           q == SubSeq(w, i + 1, Len(w))
<1>1. p \in Seq(X) /\ Len(p) = i - 1 /\ \A j \in 1 .. (i - 1) : p[j] = w[j]
  OBVIOUS
<1>2. q \in Seq(X) /\ Len(q) = Len(w) - i /\ \A j \in 1 .. (Len(w) - i) : q[j] = w[i + j]
  OBVIOUS
<1>3. RemoveAt(w, i) = p \o q /\ Len(w) \in Nat
  BY DEF RemoveAt
<1>4. RemoveAt(w, 1) = SubSeq(w, 2, Len(w))
  <2>1. SubSeq(w, 2, Len(w)) \in Seq(X) /\ SubSeq(w, 1, 1 - 1) = <<>>
    OBVIOUS
  <2> QED
    BY <2>1 DEF RemoveAt
<1> HIDE DEF p, q
<1>5. p \o q \in Seq(X) /\ Len(p \o q) = Len(w) - 1
  BY <1>1, <1>2, <1>3
<1>6. ASSUME NEW j \in 1 .. (Len(w) - 1)
      PROVE  (p \o q)[j] = IF j < i THEN w[j] ELSE w[j + 1]
  <2>1. CASE j < i
    BY <1>1, <1>2, <1>3, <2>1
  <2>2. CASE ~ (j < i)
    <3>1. j - (i - 1) \in 1 .. (Len(w) - i) /\ i + (j - (i - 1)) = j + 1 /\ j > Len(p)
      BY <1>1, <1>3, <2>2
    <3>2. (p \o q)[j] = q[j - (i - 1)]
      BY <1>1, <1>2, <1>3, <3>1
    <3>3. q[j - (i - 1)] = w[i + (j - (i - 1))]
      BY <1>2, <3>1
    <3> QED
      BY <2>2, <3>1, <3>2, <3>3
  <2> QED
    BY <2>1, <2>2
<1> QED
  BY <1>3, <1>4, <1>5, <1>6

(* What is at each place after the i-th member has been taken out.         *)
LEMMA NthWithoutMember ==
  ASSUME NEW w \in Seq(Node), NEW i \in 1 .. Len(w), NEW j \in Nat
  PROVE  Nth(RemoveAt(w, i), j) = IF j < i THEN Nth(w, j) ELSE Nth(w, j + 1)
<1> DEFINE u == RemoveAt(w, i)
<1>1. /\ Len(w) \in Nat /\ Len(u) = Len(w) - 1
      /\ \A k \in 1 .. (Len(w) - 1) : u[k] = IF k < i THEN w[k] ELSE w[k + 1]
  BY WithoutMember
<1> HIDE DEF u
<1>2. CASE j \in 1 .. (Len(w) - 1)
  <2>1. j \in 1 .. Len(w) /\ j + 1 \in 1 .. Len(w) /\ u[j] = IF j < i THEN w[j] ELSE w[j + 1]
    BY <1>1, <1>2
  <2> QED
    BY <1>1, <1>2, <2>1 DEF Nth, u
<1>3. CASE ~ (j \in 1 .. (Len(w) - 1))
  <2>1. Nth(u, j) = None
    BY <1>1, <1>3 DEF Nth
  <2>2. CASE j < i
    <3>1. ~ (j \in 1 .. Len(w))
      BY <1>1, <1>3, <2>2
    <3> QED
      BY <2>1, <2>2, <3>1 DEF Nth, u
  <2>3. CASE ~ (j < i)
    <3>1. ~ (j + 1 \in 1 .. Len(w))
      BY <1>1, <1>3, <2>3
    <3> QED
      BY <2>1, <2>3, <3>1 DEF Nth, u
  <2> QED
    BY <2>2, <2>3
<1> QED
  BY <1>2, <1>3

(* Taking the i-th node out of list l, as pop_front, pop_back, erase and   *)
(* remove do it.                                                           *)
Out(h, g, l, w, i) ==
  /\ g \in Heaps
  /\ g.first = [h.first EXCEPT ![l] = IF i = 1 THEN Nth(w, 2) ELSE h.first[l]]
  /\ g.last = [h.last EXCEPT ![l] = IF i = Len(w) THEN Nth(w, i - 1) ELSE h.last[l]]
  /\ g.next = IF i = 1 THEN h.next ELSE [h.next EXCEPT ![w[i - 1]] = Nth(w, i + 1)]
  /\ g.owner = [h.owner EXCEPT ![w[i]] = None]

(* The list without the i-th node is a list, and the others are as before. *)
LEMMA TakenOut ==
  ASSUME NEW h \in Heaps, NEW l \in List, NEW w, ListIs(h, l, w), NEW i \in 1 .. Len(w),
         NEW g, Out(h, g, l, w, i)
  PROVE  OthersKept(h, g, l) /\ ListIs(g, l, RemoveAt(w, i))
<1> DEFINE u == RemoveAt(w, i)
           m == Len(w)
<1>1. /\ w \in Seq(Node) /\ m \in Nat /\ i \in 1 .. m
      /\ \A j \in 1 .. m : w[j] \in Node /\ w[j] # None /\ h.owner[w[j]] = l /\ h.next[w[j]] = Nth(w, j + 1)
      /\ \A j, k \in 1 .. m : w[j] = w[k] => j = k
      /\ h.first[l] = Nth(w, 1) /\ h.last[l] = Nth(w, m)
      /\ l # None
  BY NodeAssumption DEF ListIs
<1>2. /\ u \in Seq(Node) /\ Len(u) = m - 1
      /\ \A k \in 1 .. (m - 1) : u[k] = IF k < i THEN w[k] ELSE w[k + 1]
  BY <1>1, WithoutMember
<1>3. \A j \in Nat : Nth(u, j) = IF j < i THEN Nth(w, j) ELSE Nth(w, j + 1)
  BY <1>1, NthWithoutMember
<1> HIDE DEF u, m
<1>4. /\ g \in Heaps
      /\ g.first = [h.first EXCEPT ![l] = IF i = 1 THEN Nth(w, 2) ELSE h.first[l]]
      /\ g.last = [h.last EXCEPT ![l] = IF i = m THEN Nth(w, i - 1) ELSE h.last[l]]
      /\ g.next = IF i = 1 THEN h.next ELSE [h.next EXCEPT ![w[i - 1]] = Nth(w, i + 1)]
      /\ g.owner = [h.owner EXCEPT ![w[i]] = None]
  BY DEF Out, m
<1>5. /\ g.first[l] = IF i = 1 THEN Nth(w, 2) ELSE h.first[l]
      /\ g.last[l] = IF i = m THEN Nth(w, i - 1) ELSE h.last[l]
      /\ \A k \in List \ {l} : g.first[k] = h.first[k] /\ g.last[k] = h.last[k]
      /\ \A n \in Node : g.owner[n] = IF n = w[i] THEN None ELSE h.owner[n]
  BY <1>4 DEF Heaps
<1>6. \A n \in Node : g.next[n] = IF i # 1 /\ n = w[i - 1] THEN Nth(w, i + 1) ELSE h.next[n]
  BY <1>4 DEF Heaps
<1>7. OthersKept(h, g, l)
  <2>1. i # 1 => h.owner[w[i - 1]] = l
    BY <1>1
  <2>2. \A n \in Node :
           IF h.owner[n] \in {l, None} THEN g.owner[n] \in {l, None}
           ELSE g.owner[n] = h.owner[n] /\ g.next[n] = h.next[n]
    BY <1>1, <1>5, <1>6, <2>1
  <2> QED
    BY <1>4, <1>5, <2>2, OnlyThere
<1>8. \A j \in 1 .. (m - 1) : \E k \in 1 .. m : u[j] = w[k] /\ k = IF j < i THEN j ELSE j + 1
  <2> SUFFICES ASSUME NEW j \in 1 .. (m - 1)
               PROVE  \E k \in 1 .. m : u[j] = w[k] /\ k = IF j < i THEN j ELSE j + 1
    OBVIOUS
  <2>1. j \in 1 .. m /\ j + 1 \in 1 .. m
    BY <1>1
  <2> QED
    BY <1>2, <2>1
<1>9. ASSUME NEW j \in 1 .. (m - 1), NEW k \in 1 .. (m - 1), u[j] = u[k] PROVE j = k
  <2>1. PICK a \in 1 .. m : u[j] = w[a] /\ a = IF j < i THEN j ELSE j + 1
    BY <1>8
  <2>2. PICK b \in 1 .. m : u[k] = w[b] /\ b = IF k < i THEN k ELSE k + 1
    BY <1>8
  <2>3. a = b
    BY <1>1, <1>9, <2>1, <2>2
  <2> QED
    BY <1>1, <2>1, <2>2, <2>3
<1>10. g.first[l] = Nth(u, 1) /\ g.last[l] = Nth(u, m - 1)
  <2>1. Nth(u, 1) = IF 1 < i THEN Nth(w, 1) ELSE Nth(w, 2)
    BY <1>3
  <2>2. m - 1 \in Nat /\ (m - 1 < i <=> i = m) /\ (m - 1) + 1 = m
    BY <1>1
  <2>3. Nth(u, m - 1) = IF m - 1 < i THEN Nth(w, m - 1) ELSE Nth(w, m)
    BY <1>3, <2>2
  <2> QED
    BY <1>1, <1>5, <2>1, <2>2, <2>3
<1>11. ASSUME NEW j \in 1 .. (m - 1) PROVE g.owner[u[j]] = l /\ g.next[u[j]] = Nth(u, j + 1)
  <2>1. PICK a \in 1 .. m : u[j] = w[a] /\ a = IF j < i THEN j ELSE j + 1
    BY <1>8
  <2>2. a # i /\ w[a] # w[i] /\ w[a] \in Node
    BY <1>1, <2>1
  <2>3. g.owner[u[j]] = l
    <3>1. h.owner[w[a]] = l
      BY <1>1
    <3>2. g.owner[w[a]] = h.owner[w[a]]
      BY <1>5, <2>2
    <3> QED
      BY <2>1, <3>1, <3>2
  <2>4. Nth(u, j + 1) = IF j + 1 < i THEN Nth(w, j + 1) ELSE Nth(w, j + 2)
    <3>1. j + 1 \in Nat /\ (j + 1) + 1 = j + 2
      OBVIOUS
    <3>2. Nth(u, j + 1) = IF j + 1 < i THEN Nth(w, j + 1) ELSE Nth(w, (j + 1) + 1)
      BY <1>3, <3>1
    <3> QED
      BY <3>1, <3>2
  <2>5. CASE i # 1 /\ a = i - 1
    <3>1. j = i - 1 /\ ~ (j + 1 < i) /\ j + 2 = i + 1
      BY <1>1, <2>1, <2>5
    <3>2. g.next[u[j]] = Nth(w, i + 1)
      BY <1>6, <2>1, <2>2, <2>5
    <3> QED
      BY <2>3, <2>4, <3>1, <3>2
  <2>6. CASE ~ (i # 1 /\ a = i - 1)
    <3>1. ~ (i # 1 /\ w[a] = w[i - 1])
      <4> SUFFICES ASSUME i # 1, w[a] = w[i - 1] PROVE FALSE
        OBVIOUS
      <4>1. i - 1 \in 1 .. m
        BY <1>1
      <4>2. a = i - 1
        BY <1>1, <4>1
      <4> QED
        BY <2>6, <4>2
    <3>2. g.next[u[j]] = Nth(w, a + 1)
      <4>1. g.next[w[a]] = h.next[w[a]]
        BY <1>6, <2>2, <3>1
      <4>2. h.next[w[a]] = Nth(w, a + 1)
        BY <1>1
      <4> QED
        BY <2>1, <4>1, <4>2
    <3>3. a + 1 = IF j + 1 < i THEN j + 1 ELSE j + 2
      BY <1>1, <2>1, <2>6
    <3> QED
      BY <2>3, <2>4, <3>2, <3>3
  <2> QED
    BY <2>5, <2>6
<1>12. ASSUME NEW n \in Node, g.owner[n] = l PROVE \E j \in 1 .. (m - 1) : u[j] = n
  <2>1. n # w[i] /\ h.owner[n] = l
    BY <1>1, <1>5, <1>12
  <2>2. PICK a \in 1 .. m : w[a] = n
    BY <2>1 DEF ListIs, m
  <2>3. CASE a < i
    <3>1. a \in 1 .. (m - 1)
      BY <1>1, <2>3
    <3> QED
      BY <1>2, <2>2, <2>3, <3>1
  <2>4. CASE a > i
    <3>1. a - 1 \in 1 .. (m - 1) /\ ~ (a - 1 < i) /\ (a - 1) + 1 = a
      BY <1>1, <2>4
    <3>2. u[a - 1] = w[(a - 1) + 1]
      BY <1>2, <3>1
    <3> QED
      BY <2>2, <3>1, <3>2
  <2>5. a # i
    BY <2>1, <2>2
  <2> QED
    BY <1>1, <2>3, <2>4, <2>5
<1>13. ListIs(g, l, u)
  BY <1>2, <1>9, <1>10, <1>11, <1>12 DEF ListIs
<1> QED
  BY <1>7, <1>13 DEF u

(* push_back puts a node without a list at the end.                        *)
LEMMA BackPushed ==
  ASSUME NEW h \in Heaps, NEW l \in List, NEW w, ListIs(h, l, w), NEW n \in Node,
         h.owner[n] = None
  PROVE  /\ pushed_back(h, l, n) \in Heaps /\ OthersKept(h, pushed_back(h, l, n), l)
         /\ ListIs(pushed_back(h, l, n), l, Append(w, n))
<1> DEFINE g == pushed_back(h, l, n)
           u == Append(w, n)
           m == Len(w)
<1>1. /\ w \in Seq(Node) /\ m \in Nat /\ n # None /\ l # None
      /\ \A j \in 1 .. m : w[j] \in Node /\ w[j] # None
      /\ \A j \in 1 .. m : h.owner[w[j]] = l /\ h.next[w[j]] = Nth(w, j + 1)
      /\ \A j, k \in 1 .. m : w[j] = w[k] => j = k
      /\ h.first[l] = Nth(w, 1) /\ h.last[l] = Nth(w, m)
  BY NodeAssumption DEF ListIs
<1>2. \A j \in 1 .. m : w[j] # n
  BY <1>1
<1>3. /\ u \in Seq(Node) /\ Len(u) = m + 1 /\ u[m + 1] = n
      /\ \A j \in 1 .. m : u[j] = w[j]
  BY <1>1
<1> HIDE DEF u, m
<1>4. (h.first[l] = None <=> m = 0) /\ (m # 0 => h.last[l] = w[m] /\ m \in 1 .. m)
  BY <1>1 DEF Nth, m
<1>5. /\ g.last = [h.last EXCEPT ![l] = n]
      /\ g.owner = [h.owner EXCEPT ![n] = l]
      /\ g.first = IF m = 0 THEN [h.first EXCEPT ![l] = n] ELSE h.first
      /\ g.next = IF m = 0 THEN [h.next EXCEPT ![n] = None]
                  ELSE [h.next EXCEPT ![w[m]] = n, ![n] = None]
      /\ g \in Heaps
  <2>1. CASE m = 0
    BY <1>4, <2>1 DEF Heaps, pushed_back, Linked
  <2>2. CASE m # 0
    BY <1>1, <1>4, <2>2 DEF Heaps, pushed_back, Linked
  <2> QED
    BY <2>1, <2>2
<1> HIDE DEF g
<1>6. /\ g.first[l] = IF m = 0 THEN n ELSE h.first[l]
      /\ g.last[l] = n
      /\ \A k \in List \ {l} : g.first[k] = h.first[k] /\ g.last[k] = h.last[k]
      /\ \A x \in Node : g.owner[x] = IF x = n THEN l ELSE h.owner[x]
  BY <1>5 DEF Heaps
<1>7. \A x \in Node : g.next[x] = IF x = n THEN None
                                  ELSE IF m # 0 /\ x = w[m] THEN n ELSE h.next[x]
  BY <1>1, <1>4, <1>5 DEF Heaps
<1>8. OthersKept(h, g, l)
  <2>1. m # 0 => h.owner[w[m]] = l
    BY <1>1, <1>4
  <2>2. \A x \in Node :
           IF h.owner[x] \in {l, None} THEN g.owner[x] \in {l, None}
           ELSE g.owner[x] = h.owner[x] /\ g.next[x] = h.next[x]
    BY <1>1, <1>6, <1>7, <2>1
  <2> QED
    BY <1>5, <1>6, <2>2, OnlyThere
<1>9. ASSUME NEW i \in 1 .. (m + 1), NEW j \in 1 .. (m + 1), u[i] = u[j] PROVE i = j
  <2>1. \A k \in 1 .. (m + 1) : k = m + 1 \/ k \in 1 .. m
    BY <1>1
  <2> QED
    BY <1>1, <1>2, <1>3, <1>9, <2>1
<1>10. Nth(u, m + 1) = n /\ Nth(u, m + 2) = None /\ \A j \in 1 .. m : Nth(u, j) = w[j]
  BY <1>1, <1>3 DEF Nth
<1>11. g.first[l] = Nth(u, 1) /\ g.last[l] = Nth(u, m + 1)
  <2>1. CASE m = 0
    BY <1>6, <1>10, <2>1
  <2>2. CASE m # 0
    <3>1. 1 \in 1 .. m
      BY <1>1, <2>2
    <3>2. Nth(w, 1) = w[1]
      BY <3>1 DEF Nth, m
    <3> QED
      BY <1>1, <1>6, <1>10, <2>2, <3>1, <3>2
  <2> QED
    BY <2>1, <2>2
<1>12. ASSUME NEW j \in 1 .. (m + 1) PROVE g.owner[u[j]] = l /\ g.next[u[j]] = Nth(u, j + 1)
  <2>1. CASE j = m + 1
    <3>1. j + 1 = m + 2
      BY <1>1, <2>1
    <3> QED
      BY <1>3, <1>6, <1>7, <1>10, <2>1, <3>1
  <2>2. CASE j = m /\ m # 0
    <3>1. j \in 1 .. m /\ u[j] = w[m] /\ w[m] # n /\ w[m] \in Node
      BY <1>1, <1>2, <1>3, <1>4, <2>2
    <3>2. g.next[w[m]] = n
      BY <1>7, <2>2, <3>1
    <3>3. g.owner[w[m]] = h.owner[w[m]]
      BY <1>6, <3>1
    <3>4. h.owner[w[m]] = l
      BY <1>1, <2>2, <3>1
    <3> QED
      BY <1>10, <2>2, <3>1, <3>2, <3>3, <3>4
  <2>3. CASE j # m /\ j # m + 1
    <3>1. j \in 1 .. m /\ j + 1 \in 1 .. m /\ m \in 1 .. m /\ m # 0
      BY <1>1, <2>3
    <3>2. w[j] # n /\ w[j] # w[m] /\ w[j] \in Node /\ u[j] = w[j]
      BY <1>1, <1>2, <1>3, <2>3, <3>1
    <3>3. h.next[w[j]] = w[j + 1]
      <4>1. Nth(w, j + 1) = w[j + 1]
        BY <3>1 DEF Nth, m
      <4> QED
        BY <1>1, <3>1, <4>1
    <3>4. g.next[u[j]] = w[j + 1] /\ g.owner[u[j]] = l
      <4>1. g.next[w[j]] = h.next[w[j]] /\ g.owner[w[j]] = h.owner[w[j]]
        BY <1>6, <1>7, <3>2
      <4>2. h.owner[w[j]] = l
        BY <1>1, <3>1
      <4> QED
        BY <3>2, <3>3, <4>1, <4>2
    <3>5. Nth(u, j + 1) = w[j + 1]
      BY <1>10, <3>1
    <3> QED
      BY <3>4, <3>5
  <2>4. m = 0 => j = m + 1
    BY <1>1
  <2> QED
    BY <2>1, <2>2, <2>3, <2>4
<1>13. ASSUME NEW x \in Node, g.owner[x] = l PROVE \E j \in 1 .. (m + 1) : u[j] = x
  <2>1. CASE x = n
    <3>1. m + 1 \in 1 .. (m + 1)
      BY <1>1
    <3> QED
      BY <1>3, <2>1, <3>1
  <2>2. CASE x # n
    <3>1. PICK j \in 1 .. m : w[j] = x
      BY <1>6, <1>13, <2>2 DEF ListIs, m
    <3>2. j \in 1 .. (m + 1)
      BY <1>1
    <3> QED
      BY <1>3, <3>1, <3>2
  <2> QED
    BY <2>1, <2>2
<1>14. ListIs(g, l, u)
  BY <1>3, <1>9, <1>11, <1>12, <1>13 DEF ListIs
<1> QED
  BY <1>5, <1>8, <1>14 DEF g, u

(* pop_front takes out the first node, if there is one.                    *)
LEMMA FrontPopped ==
  ASSUME NEW h \in Heaps, NEW l \in List, NEW w, ListIs(h, l, w)
  PROVE  /\ Len(w) = 0 => popped_front(h, l) = h
         /\ Len(w) # 0 => Out(h, popped_front(h, l), l, w, 1)
         /\ h.first[l] = None <=> Len(w) = 0
<1>1. /\ w \in Seq(Node) /\ Len(w) \in Nat
      /\ \A j \in 1 .. Len(w) : w[j] \in Node /\ w[j] # None /\ h.next[w[j]] = Nth(w, j + 1)
      /\ h.first[l] = Nth(w, 1) /\ h.last[l] = Nth(w, Len(w))
  BY NodeAssumption DEF ListIs
<1>2. CASE Len(w) = 0
  <2>1. h.first[l] = None
    BY <1>1, <1>2 DEF Nth
  <2> QED
    BY <1>2, <2>1 DEF popped_front
<1>3. CASE Len(w) # 0
  <2>1. 1 \in 1 .. Len(w) /\ 1 + 1 = 2 /\ Nth(w, 1) = w[1] /\ Nth(w, 0) = None /\ 1 - 1 = 0
    BY <1>1, <1>3 DEF Nth
  <2>2. h.first[l] = w[1] /\ w[1] # None /\ h.next[w[1]] = Nth(w, 2) /\ w[1] \in Node
    BY <1>1, <2>1
  <2>3. Nth(w, 2) = None <=> Len(w) = 1
    <3>1. ~ (2 \in 1 .. Len(w)) => Len(w) = 1
      <4>1. \A m \in Nat : m = 0 \/ m = 1 \/ 2 \in 1 .. m
        OBVIOUS
      <4> QED
        BY <1>1, <1>3, <4>1, Zenon
    <3>2. CASE 2 \in 1 .. Len(w)
      BY <1>1, <3>2 DEF Nth
    <3>3. CASE ~ (2 \in 1 .. Len(w))
      BY <3>1, <3>3 DEF Nth
    <3> QED
      BY <3>2, <3>3
  <2>4. Nth(w, 2) \in Node \cup {None}
    BY <1>1 DEF Nth
  <2> DEFINE g == popped_front(h, l)
             y == Nth(w, 2)
  <2>5. /\ g.first = [h.first EXCEPT ![l] = y]
        /\ g.last = [h.last EXCEPT ![l] = IF y = None THEN None ELSE h.last[l]]
        /\ g.next = h.next
        /\ g.owner = [h.owner EXCEPT ![w[1]] = None]
        /\ g \in Heaps
    <3> HIDE DEF y
    <3> QED
      BY <2>2, <2>4 DEF popped_front, removeFromList, Heaps, y
  <2> HIDE DEF g
  <2>6. Out(h, g, l, w, 1)
    BY <2>1, <2>3, <2>5 DEF Out
  <2> QED
    BY <1>3, <2>2, <2>6 DEF g
<1> QED
  BY <1>2, <1>3

(* The predecessor that is looked for is the node at the place before.     *)
LEMMA PredecessorFound ==
  ASSUME NEW h \in Heaps, NEW l \in List, NEW w, ListIs(h, l, w), NEW i \in 2 .. Len(w)
  PROVE  findPredecessor(h, l, w[i]) = w[i - 1]
<1>1. Walk(h, l) = w
  BY WalkIs
<1>2. /\ w \in Seq(Node) /\ Len(w) \in Nat /\ DOMAIN w = 1 .. Len(w)
      /\ \A j \in 1 .. Len(w) : w[j] \in Node /\ w[j] # None /\ h.next[w[j]] = Nth(w, j + 1)
      /\ \A j, k \in 1 .. Len(w) : w[j] = w[k] => j = k
  BY NodeAssumption DEF ListIs
<1>3. i \in 1 .. Len(w) /\ i - 1 \in 1 .. Len(w) /\ (i - 1) + 1 = i
  BY <1>2
<1>4. h.next[w[i - 1]] = w[i]
  BY <1>2, <1>3 DEF Nth
<1>5. ASSUME NEW j \in 1 .. Len(w), h.next[w[j]] = w[i] PROVE j = i - 1
  <2>1. Nth(w, j + 1) = w[i] /\ w[i] # None
    BY <1>2, <1>3, <1>5
  <2>2. j + 1 \in 1 .. Len(w) /\ w[j + 1] = w[i]
    BY <2>1 DEF Nth
  <2>3. j + 1 = i
    BY <1>2, <1>3, <2>2
  <2> QED
    BY <2>3
<1>6. (CHOOSE j \in DOMAIN w : h.next[w[j]] = w[i]) = i - 1
  BY <1>2, <1>3, <1>4, <1>5
<1> QED
  BY <1>1, <1>6 DEF findPredecessor

(* erase and remove take out a node that is not the first.                 *)
LEMMA NodeUnlinked ==
  ASSUME NEW h \in Heaps, NEW l \in List, NEW w, ListIs(h, l, w), NEW i \in 2 .. Len(w)
  PROVE  Out(h, unlinked(h, l, w[i]), l, w, i)
<1>1. /\ w \in Seq(Node) /\ Len(w) \in Nat
      /\ \A j \in 1 .. Len(w) : w[j] \in Node /\ w[j] # None /\ h.next[w[j]] = Nth(w, j + 1)
      /\ \A j, k \in 1 .. Len(w) : w[j] = w[k] => j = k
      /\ h.first[l] = Nth(w, 1) /\ h.last[l] = Nth(w, Len(w))
  BY NodeAssumption DEF ListIs
<1>2. i \in 1 .. Len(w) /\ i - 1 \in 1 .. Len(w) /\ (i - 1) + 1 = i /\ i # 1
  BY <1>1
<1>3. Len(w) \in 1 .. Len(w) /\ (Len(w) = i <=> w[Len(w)] = w[i])
  BY <1>1, <1>2
<1>4. findPredecessor(h, l, w[i]) = w[i - 1]
  BY PredecessorFound
<1> DEFINE p == w[i - 1]
           n == w[i]
           y == Nth(w, i + 1)
           g == unlinked(h, l, n)
<1>5. /\ h.next[p] = n /\ h.next[n] = y /\ p \in Node /\ n \in Node
      /\ y \in Node \cup {None} /\ Nth(w, i - 1) = p
      /\ h.last[l] = n <=> i = Len(w)
  BY <1>1, <1>2, <1>3 DEF Nth
<1>6. findPredecessor(h, l, n) = p
  BY <1>4
<1> HIDE DEF p, n, y
<1>7. /\ g.first = h.first
      /\ g.last = [h.last EXCEPT ![l] = IF n = h.last[l] THEN p ELSE h.last[l]]
      /\ g.next = [h.next EXCEPT ![p] = y]
      /\ g.owner = [h.owner EXCEPT ![n] = None]
      /\ g \in Heaps
  <2>1. /\ h.next[p] = n /\ h.next[n] = y /\ p \in Node /\ n \in Node
        /\ y \in Node \cup {None}
    BY <1>5
  <2>2. g = [removeFromList(h, n) EXCEPT
               !.last[l] = IF h.next[p] = @ THEN p ELSE @, !.next[p] = h.next[n]]
    BY <1>6 DEF unlinked
  <2> HIDE DEF g
  <2> QED
    BY <2>1, <2>2 DEF removeFromList, Heaps
<1>8. h.first = [h.first EXCEPT ![l] = h.first[l]]
  BY DEF Heaps
<1> HIDE DEF g
<1>9. Out(h, g, l, w, i)
  BY <1>2, <1>5, <1>7, <1>8 DEF Out, p, n, y
<1> QED
  BY <1>9 DEF g, n

(* pop_back takes out the last of several nodes.                           *)
LEMMA BackPopped ==
  ASSUME NEW h \in Heaps, NEW l \in List, NEW w, ListIs(h, l, w), Len(w) \in 2 .. Len(w)
  PROVE  Out(h, popped_back(h, l), l, w, Len(w))
<1>1. /\ w \in Seq(Node) /\ Len(w) \in Nat
      /\ \A j \in 1 .. Len(w) : w[j] \in Node /\ w[j] # None /\ h.next[w[j]] = Nth(w, j + 1)
      /\ h.first[l] = Nth(w, 1) /\ h.last[l] = Nth(w, Len(w))
  BY NodeAssumption DEF ListIs
<1> DEFINE i == Len(w)
           p == w[i - 1]
           n == w[i]
           g == popped_back(h, l)
<1>2. i \in 2 .. Len(w) /\ i \in 1 .. Len(w) /\ i - 1 \in 1 .. Len(w) /\ i # 1
  BY <1>1
<1>3. findPredecessor(h, l, n) = p
  <2> HIDE DEF i
  <2> QED
    BY <1>2, PredecessorFound
<1>4. h.last[l] = n /\ p \in Node /\ n \in Node /\ Nth(w, i - 1) = p /\ Nth(w, i + 1) = None
  BY <1>1, <1>2 DEF Nth
<1>5. i = Len(w)
  OBVIOUS
<1> HIDE DEF i, p, n
<1>6. /\ g.first = h.first
      /\ g.last = [h.last EXCEPT ![l] = p]
      /\ g.next = [h.next EXCEPT ![p] = None]
      /\ g.owner = [h.owner EXCEPT ![n] = None]
      /\ g \in Heaps
  BY <1>3, <1>4 DEF popped_back, removeFromList, Heaps
<1>7. h.first = [h.first EXCEPT ![l] = h.first[l]]
  BY DEF Heaps
<1> HIDE DEF g
<1>8. Out(h, g, l, w, i)
  BY <1>2, <1>4, <1>5, <1>6, <1>7 DEF Out, p, n
<1> QED
  BY <1>5, <1>8 DEF g

----------------------------------------------------------------------------
(* The inductive invariant. *)

(* The links of each list are a sequence.                                  *)
Listed == \A l \in List : ListIs(heap, l, Walk(heap, l))

(* The nodes of w up to the i-th are those of w that have been called, in  *)
(* their order; the iterator is at the i-th, or leads to the one behind.   *)
CalledUpTo(h, p, it, s, w, i) ==
  /\ InOrder(s, w)
  /\ \A j \in 1 .. Len(w) : w[j] \in ToSet(s) <=> j <= i
  /\ p = "at" => it = Nth(w, i + 1)
  /\ p = "in" => i # 0 /\ it = w[i]
  /\ p = "out" => it \in Node /\ h.next[it] = Nth(w, i + 1)

Passing ==
  phase # "off" =>
    /\ pass \in List /\ ~aborted
    /\ \E i \in 0 .. Len(Walk(heap, pass)) :
         CalledUpTo(heap, phase, itr, visited, Walk(heap, pass), i)

IInv == TypeOK /\ Listed /\ Passing

(* A change of the heap after which list l is v and no other has changed.  *)
Turns(h, g, l, v) == g \in Heaps /\ OthersKept(h, g, l) /\ ListIs(g, l, v)

(* A step with such a change.                                              *)
Changed(l, v) ==
  /\ heap' \in Heaps
  /\ \A k \in List : ListIs(heap', k, Walk(heap', k))
  /\ Walk(heap', l) = v
  /\ \A k \in List \ {l} : Walk(heap', k) = Walk(heap, k)

(* A step that turns one list into v leaves well-formed lists.             *)
LEMMA TurnChanges ==
  ASSUME heap \in Heaps, Listed, NEW l \in List, NEW v, Turns(heap, heap', l, v)
  PROVE  Changed(l, v)
<1>1. heap' \in Heaps /\ ListIs(heap', l, v)
  BY DEF Turns
<1>2. Walk(heap', l) = v
  BY <1>1, WalkIs
<1>3. ASSUME NEW k \in List \ {l}
      PROVE  ListIs(heap', k, Walk(heap, k)) /\ Walk(heap', k) = Walk(heap, k)
  <2>1. ListIs(heap, k, Walk(heap, k))
    BY DEF Listed
  <2>2. ListIs(heap', k, Walk(heap, k))
    BY <2>1 DEF Turns, OthersKept
  <2> QED
    BY <1>1, <2>2, WalkIs
<1> QED
  BY <1>1, <1>2, <1>3 DEF Changed

(* Leaving the heap as it is.                                              *)
LEMMA SameHeap ==
  ASSUME heap \in Heaps, Listed, NEW l \in List, heap' = heap
  PROVE  Changed(l, Walk(heap, l))
BY DEF Listed, Changed

(* Each list is a sequence of different nodes, those it owns.              *)
LEMMA ListFacts ==
  ASSUME heap \in Heaps, Listed, NEW l \in List
  PROVE  /\ ListIs(heap, l, Walk(heap, l))
         /\ Walk(heap, l) \in Seq(Node) /\ Len(Walk(heap, l)) \in Nat
         /\ DOMAIN Walk(heap, l) = 1 .. Len(Walk(heap, l))
         /\ \A n \in Node : /\ contains_node(l, n) <=> n \in ToSet(Walk(heap, l))
                            /\ contains_node(l, n) <=> heap.owner[n] = l
                            /\ contains_node(l, n) <=> \E i \in 1 .. Len(Walk(heap, l)) : Walk(heap, l)[i] = n
<1> DEFINE w == Walk(heap, l)
<1>1. ListIs(heap, l, w)
  BY DEF Listed
<1> HIDE DEF w
<1>2. /\ w \in Seq(Node) /\ Len(w) \in Nat /\ DOMAIN w = 1 .. Len(w)
      /\ \A i \in 1 .. Len(w) : heap.owner[w[i]] = l
      /\ \A n \in Node : heap.owner[n] = l => \E i \in 1 .. Len(w) : w[i] = n
  BY <1>1 DEF ListIs
<1>3. \A n : n \in ToSet(w) <=> \E i \in 1 .. Len(w) : w[i] = n
  BY <1>2 DEF ToSet
<1>4. \A n \in Node : contains_node(l, n) <=> n \in ToSet(w)
  BY DEF contains_node, w
<1> QED
  BY <1>1, <1>2, <1>3, <1>4 DEF w

(* Taking out the i-th node, which keeps its link.                         *)
Takes(h, g, l, w, i) == Turns(h, g, l, RemoveAt(w, i)) /\ g.next[w[i]] = h.next[w[i]]

(* What pop_front, erase and remove do to the i-th node.                   *)
LEMMA NodeTakenOut ==
  ASSUME NEW h \in Heaps, NEW l \in List, NEW w, ListIs(h, l, w), NEW i \in 1 .. Len(w)
  PROVE  /\ i = 1 => Takes(h, popped_front(h, l), l, w, i)
         /\ i # 1 => Takes(h, unlinked(h, l, w[i]), l, w, i)
         /\ i # 1 /\ i = Len(w) => Takes(h, popped_back(h, l), l, w, i)
         /\ h.first[l] = w[i] <=> i = 1
         /\ h.last[l] = w[i] <=> i = Len(w)
<1>1. /\ w \in Seq(Node) /\ Len(w) \in Nat
      /\ \A j, k \in 1 .. Len(w) : w[j] = w[k] => j = k
      /\ h.first[l] = Nth(w, 1) /\ h.last[l] = Nth(w, Len(w))
  BY DEF ListIs
<1>2. Len(w) # 0 /\ 1 \in 1 .. Len(w) /\ Len(w) \in 1 .. Len(w) /\ (i # 1 => i \in 2 .. Len(w))
  BY <1>1
<1>3. \A g : Out(h, g, l, w, i) => Takes(h, g, l, w, i)
  <2>1. \A g : Out(h, g, l, w, i) => OthersKept(h, g, l) /\ ListIs(g, l, RemoveAt(w, i))
    BY TakenOut
  <2>2. \A g : Out(h, g, l, w, i) => g \in Heaps
    BY DEF Out
  <2>3. i # 1 => w[i - 1] # w[i]
    <3>1. i # 1 => i - 1 \in 1 .. Len(w) /\ i - 1 # i
      BY <1>1
    <3> QED
      BY <1>1, <3>1
  <2>4. w[i] \in Node
    BY <1>1
  <2>5. ASSUME NEW g, Out(h, g, l, w, i) PROVE g.next[w[i]] = h.next[w[i]]
    <3>1. h.next \in [Node -> Node \cup {None}]
      BY DEF Heaps
    <3>2. g.next = IF i = 1 THEN h.next ELSE [h.next EXCEPT ![w[i - 1]] = Nth(w, i + 1)]
      BY <2>5 DEF Out
    <3> QED
      BY <2>3, <2>4, <3>1, <3>2
  <2> QED
    BY <2>1, <2>2, <2>5 DEF Turns, Takes
<1>4. i = 1 => Out(h, popped_front(h, l), l, w, i)
  BY <1>2, FrontPopped
<1>5. i # 1 => Out(h, unlinked(h, l, w[i]), l, w, i)
  BY <1>2, NodeUnlinked
<1>6. i # 1 /\ i = Len(w) => Out(h, popped_back(h, l), l, w, i)
  <2> SUFFICES ASSUME i # 1, i = Len(w) PROVE Out(h, popped_back(h, l), l, w, Len(w))
    OBVIOUS
  <2>1. Len(w) \in 2 .. Len(w)
    BY <1>2
  <2> QED
    BY <2>1, BackPopped
<1>7. h.first[l] = w[1] /\ h.last[l] = w[Len(w)]
  BY <1>1, <1>2 DEF Nth
<1>8. (h.first[l] = w[i] <=> i = 1) /\ (h.last[l] = w[i] <=> i = Len(w))
  BY <1>1, <1>2, <1>7
<1> QED
  BY <1>3, <1>4, <1>5, <1>6, <1>8

(* clear empties the list.                                                 *)
LEMMA ListCleared ==
  ASSUME NEW h \in Heaps, NEW l \in List, NEW w, ListIs(h, l, w)
  PROVE  Turns(h, Cleared(h, l, Len(w)), l, <<>>)
<1> DEFINE m == Len(w)
           step == [k \in 1 .. m |-> [x \in Heaps |-> popped_front(x, l)]]
           C == CHOOSE c : c = [k \in 0 .. m |-> IF k = 0 THEN h ELSE popped_front(c[k - 1], l)]
           rest(k) == SubSeq(w, k + 1, m)
<1>1. Cleared(h, l, m) = C[m]
  BY DEF Cleared
<1>2. w \in Seq(Node) /\ m \in Nat
  BY DEF ListIs
<1>3. \A x \in Heaps : popped_front(x, l) \in Heaps
  BY DEF popped_front, removeFromList, Heaps
<1> HIDE DEF m
<1>4. step \in [1 .. m -> [Heaps -> Heaps]]
      /\ \A k \in 1 .. m : \A x \in Heaps : step[k][x] = popped_front(x, l)
  BY <1>3
<1> HIDE DEF step
<1>5. PICK c : Run(c, Heaps, h, m, step)
  BY <1>2, <1>4, Rounds, Zenon
<1>6. c \in [0 .. m -> Heaps] /\ c[0] = h /\ \A k \in 1 .. m : c[k] = popped_front(c[k - 1], l)
  <2>1. c \in [0 .. m -> Heaps] /\ c[0] = h /\ \A k \in 1 .. m : c[k] = step[k][c[k - 1]]
    BY <1>5, Zenon DEF Run
  <2>2. \A k \in 1 .. m : k - 1 \in 0 .. m
    BY <1>2
  <2>3. \A k \in 1 .. m : c[k - 1] \in Heaps
    BY <2>1, <2>2
  <2> QED
    BY <1>4, <2>1, <2>3
<1>7. c = [k \in 0 .. m |-> IF k = 0 THEN h ELSE popped_front(c[k - 1], l)]
  <2>1. \A k \in 0 .. m : k # 0 => k \in 1 .. m
    BY <1>2
  <2>2. \A k \in 0 .. m : c[k] = IF k = 0 THEN h ELSE popped_front(c[k - 1], l)
    BY <1>6, <2>1
  <2>3. c = [k \in 0 .. m |-> c[k]]
    BY <1>6
  <2> QED
    BY <2>2, <2>3
<1>8. C = [k \in 0 .. m |-> IF k = 0 THEN h ELSE popped_front(C[k - 1], l)]
  BY <1>7, Zenon
<1> HIDE DEF C
<1> DEFINE S == {k \in 0 .. m : Turns(h, C[k], l, rest(k))}
<1>9. 0 \in S
  <2>1. 0 \in 0 .. m /\ C[0] = h
    BY <1>2, <1>8
  <2>2. rest(0) = w
    BY <1>2 DEF m
  <2> HIDE DEF rest
  <2>3. Turns(h, h, l, w)
    BY DEF Turns, OthersKept
  <2> QED
    BY <2>1, <2>2, <2>3
<1>10. ASSUME NEW k \in 1 .. m, k - 1 \in S PROVE k \in S
  <2>1. Turns(h, C[k - 1], l, rest(k - 1)) /\ k \in 0 .. m
    BY <1>2, <1>10
  <2>2. C[k] = popped_front(C[k - 1], l)
    BY <1>2, <1>8, <2>1
  <2>3. /\ Len(rest(k - 1)) \in Nat /\ 1 \in 1 .. Len(rest(k - 1))
        /\ RemoveAt(rest(k - 1), 1) = rest(k)
    <3> DEFINE v == rest(k - 1)
    <3>1. v \in Seq(Node) /\ Len(v) = m - k + 1 /\ \A j \in 1 .. (m - k + 1) : v[j] = w[k - 1 + j]
      BY <1>2 DEF m
    <3>2. rest(k) \in Seq(Node) /\ Len(rest(k)) = m - k /\ \A j \in 1 .. (m - k) : rest(k)[j] = w[k + j]
      BY <1>2 DEF m
    <3> HIDE DEF v, rest
    <3>3. 1 \in 1 .. Len(v)
      BY <1>2, <3>1
    <3> DEFINE r == RemoveAt(v, 1)
    <3>4. /\ r \in Seq(Node) /\ Len(r) = Len(v) - 1
          /\ \A j \in 1 .. (Len(v) - 1) : r[j] = IF j < 1 THEN v[j] ELSE v[j + 1]
      BY <3>1, <3>3, WithoutMember
    <3> HIDE DEF r
    <3>5. Len(r) = Len(rest(k))
      BY <1>2, <3>1, <3>2, <3>4
    <3>6. \A j \in 1 .. Len(r) : r[j] = rest(k)[j]
      <4> SUFFICES ASSUME NEW j \in 1 .. Len(r) PROVE r[j] = rest(k)[j]
        OBVIOUS
      <4>1. /\ j \in 1 .. (Len(v) - 1) /\ ~ (j < 1) /\ j + 1 \in 1 .. (m - k + 1)
            /\ j \in 1 .. (m - k) /\ k - 1 + (j + 1) = k + j
        BY <1>2, <3>1, <3>4
      <4>2. r[j] = v[j + 1] /\ v[j + 1] = w[k - 1 + (j + 1)] /\ rest(k)[j] = w[k + j]
        BY <3>1, <3>2, <3>4, <4>1
      <4> QED
        BY <4>1, <4>2
    <3>7. r = rest(k)
      BY <3>2, <3>4, <3>5, <3>6
    <3> QED
      BY <1>2, <3>1, <3>3, <3>7 DEF r, v
  <2> HIDE DEF rest
  <2>4. C[k - 1] \in Heaps /\ ListIs(C[k - 1], l, rest(k - 1)) /\ OthersKept(h, C[k - 1], l)
    BY <2>1 DEF Turns
  <2>5. Turns(C[k - 1], C[k], l, rest(k))
    BY <2>2, <2>3, <2>4, NodeTakenOut DEF Takes
  <2>6. Turns(h, C[k], l, rest(k))
    BY <2>4, <2>5 DEF Turns, OthersKept
  <2> QED
    BY <2>1, <2>6
<1>11. m \in S
  <2> HIDE DEF S
  <2>1. \A k \in 0 .. m : k \in S
    BY <1>2, <1>9, <1>10, UpTo
  <2> QED
    BY <1>2, <2>1
<1>12. rest(m) = <<>>
  BY <1>2 DEF m
<1> HIDE DEF rest
<1>13. Turns(h, C[m], l, <<>>)
  BY <1>11, <1>12
<1> QED
  BY <1>1, <1>13 DEF m

----------------------------------------------------------------------------
(* What the steps do to the lists. *)

(* push_front and push_back.                                               *)
Pushed(l, n) ==
  /\ ~contains_node(l, n)
  /\ IF heap.owner[n] # None THEN Abort
     ELSE UNCHANGED aborted /\ (Changed(l, <<n>> \o Walk(heap, l)) \/ Changed(l, Append(Walk(heap, l), n)))

(* pop_front and pop_back of a list with nodes, erase and remove.          *)
TakenFrom(l, n) ==
  IF contains_node(l, n)
  THEN /\ UNCHANGED aborted /\ heap'.next[n] = heap.next[n]
       /\ \E i \in 1 .. Len(Walk(heap, l)) :
            Walk(heap, l)[i] = n /\ Changed(l, RemoveAt(Walk(heap, l), i))
  ELSE Abort

(* push_front and push_back, which refuse a node of another list.          *)
LEMMA PushSteps ==
  ASSUME heap \in Heaps, Listed, NEW l \in List, NEW n \in Node,
         PushFront(l, n) \/ PushBack(l, n)
  PROVE  ~aborted /\ Pushed(l, n)
<1> DEFINE w == Walk(heap, l)
<1>1. ListIs(heap, l, w)
  BY DEF Listed
<1> HIDE DEF w
<1>2. ~contains_node(l, n) /\ ~aborted
  BY DEF PushFront, PushBack, Push, Outside
<1>3. CASE heap.owner[n] # None
  BY <1>2, <1>3 DEF PushFront, PushBack, Push, Pushed
<1>4. CASE heap.owner[n] = None
  <2>1. CASE PushFront(l, n)
    <3>1. heap' = pushed_front(heap, l, n) /\ UNCHANGED aborted
      BY <1>4, <2>1 DEF PushFront, Push, Becomes
    <3>2. Turns(heap, heap', l, <<n>> \o w)
      BY <1>1, <1>4, <3>1, FrontPushed DEF Turns
    <3>3. Changed(l, <<n>> \o w)
      BY <3>2, TurnChanges
    <3> QED
      BY <1>2, <1>4, <3>1, <3>3 DEF Pushed, w
  <2>2. CASE PushBack(l, n)
    <3>1. heap' = pushed_back(heap, l, n) /\ UNCHANGED aborted
      BY <1>4, <2>2 DEF PushBack, Push, Becomes
    <3>2. Turns(heap, heap', l, Append(w, n))
      BY <1>1, <1>4, <3>1, BackPushed DEF Turns
    <3>3. Changed(l, Append(w, n))
      BY <3>2, TurnChanges
    <3> QED
      BY <1>2, <1>4, <3>1, <3>3 DEF Pushed, w
  <2> QED
    BY <2>1, <2>2
<1> QED
  BY <1>3, <1>4

(* A node that is taken out as Takes says.                                 *)
LEMMA TakeSteps ==
  ASSUME heap \in Heaps, Listed, NEW l \in List, NEW i \in 1 .. Len(Walk(heap, l)),
         Takes(heap, heap', l, Walk(heap, l), i), UNCHANGED aborted
  PROVE  TakenFrom(l, Walk(heap, l)[i])
<1> DEFINE w == Walk(heap, l)
<1>1. w \in Seq(Node) /\ w[i] \in Node /\ contains_node(l, w[i])
  <2>1. w \in Seq(Node)
    BY ListFacts
  <2>2. w[i] \in Node
    BY <2>1
  <2> QED
    BY <2>1, <2>2, ListFacts
<1>2. Changed(l, RemoveAt(w, i)) /\ heap'.next[w[i]] = heap.next[w[i]]
  BY TurnChanges DEF Takes
<1> QED
  BY <1>1, <1>2 DEF TakenFrom

(* erase, and remove in or outside the loop.                               *)
LEMMA RemoveSteps ==
  ASSUME heap \in Heaps, Listed, NEW l \in List, NEW n \in Node,
         Erase(l, n) \/ Removed(l, n)
  PROVE  TakenFrom(l, n)
<1> DEFINE w == Walk(heap, l)
<1>1. /\ ListIs(heap, l, w) /\ w \in Seq(Node) /\ Len(w) \in Nat
      /\ contains_node(l, n) <=> \E i \in 1 .. Len(w) : w[i] = n
  BY ListFacts
<1>2. contains_node(l, n) <=> heap.owner[n] = l
  BY ListFacts
<1> HIDE DEF w
<1>3. CASE contains_node(l, n)
  <2>1. PICK i \in 1 .. Len(w) : w[i] = n
    BY <1>1, <1>3
  <2>2. /\ i = 1 => Takes(heap, popped_front(heap, l), l, w, i)
        /\ i # 1 => Takes(heap, unlinked(heap, l, n), l, w, i)
        /\ i # 1 /\ i = Len(w) => Takes(heap, popped_back(heap, l), l, w, i)
        /\ heap.first[l] = n <=> i = 1
        /\ heap.last[l] = n <=> i = Len(w)
    BY <1>1, <2>1, NodeTakenOut
  <2>3. Takes(heap, heap', l, w, i) /\ UNCHANGED aborted
    <3>1. CASE Erase(l, n)
      BY <2>2, <3>1 DEF Erase, Becomes
    <3>2. CASE Removed(l, n)
      BY <1>2, <1>3, <2>2, <3>2 DEF Removed, Becomes
    <3> QED
      BY <3>1, <3>2
  <2>4. TakenFrom(l, w[i])
    BY <2>3, TakeSteps DEF w
  <2> QED
    BY <2>1, <2>4
<1>4. CASE ~contains_node(l, n)
  <2>1. heap.first[l] # n /\ heap.last[l] # n
    <3>1. n # None /\ heap.first[l] = Nth(w, 1) /\ heap.last[l] = Nth(w, Len(w))
      BY <1>1, NodeAssumption DEF ListIs
    <3>2. \A i : Nth(w, i) # n
      BY <1>1, <1>4, <3>1 DEF Nth
    <3> QED
      BY <3>1, <3>2
  <2>2. Removed(l, n)
    BY <1>4 DEF Erase
  <2> QED
    BY <1>2, <1>4, <2>1, <2>2 DEF Removed, TakenFrom
<1> QED
  BY <1>3, <1>4

(* pop_front and pop_back.                                                 *)
LEMMA PopSteps ==
  ASSUME heap \in Heaps, Listed, NEW l \in List, PopFront(l) \/ PopBack(l)
  PROVE  /\ ~aborted
         /\ \/ UNCHANGED <<heap, aborted>>
            \/ Len(Walk(heap, l)) = 1 /\ Abort
            \/ \E n \in Node : contains_node(l, n) /\ TakenFrom(l, n)
<1> DEFINE w == Walk(heap, l)
<1>1. ListIs(heap, l, w) /\ w \in Seq(Node) /\ Len(w) \in Nat
  BY ListFacts
<1>2. ~aborted
  BY DEF PopFront, PopBack, Outside
<1>3. ASSUME NEW i \in 1 .. Len(w), Takes(heap, heap', l, w, i), UNCHANGED aborted
      PROVE  \E n \in Node : contains_node(l, n) /\ TakenFrom(l, n)
  <2>1. w[i] \in Node /\ TakenFrom(l, w[i])
    BY <1>1, <1>3, TakeSteps
  <2>2. contains_node(l, w[i])
    BY <2>1, ListFacts
  <2> QED
    BY <2>1, <2>2
<1>4. /\ heap.first[l] = Nth(w, 1) /\ heap.last[l] = Nth(w, Len(w))
      /\ \A i \in 1 .. Len(w) : w[i] # None
      /\ \A i, j \in 1 .. Len(w) : w[i] = w[j] => i = j
  BY <1>1, NodeAssumption DEF ListIs
<1> HIDE DEF w
<1>5. Len(w) = 0 \/ (1 \in 1 .. Len(w) /\ Len(w) \in 1 .. Len(w))
  BY <1>1
<1>6. CASE PopFront(l)
  <2>1. heap' = popped_front(heap, l) /\ UNCHANGED aborted
    BY <1>6 DEF PopFront, Becomes
  <2>2. CASE Len(w) = 0
    <3>1. popped_front(heap, l) = heap
      BY <1>1, <2>2, FrontPopped
    <3> QED
      BY <1>2, <2>1, <3>1
  <2>3. CASE Len(w) # 0
    <3>1. Takes(heap, popped_front(heap, l), l, w, 1)
      BY <1>1, <1>5, <2>3, NodeTakenOut
    <3> QED
      BY <1>2, <1>3, <1>5, <2>1, <2>3, <3>1
  <2> QED
    BY <2>2, <2>3
<1>7. CASE PopBack(l)
  <2>1. CASE heap.last[l] = None /\ Becomes(heap)
    BY <1>2, <2>1 DEF Becomes
  <2>2. CASE heap.last[l] # None /\ heap.first[l] = heap.last[l] /\ Abort
    <3>1. Len(w) # 0
      BY <1>4, <2>2 DEF Nth
    <3>2. w[1] = w[Len(w)]
      BY <1>4, <1>5, <2>2, <3>1 DEF Nth
    <3>3. Len(w) = 1
      BY <1>4, <1>5, <3>1, <3>2
    <3> QED
      BY <1>2, <2>2, <3>3 DEF w
  <2>3. CASE heap.first[l] # heap.last[l] /\ Becomes(popped_back(heap, l))
    <3>1. Len(w) # 1
      BY <1>4, <2>3
    <3>2. Len(w) # 0
      BY <1>4, <2>3 DEF Nth
    <3>3. Takes(heap, popped_back(heap, l), l, w, Len(w)) /\ Len(w) \in 1 .. Len(w)
      <4> DEFINE i == Len(w)
      <4>1. i \in 1 .. Len(w) /\ i # 1 /\ i = Len(w)
        BY <1>5, <3>1, <3>2
      <4> HIDE DEF i
      <4>2. Takes(heap, popped_back(heap, l), l, w, i)
        BY <1>1, <4>1, NodeTakenOut
      <4> QED
        BY <4>1, <4>2
    <3> QED
      BY <1>2, <1>3, <2>3, <3>3 DEF Becomes
  <2> QED
    BY <1>7, <2>1, <2>2, <2>3 DEF PopBack
<1> QED
  BY <1>6, <1>7

----------------------------------------------------------------------------
(* What the loop does. *)

(* A called node is behind those that were called before.                  *)
LEMMA CallInOrder ==
  ASSUME NEW w \in Seq(Node), \A j, k \in 1 .. Len(w) : w[j] = w[k] => j = k,
         NEW s \in Seq(Node), InOrder(s, w),
         NEW i \in 0 .. Len(w), i + 1 \in 1 .. Len(w),
         \A j \in 1 .. Len(w) : w[j] \in ToSet(s) <=> j <= i
  PROVE  /\ InOrder(Append(s, w[i + 1]), w)
         /\ \A j \in 1 .. Len(w) : w[j] \in ToSet(Append(s, w[i + 1])) <=> j <= i + 1
<1> DEFINE n == w[i + 1]
           t == Append(s, n)
           m == Len(w)
           c == Len(s)
<1>1. /\ m \in Nat /\ c \in Nat /\ n \in Node /\ DOMAIN w = 1 .. m /\ DOMAIN s = 1 .. c
      /\ DOMAIN t = 1 .. (c + 1) /\ t[c + 1] = n /\ \A a \in 1 .. c : t[a] = s[a]
  OBVIOUS
<1>2. \A x : x \in ToSet(s) <=> \E a \in 1 .. c : s[a] = x
  BY <1>1 DEF ToSet
<1>3. \A x : x \in ToSet(t) <=> \E a \in 1 .. (c + 1) : t[a] = x
  BY <1>1 DEF ToSet
<1> HIDE DEF t, c, m
<1>4. \A x : x \in ToSet(t) <=> x \in ToSet(s) \/ x = n
  <2>1. ASSUME NEW x, x \in ToSet(t) PROVE x \in ToSet(s) \/ x = n
    <3>1. PICK a \in 1 .. (c + 1) : t[a] = x
      BY <1>3, <2>1
    <3>2. CASE a = c + 1
      BY <1>1, <3>1, <3>2
    <3>3. CASE a # c + 1
      <4>1. a \in 1 .. c
        BY <1>1, <3>3
      <4> QED
        BY <1>1, <1>2, <3>1, <4>1
    <3> QED
      BY <3>2, <3>3
  <2>2. ASSUME NEW x, x \in ToSet(s) PROVE x \in ToSet(t)
    <3>1. PICK a \in 1 .. c : s[a] = x
      BY <1>2, <2>2
    <3>2. a \in 1 .. (c + 1) /\ t[a] = x
      BY <1>1, <3>1
    <3> QED
      BY <1>3, <3>2
  <2>3. n \in ToSet(t)
    <3>1. c + 1 \in 1 .. (c + 1)
      BY <1>1
    <3> QED
      BY <1>1, <1>3, <3>1
  <2> QED
    BY <2>1, <2>2, <2>3
<1>5. ASSUME NEW j \in 1 .. m PROVE w[j] \in ToSet(t) <=> j <= i + 1
  <2>1. w[j] = n <=> j = i + 1
    BY <1>5 DEF m
  <2>2. w[j] \in ToSet(s) <=> j <= i
    BY <1>5 DEF m
  <2>3. j <= i + 1 <=> j <= i \/ j = i + 1
    BY <1>1, <1>5
  <2> QED
    BY <1>4, <2>1, <2>2, <2>3
<1>6. InOrder(t, w)
  <2> SUFFICES ASSUME NEW a \in DOMAIN t, NEW b \in DOMAIN t, NEW j \in DOMAIN w, NEW k \in DOMAIN w,
                      t[a] = w[j], t[b] = w[k], a < b
               PROVE  j < k
    BY DEF InOrder
  <2>1. a \in 1 .. c /\ s[a] = w[j] /\ j \in 1 .. m /\ k \in 1 .. m /\ b \in 1 .. (c + 1)
    <3>1. a \in 1 .. (c + 1) /\ b \in 1 .. (c + 1) /\ j \in 1 .. m /\ k \in 1 .. m
      BY <1>1
    <3>2. a \in 1 .. c
      BY <1>1, <3>1
    <3> QED
      BY <1>1, <3>1, <3>2
  <2>2. CASE b = c + 1
    <3>1. k = i + 1
      <4>1. w[k] = w[i + 1]
        BY <1>1, <2>2
      <4> QED
        BY <2>1, <4>1 DEF m
    <3>2. j <= i
      <4>1. w[j] \in ToSet(s)
        BY <1>2, <2>1
      <4> QED
        BY <2>1, <4>1 DEF m
    <3> QED
      BY <2>1, <3>1, <3>2
  <2>3. CASE b # c + 1
    <3>1. b \in 1 .. c
      BY <1>1, <2>1, <2>3
    <3>2. s[b] = w[k] /\ s[a] = w[j] /\ a \in DOMAIN s /\ b \in DOMAIN s
      BY <1>1, <2>1, <3>1
    <3> QED
      BY <3>2 DEF InOrder
  <2> QED
    BY <2>2, <2>3
<1> QED
  BY <1>5, <1>6 DEF t, m

(* A node that is added behind the others has not been called.             *)
LEMMA AddInOrder ==
  ASSUME NEW w \in Seq(Node), NEW s \in Seq(Node), NEW n \in Node, n \notin ToSet(s),
         NEW h, NEW g, NEW it, NEW i \in 0 .. Len(w), CalledUpTo(h, "in", it, s, w, i)
  PROVE  CalledUpTo(g, "in", it, s, Append(w, n), i) /\ i \in 0 .. Len(Append(w, n))
<1> DEFINE u == Append(w, n)
           m == Len(w)
<1>1. /\ m \in Nat /\ Len(u) = m + 1 /\ DOMAIN w = 1 .. m /\ DOMAIN u = 1 .. (m + 1)
      /\ u[m + 1] = n /\ \A j \in 1 .. m : u[j] = w[j]
  OBVIOUS
<1>2. /\ InOrder(s, w) /\ i # 0 /\ it = w[i]
      /\ \A j \in 1 .. m : w[j] \in ToSet(s) <=> j <= i
  BY DEF CalledUpTo
<1>3. i \in 0 .. m
  OBVIOUS
<1> HIDE DEF u, m
<1>4. i \in 1 .. m /\ i \in 0 .. (m + 1) /\ it = u[i]
  BY <1>1, <1>2, <1>3
<1>5. \A j \in 1 .. (m + 1) : j \in 1 .. m \/ j = m + 1
  BY <1>1
<1>6. ASSUME NEW j \in 1 .. (m + 1) PROVE u[j] \in ToSet(s) <=> j <= i
  <2>1. CASE j \in 1 .. m
    BY <1>1, <1>2, <2>1
  <2>2. CASE j = m + 1
    <3>1. ~ (j <= i) /\ u[j] \notin ToSet(s)
      BY <1>1, <1>3, <2>2
    <3> QED
      BY <3>1
  <2> QED
    BY <1>5, <2>1, <2>2
<1>7. \A a \in DOMAIN s : s[a] \in ToSet(s)
  BY DEF ToSet
<1>8. InOrder(s, u)
  <2> SUFFICES ASSUME NEW a \in DOMAIN s, NEW b \in DOMAIN s, NEW j \in DOMAIN u, NEW k \in DOMAIN u,
                      s[a] = u[j], s[b] = u[k], a < b
               PROVE  j < k
    BY DEF InOrder
  <2>1. j \in 1 .. m /\ k \in 1 .. m
    <3>1. s[a] # n /\ s[b] # n /\ j \in 1 .. (m + 1) /\ k \in 1 .. (m + 1)
      BY <1>1, <1>7
    <3>2. j # m + 1 /\ k # m + 1
      BY <1>1, <3>1
    <3> QED
      BY <1>5, <3>1, <3>2
  <2>2. s[a] = w[j] /\ s[b] = w[k] /\ j \in DOMAIN w /\ k \in DOMAIN w
    BY <1>1, <2>1
  <2> QED
    BY <1>2, <2>2 DEF InOrder
<1>9. CalledUpTo(g, "in", it, s, u, i) /\ i \in 0 .. Len(u)
  BY <1>1, <1>2, <1>4, <1>6, <1>8 DEF CalledUpTo
<1> QED
  BY <1>9 DEF u

(* When a node is taken out, the ones called are those up to its place or  *)
(* up to the place before, and the iterator still leads to the next one.   *)
LEMMA RemoveInOrder ==
  ASSUME NEW w \in Seq(Node), \A j, k \in 1 .. Len(w) : w[j] = w[k] => j = k,
         NEW s \in Seq(Node), NEW h, NEW g, NEW it \in Node, NEW i \in 0 .. Len(w), NEW p,
         NEW r \in 1 .. Len(w), CalledUpTo(h, "in", it, s, w, i),
         r = i => p = "out" /\ g.next[it] = Nth(w, i + 1),
         r # i => p = "in"
  PROVE  \E k \in 0 .. Len(RemoveAt(w, r)) : CalledUpTo(g, p, it, s, RemoveAt(w, r), k)
<1> DEFINE u == RemoveAt(w, r)
           m == Len(w)
           k == IF r <= i THEN i - 1 ELSE i
<1>1. /\ m \in Nat /\ Len(u) = m - 1 /\ DOMAIN w = 1 .. m /\ DOMAIN u = 1 .. (m - 1)
      /\ \A j \in 1 .. (m - 1) : u[j] = IF j < r THEN w[j] ELSE w[j + 1]
  <2>1. /\ u \in Seq(Node) /\ Len(u) = m - 1
        /\ \A j \in 1 .. (m - 1) : u[j] = IF j < r THEN w[j] ELSE w[j + 1]
    BY WithoutMember
  <2> HIDE DEF u
  <2> QED
    BY <2>1
<1>2. /\ InOrder(s, w) /\ i # 0 /\ it = w[i]
      /\ \A j \in 1 .. m : w[j] \in ToSet(s) <=> j <= i
  BY DEF CalledUpTo
<1>3. \A j \in Nat : Nth(u, j) = IF j < r THEN Nth(w, j) ELSE Nth(w, j + 1)
  BY NthWithoutMember
<1>4. i \in 0 .. m /\ r \in 1 .. m
  OBVIOUS
<1> HIDE DEF u, m
<1>5. i \in 1 .. m /\ k \in 0 .. (m - 1)
  BY <1>1, <1>2, <1>4
<1>6. ASSUME NEW j \in 1 .. (m - 1)
      PROVE  \E a \in 1 .. m : a = (IF j < r THEN j ELSE j + 1) /\ u[j] = w[a]
  <2>1. j \in 1 .. m /\ j + 1 \in 1 .. m
    BY <1>1
  <2> QED
    BY <1>1, <2>1
<1>7. ASSUME NEW j \in 1 .. (m - 1) PROVE u[j] \in ToSet(s) <=> j <= k
  <2>1. PICK a \in 1 .. m : a = (IF j < r THEN j ELSE j + 1) /\ u[j] = w[a]
    BY <1>6
  <2>2. u[j] \in ToSet(s) <=> a <= i
    BY <1>2, <2>1
  <2>3. a <= i <=> j <= k
    BY <1>1, <1>4, <2>1
  <2> QED
    BY <2>2, <2>3
<1>8. InOrder(s, u)
  <2> SUFFICES ASSUME NEW a \in DOMAIN s, NEW b \in DOMAIN s, NEW j \in DOMAIN u, NEW l \in DOMAIN u,
                      s[a] = u[j], s[b] = u[l], a < b
               PROVE  j < l
    BY DEF InOrder
  <2>1. j \in 1 .. (m - 1) /\ l \in 1 .. (m - 1)
    BY <1>1
  <2>2. PICK x \in 1 .. m : x = (IF j < r THEN j ELSE j + 1) /\ u[j] = w[x]
    BY <1>6, <2>1
  <2>3. PICK y \in 1 .. m : y = (IF l < r THEN l ELSE l + 1) /\ u[l] = w[y]
    BY <1>6, <2>1
  <2>4. s[a] = w[x] /\ s[b] = w[y] /\ x \in DOMAIN w /\ y \in DOMAIN w
    BY <1>1, <2>2, <2>3
  <2>5. x < y
    BY <1>2, <2>4 DEF InOrder
  <2> QED
    BY <1>1, <2>1, <2>2, <2>3, <2>5
<1>9. CASE r = i
  <2>1. k = i - 1 /\ k + 1 = i /\ i \in Nat /\ ~ (i < r)
    BY <1>1, <1>5, <1>9
  <2>2. Nth(u, i) = Nth(w, i + 1)
    BY <1>3, <2>1
  <2>3. g.next[it] = Nth(u, k + 1) /\ p = "out"
    BY <1>9, <2>1, <2>2
  <2>4. CalledUpTo(g, p, it, s, u, k)
    BY <1>1, <1>7, <1>8, <2>3 DEF CalledUpTo
  <2> QED
    BY <1>1, <1>5, <2>4 DEF u
<1>10. CASE r # i
  <2>1. k \in 1 .. (m - 1) /\ k # 0 /\ i = IF k < r THEN k ELSE k + 1
    BY <1>1, <1>4, <1>5, <1>10
  <2>2. it = u[k]
    BY <1>1, <1>2, <2>1
  <2>3. CalledUpTo(g, p, it, s, u, k)
    BY <1>1, <1>7, <1>8, <1>10, <2>1, <2>2 DEF CalledUpTo
  <2> QED
    BY <1>1, <1>5, <2>3 DEF u
<1> QED
  BY <1>9, <1>10

----------------------------------------------------------------------------
(* The invariant is inductive. *)

(* The component that is called adds one at the end of the list.           *)
LEMMA InsertStep ==
  ASSUME IInv, NEW n \in Node, InsertSwc(n)
  PROVE  Pushed(pass, n) /\ ~aborted /\ Passing'
<1>1. /\ phase = "in" /\ heap.owner[n] = None /\ n \notin ToSet(visited)
      /\ heap' = pushed_back(heap, pass, n)
      /\ UNCHANGED <<aborted, phase, pass, itr, visited>>
  BY DEF InsertSwc, Becomes, loop
<1>2. pass \in List /\ ~aborted /\ heap \in Heaps /\ Listed /\ visited \in Seq(Node)
  BY <1>1 DEF IInv, Passing, TypeOK, Heaps
<1> DEFINE w == Walk(heap, pass)
<1>3. PICK i \in 0 .. Len(w) : CalledUpTo(heap, "in", itr, visited, w, i)
  BY <1>1 DEF IInv, Passing
<1>4. ListIs(heap, pass, w) /\ w \in Seq(Node)
  BY <1>2, ListFacts
<1>5. ~contains_node(pass, n)
  <2>1. pass # None
    BY <1>2, NodeAssumption
  <2> QED
    BY <1>1, <1>2, <2>1, ListFacts
<1> HIDE DEF w
<1>6. Turns(heap, heap', pass, Append(w, n))
  BY <1>1, <1>2, <1>4, BackPushed DEF Turns
<1>7. Changed(pass, Append(w, n))
  BY <1>2, <1>6, TurnChanges
<1>8. Pushed(pass, n)
  BY <1>1, <1>5, <1>7 DEF Pushed, w
<1>9. CalledUpTo(heap', "in", itr, visited, Append(w, n), i) /\ i \in 0 .. Len(Append(w, n))
  BY <1>1, <1>2, <1>3, <1>4, AddInOrder
<1>10. Walk(heap', pass) = Append(w, n)
  BY <1>7 DEF Changed
<1>11. Passing'
  BY <1>1, <1>2, <1>9, <1>10 DEF Passing
<1> QED
  BY <1>2, <1>8, <1>11

(* The component that is called takes out one, perhaps itself.             *)
LEMMA RemoveStep ==
  ASSUME IInv, NEW n \in Node, RemoveSwc(n)
  PROVE  TakenFrom(pass, n) /\ ~aborted /\ Passing'
<1>1. /\ phase = "in" /\ contains_node(pass, n) /\ Removed(pass, n)
      /\ phase' = IF n = itr THEN "out" ELSE "in"
      /\ UNCHANGED <<pass, itr, visited>>
  BY DEF RemoveSwc
<1>2. pass \in List /\ ~aborted /\ heap \in Heaps /\ Listed /\ visited \in Seq(Node)
  BY <1>1 DEF IInv, Passing, TypeOK, Heaps
<1> DEFINE w == Walk(heap, pass)
<1>3. PICK i \in 0 .. Len(w) : CalledUpTo(heap, "in", itr, visited, w, i)
  BY <1>1 DEF IInv, Passing
<1>4. ListIs(heap, pass, w) /\ w \in Seq(Node) /\ Len(w) \in Nat
  BY <1>2, ListFacts
<1>5. TakenFrom(pass, n)
  BY <1>1, <1>2, RemoveSteps
<1>6. UNCHANGED aborted /\ heap'.next[n] = heap.next[n]
  BY <1>1, <1>5 DEF TakenFrom
<1>7. PICK r \in 1 .. Len(w) : w[r] = n /\ Changed(pass, RemoveAt(w, r))
  BY <1>1, <1>5 DEF TakenFrom
<1> HIDE DEF w
<1>8. /\ \A j, k \in 1 .. Len(w) : w[j] = w[k] => j = k
      /\ \A j \in 1 .. Len(w) : w[j] \in Node /\ heap.next[w[j]] = Nth(w, j + 1)
  BY <1>4 DEF ListIs
<1>9. i \in 1 .. Len(w) /\ itr = w[i]
  <2>1. i # 0 /\ itr = w[i]
    BY <1>3 DEF CalledUpTo
  <2> QED
    BY <1>4, <2>1
<1>10. n = itr <=> r = i
  BY <1>7, <1>8, <1>9
<1>11. itr \in Node /\ heap.next[itr] = Nth(w, i + 1)
  BY <1>8, <1>9
<1>12. \E k \in 0 .. Len(RemoveAt(w, r)) :
          CalledUpTo(heap', phase', itr, visited, RemoveAt(w, r), k)
  <2>1. r = i => phase' = "out" /\ heap'.next[itr] = Nth(w, i + 1)
    BY <1>1, <1>6, <1>10, <1>11
  <2>2. r # i => phase' = "in"
    BY <1>1, <1>10
  <2> QED
    BY <1>2, <1>3, <1>4, <1>8, <1>11, <2>1, <2>2, RemoveInOrder
<1>13. Walk(heap', pass) = RemoveAt(w, r)
  BY <1>7 DEF Changed
<1>14. Passing'
  BY <1>1, <1>2, <1>6, <1>12, <1>13 DEF Passing
<1> QED
  BY <1>2, <1>5, <1>14

(* What any step does to the lists.                                        *)
Effect ==
  \/ UNCHANGED <<heap, aborted>>
  \/ /\ ~aborted
     /\ \E l \in List :
          \/ Len(Walk(heap, l)) = 1 /\ Abort
          \/ UNCHANGED aborted /\ Changed(l, <<>>)
          \/ \E n \in Node : Pushed(l, n) \/ TakenFrom(l, n)

(* Every step of the program has one of these effects.                     *)
LEMMA Effects ==
  ASSUME IInv, [Next]_vars
  PROVE  Effect
<1>1. heap \in Heaps /\ Listed
  BY DEF IInv, TypeOK, Heaps
<1>2. ASSUME NEW l \in List, PopFront(l) \/ PopBack(l) PROVE Effect
  BY <1>1, <1>2, PopSteps DEF Effect
<1>3. ASSUME NEW l \in List, Clear(l) PROVE Effect
  <2>1. Turns(heap, heap', l, <<>>)
    BY <1>1, <1>3, ListFacts, ListCleared DEF Clear, Becomes
  <2>2. Changed(l, <<>>)
    BY <1>1, <2>1, TurnChanges
  <2> QED
    BY <1>3, <2>2 DEF Clear, Outside, Becomes, Effect
<1>4. ASSUME NEW l \in List, NEW n \in Node, PushFront(l, n) \/ PushBack(l, n) PROVE Effect
  BY <1>1, <1>4, PushSteps DEF Effect
<1>5. ASSUME NEW l \in List, NEW n \in Node, Erase(l, n) \/ RemoveValue(l, n) PROVE Effect
  BY <1>1, <1>5, RemoveSteps DEF Erase, RemoveValue, Outside, Effect
<1>6. ASSUME NEW n \in Node, InsertSwc(n) \/ RemoveSwc(n) PROVE Effect
  <2>1. pass \in List
    BY <1>6 DEF IInv, Passing, InsertSwc, RemoveSwc
  <2> QED
    BY <1>6, <2>1, InsertStep, RemoveStep DEF Effect
<1>7. ASSUME (\E l \in List : Begin(l)) \/ Call \/ Advance \/ Finish \/ UNCHANGED vars PROVE Effect
  BY <1>7 DEF Begin, Call, Advance, Finish, vars, Effect
<1> QED
  BY <1>2, <1>3, <1>4, <1>5, <1>6, <1>7 DEF Next

(* The lists stay lists.                                                   *)
LEMMA HeapKept ==
  ASSUME IInv, Effect
  PROVE  heap' \in Heaps /\ \A k \in List : ListIs(heap', k, Walk(heap', k))
<1>1. ASSUME heap' = heap PROVE heap' \in Heaps /\ \A k \in List : ListIs(heap', k, Walk(heap', k))
  BY <1>1 DEF IInv, TypeOK, Heaps, Listed
<1>2. ASSUME NEW l \in List, NEW v, Changed(l, v)
      PROVE  heap' \in Heaps /\ \A k \in List : ListIs(heap', k, Walk(heap', k))
  BY <1>2 DEF Changed
<1>3. CASE UNCHANGED <<heap, aborted>>
  BY <1>1, <1>3
<1>4. ASSUME NEW l \in List,
             \/ Len(Walk(heap, l)) = 1 /\ Abort
             \/ UNCHANGED aborted /\ Changed(l, <<>>)
             \/ \E n \in Node : Pushed(l, n) \/ TakenFrom(l, n)
      PROVE  heap' = heap \/ \E v : Changed(l, v)
  BY <1>4 DEF Abort, Pushed, TakenFrom
<1> QED
  BY <1>1, <1>2, <1>3, <1>4 DEF Effect

(* Every step keeps the types and the lists.                               *)
LEMMA TypeKept ==
  ASSUME IInv, [Next]_vars
  PROVE  TypeOK' /\ Listed'
<1>1. heap' \in Heaps /\ \A k \in List : ListIs(heap', k, Walk(heap', k))
  BY Effects, HeapKept
<1>2. \A l \in List : heap'.first[l] = None <=> heap'.last[l] = None
  <2> SUFFICES ASSUME NEW l \in List, NEW w, w = Walk(heap', l)
               PROVE  heap'.first[l] = None <=> heap'.last[l] = None
    OBVIOUS
  <2>1. /\ w \in Seq(Node) /\ Len(w) \in Nat /\ \A i \in 1 .. Len(w) : w[i] # None
        /\ heap'.first[l] = Nth(w, 1) /\ heap'.last[l] = Nth(w, Len(w))
    BY <1>1, NodeAssumption DEF ListIs
  <2>2. CASE Len(w) = 0
    BY <2>1, <2>2 DEF Nth
  <2>3. CASE Len(w) # 0
    <3>1. 1 \in 1 .. Len(w) /\ Len(w) \in 1 .. Len(w)
      BY <2>1, <2>3
    <3> QED
      BY <2>1, <3>1 DEF Nth
  <2> QED
    BY <2>2, <2>3
<1>3. aborted' \in BOOLEAN
  BY DEF IInv, TypeOK, Next, PushFront, PushBack, Push, PopFront, PopBack, Clear, Erase, RemoveValue,
         Removed, Begin, Call, InsertSwc, RemoveSwc, Advance, Finish, Becomes, Abort, vars
<1>4. /\ phase' \in {"off", "at", "in", "out"} /\ pass' \in List \cup {None}
      /\ itr' \in Node \cup {None} /\ visited' \in Seq(Node)
  <2>1. /\ phase \in {"off", "at", "in", "out"} /\ pass \in List \cup {None}
        /\ itr \in Node \cup {None} /\ visited \in Seq(Node)
        /\ heap.first \in [List -> Node \cup {None}] /\ heap.next \in [Node -> Node \cup {None}]
    BY DEF IInv, TypeOK
  <2>2. CASE UNCHANGED loop \/ UNCHANGED vars
    BY <2>1, <2>2 DEF loop, vars
  <2>3. ASSUME NEW l \in List, Begin(l)
        PROVE  /\ phase' \in {"off", "at", "in", "out"} /\ pass' \in List \cup {None}
               /\ itr' \in Node \cup {None} /\ visited' \in Seq(Node)
    BY <2>1, <2>3 DEF Begin
  <2>4. CASE Call
    BY <2>1, <2>4 DEF Call
  <2>5. CASE Finish
    BY <2>1, <2>5 DEF Finish
  <2>6. CASE \E n \in Node : RemoveSwc(n)
    BY <2>1, <2>6 DEF RemoveSwc
  <2>7. CASE Advance
    <3>1. itr \in Node
      <4>1. pass \in List /\ heap \in Heaps /\ Listed
        BY <2>7 DEF Advance, IInv, Passing, TypeOK, Heaps
      <4>2. PICK i \in 0 .. Len(Walk(heap, pass)) :
               CalledUpTo(heap, phase, itr, visited, Walk(heap, pass), i)
        BY <2>7 DEF Advance, IInv, Passing
      <4>3. Walk(heap, pass) \in Seq(Node) /\ Len(Walk(heap, pass)) \in Nat
        BY <4>1, ListFacts
      <4>4. CASE phase = "in"
        <5>1. i # 0 /\ itr = Walk(heap, pass)[i]
          BY <4>2, <4>4 DEF CalledUpTo
        <5> QED
          BY <4>3, <5>1
      <4>5. CASE phase = "out"
        BY <4>2, <4>5 DEF CalledUpTo
      <4> QED
        BY <2>7, <4>4, <4>5 DEF Advance
    <3> QED
      BY <2>1, <2>7, <3>1 DEF Advance
  <2> QED
    BY <2>2, <2>3, <2>4, <2>5, <2>6, <2>7
    DEF Next, PushFront, PushBack, Push, PopFront, PopBack, Clear, Erase, RemoveValue, InsertSwc, Outside
<1> QED
  BY <1>1, <1>2, <1>3, <1>4 DEF TypeOK, Listed, Heaps

(* The loop stays at its place of the list.                                *)
LEMMA PassingKept ==
  ASSUME IInv, [Next]_vars
  PROVE  Passing'
<1>1. heap \in Heaps /\ Listed /\ visited \in Seq(Node) /\ Passing
  BY DEF IInv, TypeOK, Heaps
<1>2. CASE UNCHANGED vars
  BY <1>1, <1>2 DEF vars, Passing
<1>3. CASE phase = "off" /\ UNCHANGED loop
  BY <1>3 DEF loop, Passing
<1>4. ASSUME NEW l \in List, Begin(l) PROVE Passing'
  <2>1. /\ ~aborted /\ phase' = "at" /\ pass' = l /\ itr' = heap.first[l] /\ visited' = <<>>
        /\ UNCHANGED <<heap, aborted>>
    BY <1>4 DEF Begin
  <2> DEFINE w == Walk(heap, l)
  <2>2. ListIs(heap, l, w) /\ w \in Seq(Node) /\ Len(w) \in Nat
    BY <1>1, ListFacts
  <2> HIDE DEF w
  <2>3. 0 \in 0 .. Len(w) /\ itr' = Nth(w, 0 + 1) /\ \A j \in 1 .. Len(w) : ~ (j <= 0)
    BY <2>1, <2>2 DEF ListIs
  <2>4. ToSet(<<>>) = {} /\ InOrder(<<>>, w)
    BY DEF ToSet, InOrder
  <2>5. CalledUpTo(heap, "at", itr', <<>>, w, 0)
    BY <2>3, <2>4 DEF CalledUpTo
  <2> QED
    BY <2>1, <2>3, <2>5 DEF Passing, w
<1>5. ASSUME phase # "off"
      PROVE  /\ pass \in List /\ ~aborted
             /\ ListIs(heap, pass, Walk(heap, pass)) /\ Walk(heap, pass) \in Seq(Node)
             /\ \E i \in 0 .. Len(Walk(heap, pass)) :
                  CalledUpTo(heap, phase, itr, visited, Walk(heap, pass), i)
  BY <1>1, <1>5, ListFacts DEF Passing
<1>6. CASE Call
  <2>1. /\ phase = "at" /\ itr # None /\ phase' = "in" /\ visited' = Append(visited, itr)
        /\ UNCHANGED <<heap, aborted, pass, itr>>
    BY <1>6 DEF Call
  <2> DEFINE w == Walk(heap, pass)
  <2>2. PICK i \in 0 .. Len(w) : CalledUpTo(heap, phase, itr, visited, w, i)
    BY <1>5, <2>1
  <2>3. pass \in List /\ ~aborted /\ ListIs(heap, pass, w) /\ w \in Seq(Node)
    BY <1>5, <2>1
  <2> HIDE DEF w
  <2>4. /\ InOrder(visited, w) /\ itr = Nth(w, i + 1)
        /\ \A j \in 1 .. Len(w) : w[j] \in ToSet(visited) <=> j <= i
    BY <2>1, <2>2 DEF CalledUpTo
  <2>5. i + 1 \in 1 .. Len(w) /\ itr = w[i + 1]
    BY <2>1, <2>4 DEF Nth
  <2>6. \A j, k \in 1 .. Len(w) : w[j] = w[k] => j = k
    BY <2>3 DEF ListIs
  <2>7. /\ InOrder(visited', w)
        /\ \A j \in 1 .. Len(w) : w[j] \in ToSet(visited') <=> j <= i + 1
    <3>1. /\ InOrder(Append(visited, w[i + 1]), w)
          /\ \A j \in 1 .. Len(w) : w[j] \in ToSet(Append(visited, w[i + 1])) <=> j <= i + 1
      BY <1>1, <2>3, <2>4, <2>5, <2>6, CallInOrder
    <3> QED
      BY <2>1, <2>5, <3>1
  <2>8. i + 1 # 0 /\ i + 1 \in 0 .. Len(w)
    BY <2>5
  <2>9. CalledUpTo(heap, "in", itr, visited', w, i + 1)
    BY <2>5, <2>7, <2>8 DEF CalledUpTo
  <2> QED
    BY <2>1, <2>3, <2>8, <2>9 DEF Passing, w
<1>7. CASE Advance
  <2>1. /\ phase \in {"in", "out"} /\ phase' = "at" /\ itr' = heap.next[itr]
        /\ UNCHANGED <<heap, aborted, pass, visited>>
    BY <1>7 DEF Advance
  <2> DEFINE w == Walk(heap, pass)
  <2>2. PICK i \in 0 .. Len(w) : CalledUpTo(heap, phase, itr, visited, w, i)
    BY <1>5, <2>1
  <2>3. pass \in List /\ ~aborted /\ ListIs(heap, pass, w) /\ w \in Seq(Node)
    BY <1>5, <2>1
  <2> HIDE DEF w
  <2>4. heap.next[itr] = Nth(w, i + 1)
    <3>1. CASE phase = "in"
      <4>1. i # 0 /\ itr = w[i]
        BY <2>2, <3>1 DEF CalledUpTo
      <4>2. i \in 1 .. Len(w)
        BY <4>1
      <4> QED
        BY <2>3, <4>1, <4>2 DEF ListIs
    <3>2. CASE phase = "out"
      BY <2>2, <3>2 DEF CalledUpTo
    <3> QED
      BY <2>1, <3>1, <3>2
  <2>5. CalledUpTo(heap, "at", itr', visited, w, i)
    BY <2>1, <2>2, <2>4 DEF CalledUpTo
  <2> QED
    BY <2>1, <2>3, <2>5 DEF Passing, w
<1>8. CASE Finish
  BY <1>8 DEF Finish, Passing
<1>9. ASSUME NEW n \in Node, InsertSwc(n) \/ RemoveSwc(n) PROVE Passing'
  BY <1>9, InsertStep, RemoveStep
<1> QED
  BY <1>2, <1>3, <1>4, <1>6, <1>7, <1>8, <1>9
  DEF Next, PushFront, PushBack, Push, PopFront, PopBack, Clear, Erase, RemoveValue, Outside

(* At first all lists are empty and nothing is walked through.             *)
LEMMA InitiallyEmpty ==
  ASSUME Init
  PROVE  IInv /\ \A l \in List : Walk(heap, l) = <<>>
<1>1. heap \in Heaps /\ \A l \in List : heap.first[l] = None /\ heap.last[l] = None
  BY DEF Init, Heaps
<1>2. \A n \in Node : heap.owner[n] = None
  BY DEF Init
<1>3. ASSUME NEW l \in List PROVE ListIs(heap, l, <<>>)
  <2>1. <<>> \in Seq(Node) /\ Len(<<>>) = 0 /\ l # None
    BY NodeAssumption
  <2> QED
    BY <1>1, <1>2, <2>1 DEF ListIs, Nth
<1>4. \A l \in List : Walk(heap, l) = <<>>
  BY <1>1, <1>3, WalkIs
<1>5. Listed
  BY <1>3, <1>4 DEF Listed
<1>6. TypeOK
  <2>1. /\ aborted = FALSE /\ phase = "off" /\ pass = None /\ itr = None
        /\ visited = <<>> /\ <<>> \in Seq(Node)
    BY DEF Init
  <2> QED
    BY <1>1, <2>1 DEF TypeOK, Heaps
<1> QED
  BY <1>4, <1>5, <1>6 DEF IInv, Passing, Init

(* The links, the owners and the iterator fit together in every state.     *)
THEOREM Inductive == Spec => []IInv
<1>1. Init => IInv
  BY InitiallyEmpty
<1>2. IInv /\ [Next]_vars => IInv'
  BY TypeKept, PassingKept DEF IInv
<1> QED
  BY <1>1, <1>2, PTL DEF Spec

(* WellFormed of the runs, for all sets of nodes and lists.                *)
THEOREM WellFormedHolds == Spec => []WellFormed
<1>1. ASSUME IInv PROVE WellFormed
  <2>1. TypeOK /\ heap \in Heaps /\ Listed
    BY <1>1 DEF IInv, TypeOK, Heaps
  <2>2. ASSUME NEW l \in List, NEW w, w = Walk(heap, l)
        PROVE  /\ IsInjective(w)
               /\ ToSet(w) = {n \in Node : heap.owner[n] = l}
               /\ w # <<>> => w[Len(w)] = heap.last[l] /\ heap.next[heap.last[l]] = None
    <3>1. /\ ListIs(heap, l, w) /\ w \in Seq(Node) /\ DOMAIN w = 1 .. Len(w) /\ Len(w) \in Nat
          /\ \A n \in Node : n \in ToSet(w) <=> heap.owner[n] = l
      BY <2>1, <2>2, ListFacts
    <3>2. ToSet(w) \subseteq Node
      BY <3>1 DEF ToSet
    <3>3. IsInjective(w)
      BY <3>1 DEF IsInjective, ListIs
    <3>4. ASSUME w # <<>> PROVE w[Len(w)] = heap.last[l] /\ heap.next[heap.last[l]] = None
      <4>1. Len(w) \in 1 .. Len(w)
        BY <3>1, <3>4
      <4>2. Nth(w, Len(w)) = w[Len(w)] /\ Nth(w, Len(w) + 1) = None
        BY <3>1, <4>1 DEF Nth
      <4> QED
        BY <3>1, <4>1, <4>2 DEF ListIs
    <3> QED
      BY <3>1, <3>2, <3>3, <3>4
  <2> QED
    BY <2>1, <2>2 DEF WellFormed
<1> QED
  BY <1>1, Inductive, PTL

(* Components that add others and take out others or themselves do not     *)
(* make a pass of swcCall skip one, call one twice or call a removed one.  *)
THEOREM EachIsCalledHolds == Spec => []EachIsCalled
<1>1. ASSUME IInv PROVE EachIsCalled
  <2> SUFFICES ASSUME phase = "at" PROVE EachIsCalled
    BY DEF EachIsCalled
  <2> DEFINE w == Walk(heap, pass)
  <2>1. heap \in Heaps /\ Listed /\ pass \in List
    BY <1>1 DEF IInv, TypeOK, Heaps, Passing
  <2>2. PICK i \in 0 .. Len(w) : CalledUpTo(heap, "at", itr, visited, w, i)
    BY <1>1 DEF IInv, Passing
  <2>3. ListIs(heap, pass, w) /\ w \in Seq(Node) /\ Len(w) \in Nat /\ DOMAIN w = 1 .. Len(w)
    BY <2>1, ListFacts
  <2>4. \A j \in 1 .. Len(w) : w[j] # None /\ heap.owner[w[j]] = pass
    BY <2>3, NodeAssumption DEF ListIs
  <2> HIDE DEF w
  <2>5. /\ itr = Nth(w, i + 1) /\ InOrder(visited, w)
        /\ \A j \in 1 .. Len(w) : w[j] \in ToSet(visited) <=> j <= i
    BY <2>2 DEF CalledUpTo
  <2>6. CASE i = Len(w)
    <3>1. itr = None
      BY <2>3, <2>5, <2>6 DEF Nth
    <3>2. ToSet(w) \subseteq ToSet(visited)
      <4>1. \A j \in 1 .. Len(w) : w[j] \in ToSet(visited)
        BY <2>3, <2>5, <2>6
      <4> QED
        BY <2>3, <4>1 DEF ToSet
    <3> QED
      BY <2>5, <3>1, <3>2 DEF EachIsCalled, w
  <2>7. CASE i # Len(w)
    <3>1. i + 1 \in 1 .. Len(w) /\ ~ (i + 1 <= i)
      <4>1. Len(w) \in Nat
        BY <2>3
      <4> QED
        BY <2>7, <4>1
    <3>2. itr = w[i + 1]
      BY <2>5, <3>1 DEF Nth
    <3> QED
      BY <2>4, <2>5, <3>1, <3>2 DEF EachIsCalled
  <2> QED
    BY <2>6, <2>7
<1> QED
  BY <1>1, Inductive, PTL

----------------------------------------------------------------------------
(* The refinement. *)

(* The sequences of the lists, which NodeSequence calls content.           *)
Content == [l \in List |-> Walk(heap, l)]

(* A change of one list is one of one sequence.                            *)
LEMMA ChangedContent ==
  ASSUME NEW l \in List, NEW v, Changed(l, v)
  PROVE  Content' = [Content EXCEPT ![l] = v]
<1>1. Walk(heap', l) = v /\ \A k \in List \ {l} : Walk(heap', k) = Walk(heap, k)
  BY DEF Changed
<1>2. Content' = [k \in List |-> Walk(heap', k)]
  BY DEF Content
<1>3. [Content EXCEPT ![l] = v] = [k \in List |-> IF k = l THEN v ELSE Walk(heap, k)]
  BY DEF Content
<1> QED
  BY <1>1, <1>2, <1>3

(* The lists implement the sequences: the walks along the links change as  *)
(* the sequences do, and an assertion fails just when a sequence refuses.  *)
THEOREM ListsAreSequences == Spec => RefinesSequence
<1>1. ASSUME Init PROVE Sequence!Init
  <2>1. \A l \in List : Walk(heap, l) = <<>>
    BY <1>1, InitiallyEmpty
  <2>2. aborted = FALSE
    BY <1>1 DEF Init
  <2> QED
    BY <2>1, <2>2 DEF Sequence!Init
<1>2. ASSUME IInv, [Next]_vars
      PROVE  [Sequence!Next]_<<[l \in List |-> Walk(heap, l)], aborted>>
  <2>1. heap \in Heaps /\ Listed /\ aborted \in BOOLEAN
    BY <1>2 DEF IInv, TypeOK, Heaps
  <2>2. CASE UNCHANGED <<heap, aborted>>
    BY <2>2
  <2>3. ASSUME ~aborted, NEW l \in List,
               \/ Len(Walk(heap, l)) = 1 /\ Abort
               \/ UNCHANGED aborted /\ Changed(l, <<>>)
               \/ \E n \in Node : Pushed(l, n) \/ TakenFrom(l, n)
        PROVE  Sequence!Next
    <3>1. /\ Content = [k \in List |-> Walk(heap, k)] /\ Content[l] = Walk(heap, l)
          /\ aborted = FALSE
      BY <2>1, <2>3 DEF Content
    <3>2. \A n \in Node : Sequence!Has(l, n) <=> contains_node(l, n)
      <4>1. \A n : Sequence!Has(l, n) <=> n \in ToSet(Walk(heap, l))
        BY DEF Sequence!Has, Sequence!ToSet, ToSet
      <4> QED
        BY <2>1, <4>1, ListFacts
    <3>3. \A v : Changed(l, v) /\ UNCHANGED aborted => Sequence!Becomes(l, v)
      BY <3>1, ChangedContent DEF Sequence!Becomes, Content
    <3>4. Abort => Sequence!Abort
      BY DEF Abort, Sequence!Abort
    <3>5. CASE Len(Walk(heap, l)) = 1 /\ Abort
      BY <2>3, <3>1, <3>4, <3>5 DEF Sequence!Next, Sequence!LonePopBack
    <3>6. CASE UNCHANGED aborted /\ Changed(l, <<>>)
      BY <2>3, <3>3, <3>6 DEF Sequence!Next, Sequence!Clear
    <3>7. ASSUME NEW n \in Node, Pushed(l, n) PROVE Sequence!Push(l, n)
      <4>1. ~Sequence!Has(l, n) /\ heap.owner[n] # l
        BY <2>1, <3>2, <3>7, ListFacts DEF Pushed
      <4>2. Sequence!Elsewhere(l, n) <=> heap.owner[n] # None
        <5>1. \A k \in List : Sequence!Has(k, n) <=> heap.owner[n] = k
          <6>1. \A k \in List : Sequence!Has(k, n) <=> n \in ToSet(Walk(heap, k))
            BY DEF Sequence!Has, Sequence!ToSet, ToSet
          <6> QED
            BY <2>1, <6>1, ListFacts
        <5>2. heap.owner[n] \in List \cup {None} /\ None \notin List
          BY <2>1, NodeAssumption DEF Heaps
        <5> QED
          BY <4>1, <5>1, <5>2 DEF Sequence!Elsewhere
      <4>3. CASE heap.owner[n] # None
        BY <3>4, <3>7, <4>1, <4>2, <4>3 DEF Pushed, Sequence!Push
      <4>4. CASE heap.owner[n] = None
        <5>1. /\ UNCHANGED aborted
              /\ Changed(l, <<n>> \o Walk(heap, l)) \/ Changed(l, Append(Walk(heap, l), n))
          BY <3>7, <4>4 DEF Pushed
        <5>2. Sequence!Becomes(l, <<n>> \o Walk(heap, l)) \/ Sequence!Becomes(l, Append(Walk(heap, l), n))
          BY <3>3, <5>1
        <5> QED
          BY <4>1, <4>2, <4>4, <5>2 DEF Sequence!Push
      <4> QED
        BY <4>3, <4>4
    <3>8. ASSUME NEW n \in Node, TakenFrom(l, n) PROVE Sequence!TakeOut(l, n)
      <4>1. CASE contains_node(l, n)
        <5>1. PICK i \in 1 .. Len(Walk(heap, l)) :
                 Walk(heap, l)[i] = n /\ Changed(l, RemoveAt(Walk(heap, l), i)) /\ UNCHANGED aborted
          BY <3>8, <4>1 DEF TakenFrom
        <5>2. Sequence!Becomes(l, RemoveAt(Walk(heap, l), i)) /\ i \in DOMAIN Walk(heap, l)
          BY <2>1, <3>3, <5>1, ListFacts
        <5>3. Sequence!RemoveAt(Walk(heap, l), i) = RemoveAt(Walk(heap, l), i)
          BY DEF Sequence!RemoveAt, RemoveAt
        <5>4. \E j \in DOMAIN Content[l] :
                Content[l][j] = n /\ Sequence!Becomes(l, Sequence!RemoveAt(Content[l], j))
          BY <3>1, <5>1, <5>2, <5>3
        <5> QED
          BY <3>1, <3>2, <4>1, <5>4 DEF Sequence!TakeOut, Content
      <4>2. CASE ~contains_node(l, n)
        BY <3>2, <3>4, <3>8, <4>2 DEF TakenFrom, Sequence!TakeOut
      <4> QED
        BY <4>1, <4>2
    <3> QED
      BY <2>3, <3>5, <3>6, <3>7, <3>8 DEF Sequence!Next
  <2> QED
    BY <1>2, <2>2, <2>3, Effects DEF Effect
<1> QED
  BY <1>1, <1>2, Inductive, PTL DEF Spec, RefinesSequence, Sequence!Spec

=============================================================================
