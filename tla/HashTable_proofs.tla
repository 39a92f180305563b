-------------------------- MODULE HashTable_proofs --------------------------
(***************************************************************************)
(* Proofs about HashTable for every set of messages, every hash function   *)
(* and every table of sizes: each entry is where a search looks for it, an *)
(* iterator stands on every entry once, and the table implements the       *)
(* collection that hashtable.h promises.                                   *)
(*                                                                         *)
(* The loops of the code are recursive functions of the model.  What they  *)
(* compute is proved by induction, in the form that every set of natural   *)
(* numbers has a least element.                                            *)
(***************************************************************************)
EXTENDS HashTable, FiniteSetTheorems, WellFoundedInduction, TLAPS

----------------------------------------------------------------------------
(* Induction. *)

(* A non-empty set of natural numbers has a least element.                 *)
LEMMA LeastNumber ==
  ASSUME NEW T, T \subseteq Nat, T # {}
  PROVE  \E n \in T : \A m \in T : n <= m
<1>1. \E n \in T : \A m \in T : ~ (<<m, n>> \in OpToRel(<, Nat))
  BY NatLessThanWellFounded, WFMin, Zenon
<1>2. PICK n \in T : \A m \in T : ~ (<<m, n>> \in OpToRel(<, Nat))
  BY <1>1
<1>3. ASSUME NEW m \in T PROVE n <= m
  <2>1. ~ (<<m, n>> \in {ss \in Nat \X Nat : ss[1] < ss[2]})
    BY <1>2 DEF OpToRel
  <2> QED
    BY <2>1
<1> QED
  BY <1>3

(* A set that has 0 and with each number the next one has all up to n.     *)
LEMMA UpTo ==
  ASSUME NEW n \in Nat, NEW S, 0 \in S, \A k \in 1 .. n : k - 1 \in S => k \in S
  PROVE  \A k \in 0 .. n : k \in S
<1> SUFFICES ASSUME NEW j \in 0 .. n, j \notin S PROVE FALSE
  OBVIOUS
<1> DEFINE Bad == {k \in 0 .. n : k \notin S}
<1>1. PICK k \in Bad : \A m \in Bad : k <= m
  <2>1. Bad \subseteq Nat /\ j \in Bad
    OBVIOUS
  <2> HIDE DEF Bad
  <2> QED
    BY <2>1, LeastNumber
<1>2. k \in 1 .. n /\ k - 1 \in 0 .. n
  OBVIOUS
<1>3. k - 1 \in S
  BY <1>1, <1>2
<1> QED
  BY <1>2, <1>3

(* f gives the value of D after each of n rounds.                          *)
Run(f, D, a, n, step) ==
  f \in [0 .. n -> D] /\ f[0] = a /\ \A k \in 1 .. n : f[k] = step[k][f[k - 1]]

(* A loop of n rounds, each of which turns a value of D into another: there*)
(* is a function that gives the value after each round.                    *)
LEMMA Rounds ==
  ASSUME NEW D, NEW a \in D, NEW n \in Nat, NEW step \in [1 .. n -> [D -> D]]
  PROVE  \E f : Run(f, D, a, n, step)
<1> DEFINE Upto(m, f) ==
             f \in [0 .. n -> D] /\ f[0] = a /\ \A k \in 1 .. m : f[k] = step[k][f[k - 1]]
           S == {m \in 0 .. n : \E f : Upto(m, f)}
<1>1. 0 \in S
  <2> DEFINE f == [k \in 0 .. n |-> a]
  <2>1. f \in [0 .. n -> D] /\ f[0] = a /\ 0 \in 0 .. n
    OBVIOUS
  <2> HIDE DEF f
  <2>2. Upto(0, f)
    BY <2>1
  <2> QED
    BY <2>1, <2>2, Zenon
<1>2. ASSUME NEW m \in 1 .. n, m - 1 \in S PROVE m \in S
  <2>1. PICK f : Upto(m - 1, f)
    BY <1>2
  <2> DEFINE g == [f EXCEPT ![m] = step[m][f[m - 1]]]
  <2>2. f \in [0 .. n -> D] /\ m - 1 \in 0 .. n /\ f[m - 1] \in D /\ m \in 0 .. n
    BY <2>1
  <2>3. step[m][f[m - 1]] \in D
    BY <2>2
  <2>4. g \in [0 .. n -> D] /\ g[0] = a
    BY <2>1, <2>2, <2>3
  <2>5. ASSUME NEW k \in 1 .. m PROVE g[k] = step[k][g[k - 1]]
    <3>1. k - 1 \in 0 .. n /\ k \in 0 .. n /\ k - 1 # m /\ g[k - 1] = f[k - 1]
      BY <2>2
    <3>2. CASE k = m
      BY <3>1, <3>2, <2>2
    <3>3. CASE k # m
      <4>1. k \in 1 .. (m - 1) /\ g[k] = f[k]
        BY <3>1, <3>3, <2>2
      <4> QED
        BY <4>1, <3>1, <2>1
    <3> QED
      BY <3>2, <3>3
  <2> HIDE DEF g
  <2>6. Upto(m, g)
    BY <2>4, <2>5
  <2> QED
    BY <2>2, <2>6, Zenon
<1>3. n \in S
  <2> HIDE DEF S
  <2>1. \A k \in 0 .. n : k \in S
    BY <1>1, <1>2, UpTo
  <2> QED
    BY <2>1
<1> QED
  BY <1>3 DEF Run

----------------------------------------------------------------------------
(* Sequences. *)

(* The least place that passes a test.                                     *)
LEMMA LeastPlace ==
  ASSUME NEW I, I \subseteq Nat, I # {}
  PROVE  Min(I) \in I /\ \A j \in I : Min(I) <= j
BY LeastNumber DEF Min

(* What the head and the rest of a chain with a new head are.              *)
LEMMA Prepended ==
  ASSUME NEW X, NEW s \in Seq(X), NEW x \in X
  PROVE  /\ <<x>> \o s \in Seq(X) /\ Len(<<x>> \o s) = Len(s) + 1
         /\ (<<x>> \o s)[1] = x
         /\ \A i \in 1 .. Len(s) : (<<x>> \o s)[i + 1] = s[i]
OBVIOUS

----------------------------------------------------------------------------
(* Tables of n buckets. *)

Tables(n) == [0 .. (n - 1) -> Seq(Entry)]
Entries(t) == UNION {ToSet(t[b]) : b \in DOMAIN t}

(* Every entry of the table is in the bucket of its hash, once.            *)
Sound(t, n) ==
  \A b \in 0 .. (n - 1) : \A i \in DOMAIN t[b] :
    /\ t[b][i].h = HashOf[t[b][i].k] /\ b = indexFor(n, t[b][i].h)
    /\ \A c \in 0 .. (n - 1) : \A j \in DOMAIN t[c] :
         t[c][j].v = t[b][i].v => b = c /\ i = j

(* Soundness, read off at one place of the table.                          *)
LEMMA SoundAt ==
  ASSUME NEW n, NEW t, Sound(t, n), NEW b \in 0 .. (n - 1), NEW i \in DOMAIN t[b]
  PROVE  /\ t[b][i].h = HashOf[t[b][i].k] /\ b = indexFor(n, t[b][i].h)
         /\ \A c \in 0 .. (n - 1) : \A j \in DOMAIN t[c] :
              t[c][j].v = t[b][i].v => b = c /\ i = j
BY Zenon DEF Sound

(* What the members and the chains of a table are.                         *)
LEMMA EntryOfTable ==
  ASSUME NEW n \in Nat \ {0}, NEW t \in Tables(n)
  PROVE  /\ DOMAIN t = 0 .. (n - 1) /\ Cardinality(DOMAIN t) = n
         /\ \A e : e \in Entries(t) <=>
              \E b \in 0 .. (n - 1) : \E i \in 1 .. Len(t[b]) : e = t[b][i]
         /\ \A b \in 0 .. (n - 1) :
              /\ t[b] \in Seq(Entry) /\ Len(t[b]) \in Nat /\ DOMAIN t[b] = 1 .. Len(t[b])
              /\ \A i \in 1 .. Len(t[b]) : t[b][i] \in Entry
<1>1. DOMAIN t = 0 .. (n - 1)
  BY DEF Tables
<1>2. Cardinality(0 .. (n - 1)) = n
  BY FS_Interval
<1>3. \A b \in 0 .. (n - 1) :
        /\ t[b] \in Seq(Entry) /\ Len(t[b]) \in Nat /\ DOMAIN t[b] = 1 .. Len(t[b])
        /\ \A i \in 1 .. Len(t[b]) : t[b][i] \in Entry
  <2> SUFFICES ASSUME NEW b \in 0 .. (n - 1)
               PROVE  /\ t[b] \in Seq(Entry) /\ Len(t[b]) \in Nat
                      /\ DOMAIN t[b] = 1 .. Len(t[b])
                      /\ \A i \in 1 .. Len(t[b]) : t[b][i] \in Entry
    OBVIOUS
  <2>1. t[b] \in Seq(Entry)
    BY DEF Tables
  <2> DEFINE s == t[b]
  <2> HIDE DEF s
  <2>2. s \in Seq(Entry)
    BY <2>1 DEF s
  <2>3. /\ Len(s) \in Nat /\ DOMAIN s = 1 .. Len(s)
        /\ \A i \in 1 .. Len(s) : s[i] \in Entry
    BY <2>2
  <2> QED
    BY <2>2, <2>3 DEF s
<1>4. \A e : e \in Entries(t) <=>
            \E b \in 0 .. (n - 1) : \E i \in DOMAIN t[b] : e = t[b][i]
  BY <1>1 DEF Entries, ToSet
<1> QED
  BY <1>1, <1>2, <1>3, <1>4

(* What linking one entry does.                                            *)
LEMMA Linked ==
  ASSUME NEW n \in Nat \ {0}, NEW t \in Tables(n), NEW e \in Entry
  PROVE  /\ Link(t, e) \in Tables(n)
         /\ indexFor(n, e.h) \in 0 .. (n - 1)
         /\ Link(t, e)[indexFor(n, e.h)] = <<e>> \o t[indexFor(n, e.h)]
         /\ \A c \in 0 .. (n - 1) : c # indexFor(n, e.h) => Link(t, e)[c] = t[c]
<1> DEFINE b == indexFor(n, e.h)
<1>1. e.h \in Nat
  BY DEF Entry
<1>2. b \in 0 .. (n - 1)
  BY <1>1 DEF indexFor
<1>3. Cardinality(DOMAIN t) = n
  BY EntryOfTable
<1>4. Link(t, e) = [t EXCEPT ![b] = <<e>> \o @]
  BY <1>3 DEF Link
<1> HIDE DEF b
<1>5. t[b] \in Seq(Entry)
  BY <1>2, EntryOfTable
<1>6. <<e>> \o t[b] \in Seq(Entry)
  BY <1>5, Prepended
<1>7. /\ Link(t, e) \in Tables(n)
      /\ Link(t, e)[b] = <<e>> \o t[b]
      /\ \A c \in 0 .. (n - 1) : c # b => Link(t, e)[c] = t[c]
  BY <1>2, <1>4, <1>6 DEF Tables
<1> QED
  BY <1>2, <1>7 DEF b

(* A sound table stays sound with one more entry, which is not in it.      *)
LEMMA LinkKeeps ==
  ASSUME NEW n \in Nat \ {0}, NEW t \in Tables(n), NEW e \in Entry
  PROVE  /\ Entries(Link(t, e)) = Entries(t) \cup {e}
         /\ (/\ Sound(t, n) /\ e.h = HashOf[e.k]
             /\ \A x \in Entries(t) : x.v # e.v) => Sound(Link(t, e), n)
<1> DEFINE b == indexFor(n, e.h)
           u == Link(t, e)
<1>1. /\ u \in Tables(n) /\ b \in 0 .. (n - 1) /\ u[b] = <<e>> \o t[b]
      /\ \A c \in 0 .. (n - 1) : c # b => u[c] = t[c]
  BY Linked
<1> HIDE DEF u
<1>2. /\ Len(u[b]) = Len(t[b]) + 1 /\ u[b][1] = e
      /\ \A i \in 1 .. Len(t[b]) : u[b][i + 1] = t[b][i]
  <2>1. t[b] \in Seq(Entry)
    BY <1>1, EntryOfTable
  <2> QED
    BY <1>1, <2>1, Prepended
<1>3. /\ \A c \in 0 .. (n - 1) : /\ Len(t[c]) \in Nat /\ DOMAIN t[c] = 1 .. Len(t[c])
                                 /\ DOMAIN u[c] = 1 .. Len(u[c])
      /\ \A x : x \in Entries(t) <=>
               \E c \in 0 .. (n - 1) : \E i \in 1 .. Len(t[c]) : x = t[c][i]
      /\ \A x : x \in Entries(u) <=>
               \E c \in 0 .. (n - 1) : \E i \in 1 .. Len(u[c]) : x = u[c][i]
  <2>1. /\ \A c \in 0 .. (n - 1) : Len(t[c]) \in Nat /\ DOMAIN t[c] = 1 .. Len(t[c])
        /\ \A x : x \in Entries(t) <=>
                 \E c \in 0 .. (n - 1) : \E i \in 1 .. Len(t[c]) : x = t[c][i]
    BY EntryOfTable, Zenon
  <2>2. /\ \A c \in 0 .. (n - 1) : DOMAIN u[c] = 1 .. Len(u[c])
        /\ \A x : x \in Entries(u) <=>
                 \E c \in 0 .. (n - 1) : \E i \in 1 .. Len(u[c]) : x = u[c][i]
    BY <1>1, EntryOfTable, Zenon
  <2> QED
    BY <2>1, <2>2, Zenon
<1> HIDE DEF b
<1> DEFINE Old(c, i) == IF c = b THEN i - 1 ELSE i
(* An entry of the new table is the new one or has come from the old.      *)
<1>4. \A c \in 0 .. (n - 1) : \A i \in 1 .. Len(u[c]) :
        \/ c = b /\ i = 1 /\ u[c][i] = e
        \/ /\ ~ (c = b /\ i = 1)
           /\ Old(c, i) \in 1 .. Len(t[c]) /\ u[c][i] = t[c][Old(c, i)]
  <2> SUFFICES ASSUME NEW c \in 0 .. (n - 1), NEW i \in 1 .. Len(u[c])
               PROVE  \/ c = b /\ i = 1 /\ u[c][i] = e
                      \/ /\ ~ (c = b /\ i = 1)
                         /\ Old(c, i) \in 1 .. Len(t[c]) /\ u[c][i] = t[c][Old(c, i)]
    OBVIOUS
  <2>1. CASE c # b
    BY <1>1, <2>1
  <2>2. CASE c = b /\ i = 1
    BY <1>2, <2>2
  <2>3. CASE c = b /\ i # 1
    <3>1. i - 1 \in 1 .. Len(t[b])
      BY <1>1, <1>2, <1>3, <2>3
    <3>2. u[b][(i - 1) + 1] = t[b][i - 1]
      BY <3>1, <1>2
    <3>3. (i - 1) + 1 = i
      OBVIOUS
    <3> QED
      BY <3>1, <3>2, <3>3, <2>3
  <2> QED
    BY <2>1, <2>2, <2>3
<1>5. Entries(u) = Entries(t) \cup {e}
  <2>1. ASSUME NEW x \in Entries(u) PROVE x \in Entries(t) \cup {e}
    <3>0. PICK c \in 0 .. (n - 1) : \E i \in 1 .. Len(u[c]) : x = u[c][i]
      BY <1>3
    <3>1. PICK i \in 1 .. Len(u[c]) : x = u[c][i]
      BY <3>0
    <3> DEFINE k == Old(c, i)
    <3>2. u[c][i] = e \/ (k \in 1 .. Len(t[c]) /\ u[c][i] = t[c][k])
      BY <1>4
    <3> HIDE DEF k
    <3> QED
      BY <1>3, <3>1, <3>2
  <2>2. e \in Entries(u)
    <3>1. 1 \in 1 .. Len(u[b])
      BY <1>1, <1>2, <1>3
    <3> QED
      BY <1>1, <1>2, <1>3, <3>1
  <2>3. ASSUME NEW x \in Entries(t) PROVE x \in Entries(u)
    <3>0. PICK c \in 0 .. (n - 1) : \E i \in 1 .. Len(t[c]) : x = t[c][i]
      BY <1>3
    <3>1. PICK i \in 1 .. Len(t[c]) : x = t[c][i]
      BY <3>0
    <3>2. CASE c = b
      <4>1. i + 1 \in 1 .. Len(u[b]) /\ u[b][i + 1] = x
        BY <1>1, <1>2, <1>3, <3>1, <3>2
      <4> QED
        BY <1>1, <1>3, <4>1
    <3>3. CASE c # b
      BY <1>1, <1>3, <3>1, <3>3
    <3> QED
      BY <3>2, <3>3
  <2> QED
    BY <2>1, <2>2, <2>3
<1>6. ASSUME Sound(t, n), e.h = HashOf[e.k], \A x \in Entries(t) : x.v # e.v
      PROVE  Sound(u, n)
  <2>1. \A c \in 0 .. (n - 1) : \A i \in 1 .. Len(t[c]) : t[c][i].v # e.v
    BY <1>3, <1>6
  <2>2. \A c \in 0 .. (n - 1) : \A i \in 1 .. Len(t[c]) :
          /\ t[c][i].h = HashOf[t[c][i].k] /\ c = indexFor(n, t[c][i].h)
          /\ \A d \in 0 .. (n - 1) : \A j \in 1 .. Len(t[d]) :
               t[d][j].v = t[c][i].v => c = d /\ i = j
    BY <1>3, <1>6 DEF Sound
  <2>3. b = indexFor(n, e.h)
    BY DEF b
  <2>4. ASSUME NEW c \in 0 .. (n - 1), NEW i \in 1 .. Len(u[c])
        PROVE  u[c][i].h = HashOf[u[c][i].k] /\ c = indexFor(n, u[c][i].h)
    <3> DEFINE k == Old(c, i)
    <3>1. \/ c = b /\ u[c][i] = e
          \/ k \in 1 .. Len(t[c]) /\ u[c][i] = t[c][k]
      BY <1>4
    <3> HIDE DEF k
    <3> QED
      BY <1>6, <2>2, <2>3, <3>1
  <2>5. ASSUME NEW c \in 0 .. (n - 1), NEW i \in 1 .. Len(u[c]),
               NEW d \in 0 .. (n - 1), NEW j \in 1 .. Len(u[d]), u[d][j].v = u[c][i].v
        PROVE  c = d /\ i = j
    <3> DEFINE k == Old(c, i)
               l == Old(d, j)
    <3>1. \/ c = b /\ i = 1 /\ u[c][i] = e
          \/ /\ ~ (c = b /\ i = 1)
             /\ k \in 1 .. Len(t[c]) /\ u[c][i] = t[c][k]
      BY <1>4
    <3>2. \/ d = b /\ j = 1 /\ u[d][j] = e
          \/ /\ ~ (d = b /\ j = 1)
             /\ l \in 1 .. Len(t[d]) /\ u[d][j] = t[d][l]
      BY <1>4
    <3>3. c = d /\ k = l => i = j
      BY <1>3
    <3> HIDE DEF k, l
    <3>4. CASE c = b /\ i = 1 /\ u[c][i] = e
      BY <3>4, <3>2, <2>1, <2>5
    <3>5. CASE d = b /\ j = 1 /\ u[d][j] = e
      BY <3>5, <3>1, <2>1, <2>5
    <3>6. CASE /\ k \in 1 .. Len(t[c]) /\ u[c][i] = t[c][k]
               /\ l \in 1 .. Len(t[d]) /\ u[d][j] = t[d][l]
      <4>1. t[d][l].v = t[c][k].v
        BY <2>5, <3>6
      <4>2. \A m \in 0 .. (n - 1) : \A j1 \in 1 .. Len(t[m]) :
              t[m][j1].v = t[c][k].v => c = m /\ k = j1
        BY <2>2, <3>6, Zenon
      <4>3. c = d /\ k = l
        BY <4>1, <4>2, <3>6, Zenon
      <4> QED
        BY <4>3, <3>3
    <3> QED
      BY <3>1, <3>2, <3>4, <3>5, <3>6
  <2>6. \A c \in 0 .. (n - 1) : DOMAIN u[c] = 1 .. Len(u[c])
    BY <1>3
  <2>7. ASSUME NEW c \in 0 .. (n - 1), NEW i \in DOMAIN u[c]
        PROVE  /\ u[c][i].h = HashOf[u[c][i].k] /\ c = indexFor(n, u[c][i].h)
               /\ \A d \in 0 .. (n - 1) : \A j \in DOMAIN u[d] :
                    u[d][j].v = u[c][i].v => c = d /\ i = j
    <3>1. i \in 1 .. Len(u[c])
      BY <2>6
    <3>2. ASSUME NEW d \in 0 .. (n - 1), NEW j \in DOMAIN u[d], u[d][j].v = u[c][i].v
          PROVE  c = d /\ i = j
      <4>1. j \in 1 .. Len(u[d])
        BY <2>6
      <4> QED
        BY <2>5, <3>1, <3>2, <4>1, Zenon
    <3> QED
      BY <2>4, <3>1, <3>2, Zenon
  <2> QED
    BY <2>7, Zenon DEF Sound
<1> QED
  BY <1>5, <1>6 DEF u

(* The tables in the course of the loop over one chain.                    *)
Linking(f, n, t, chain) ==
  /\ f \in [0 .. Len(chain) -> Tables(n)]
  /\ f[0] = t /\ f[Len(chain)] = Moved(t, chain)
  /\ \A i \in 1 .. Len(chain) : f[i] = Link(f[i - 1], chain[i])

(* The loop over one chain links its entries one after the other.          *)
LEMMA MovedRounds ==
  ASSUME NEW n \in Nat \ {0}, NEW t \in Tables(n), NEW chain \in Seq(Entry)
  PROVE  \E f : Linking(f, n, t, chain)
<1> DEFINE m == Len(chain)
           F == CHOOSE f : f = [i \in 0 .. m |-> IF i = 0 THEN t ELSE Link(f[i - 1], chain[i])]
           step == [i \in 1 .. m |-> [u \in Tables(n) |-> Link(u, chain[i])]]
<1>1. Moved(t, chain) = F[m]
  BY DEF Moved
<1>2. m \in Nat /\ \A i \in 1 .. m : chain[i] \in Entry
  OBVIOUS
<1> HIDE DEF m
<1>3. \A u \in Tables(n), i \in 1 .. m : Link(u, chain[i]) \in Tables(n)
  BY <1>2, Linked
<1>4. step \in [1 .. m -> [Tables(n) -> Tables(n)]]
  BY <1>3
<1>5. \A i \in 1 .. m : \A u \in Tables(n) : step[i][u] = Link(u, chain[i])
  OBVIOUS
<1> HIDE DEF step
<1>5a. PICK g : Run(g, Tables(n), t, m, step)
  BY <1>2, <1>4, Rounds, Zenon
<1>6. g \in [0 .. m -> Tables(n)] /\ g[0] = t /\ \A i \in 1 .. m : g[i] = step[i][g[i - 1]]
  BY <1>5a DEF Run
<1>7. \A i \in 1 .. m : g[i] = Link(g[i - 1], chain[i])
  <2> SUFFICES ASSUME NEW i \in 1 .. m PROVE g[i] = Link(g[i - 1], chain[i])
    OBVIOUS
  <2>1. g[i - 1] \in Tables(n)
    BY <1>2, <1>6
  <2> QED
    BY <2>1, <1>5, <1>6
<1>8. g = [i \in 0 .. m |-> IF i = 0 THEN t ELSE Link(g[i - 1], chain[i])]
  BY <1>2, <1>6, <1>7
<1>9. F = [i \in 0 .. m |-> IF i = 0 THEN t ELSE Link(F[i - 1], chain[i])]
  BY <1>8
<1> HIDE DEF F
<1>10. F[0] = t /\ \A i \in 1 .. m : F[i] = Link(F[i - 1], chain[i])
  BY <1>2, <1>9
<1> DEFINE S == {i \in 0 .. m : F[i] \in Tables(n)}
<1>11. 0 \in S
  BY <1>2, <1>10
<1>12. \A i \in 1 .. m : i - 1 \in S => i \in S
  BY <1>2, <1>3, <1>10
<1>13. \A i \in 0 .. m : i \in S
  <2> HIDE DEF S
  <2> QED
    BY <1>2, <1>11, <1>12, UpTo
<1>14. F \in [0 .. m -> Tables(n)]
  BY <1>9, <1>13
<1> QED
  BY <1>1, <1>10, <1>14 DEF m, Linking

(* The entries of a chain have their hash, and are none of the table's.    *)
Movable(t, chain) ==
  \A i \in 1 .. Len(chain) :
    /\ chain[i].h = HashOf[chain[i].k]
    /\ \A j \in 1 .. Len(chain) : chain[i].v = chain[j].v => i = j
    /\ \A x \in Entries(t) : x.v # chain[i].v

(* Moving a chain of other entries to a sound table.                       *)
LEMMA MovedKeeps ==
  ASSUME NEW n \in Nat \ {0}, NEW t \in Tables(n), NEW chain \in Seq(Entry), Sound(t, n),
         Movable(t, chain)
  PROVE  /\ Moved(t, chain) \in Tables(n) /\ Sound(Moved(t, chain), n)
         /\ Entries(Moved(t, chain)) = Entries(t) \cup {chain[i] : i \in 1 .. Len(chain)}
<1> DEFINE m == Len(chain)
<1>1. m \in Nat /\ \A i \in 1 .. m : chain[i] \in Entry
  OBVIOUS
<1>1b. \A i \in 1 .. m :
         /\ chain[i].h = HashOf[chain[i].k]
         /\ \A j \in 1 .. m : chain[i].v = chain[j].v => i = j
         /\ \A x \in Entries(t) : x.v # chain[i].v
  BY DEF Movable
<1>1a. PICK f : Linking(f, n, t, chain)
  BY MovedRounds, Zenon
<1>2. /\ f \in [0 .. m -> Tables(n)] /\ f[0] = t /\ Moved(t, chain) = f[m]
      /\ \A i \in 1 .. m : f[i] = Link(f[i - 1], chain[i])
  BY <1>1a DEF Linking
<1> HIDE DEF m
<1> DEFINE Good(i) == Sound(f[i], n) /\ Entries(f[i]) = Entries(t) \cup {chain[j] : j \in 1 .. i}
           S == {i \in 0 .. m : Good(i)}
<1>3. 0 \in S
  BY <1>1, <1>2
<1>4. ASSUME NEW i \in 1 .. m, i - 1 \in S PROVE i \in S
  <2>1. f[i - 1] \in Tables(n) /\ chain[i] \in Entry /\ i \in 0 .. m
    BY <1>1, <1>2
  <2>2. /\ Sound(f[i - 1], n)
        /\ Entries(f[i - 1]) = Entries(t) \cup {chain[j] : j \in 1 .. (i - 1)}
    BY <1>4
  <2>3. f[i] = Link(f[i - 1], chain[i])
    BY <1>2
  <2>4. ASSUME NEW x \in Entries(f[i - 1]) PROVE x.v # chain[i].v
    <3>1. CASE x \in Entries(t)
      BY <3>1, <1>1b
    <3>2. CASE x \in {chain[j] : j \in 1 .. (i - 1)}
      <4>1. PICK j \in 1 .. (i - 1) : x = chain[j]
        BY <3>2
      <4>2. j \in 1 .. m /\ i # j
        BY <1>1
      <4>3. chain[i].v # chain[j].v
        BY <4>2, <1>1b
      <4> QED
        BY <4>1, <4>3
    <3> QED
      BY <2>2, <3>1, <3>2
  <2>5. chain[i].h = HashOf[chain[i].k]
    BY <1>1b
  <2>6. Sound(f[i], n) /\ Entries(f[i]) = Entries(f[i - 1]) \cup {chain[i]}
    <3> DEFINE u == f[i - 1]
               e == chain[i]
    <3>1. /\ u \in Tables(n) /\ e \in Entry /\ Sound(u, n) /\ e.h = HashOf[e.k]
          /\ \A x \in Entries(u) : x.v # e.v
      BY <2>1, <2>2, <2>4, <2>5
    <3> HIDE DEF u, e
    <3>2. Sound(Link(u, e), n) /\ Entries(Link(u, e)) = Entries(u) \cup {e}
      BY <3>1, LinkKeeps, Zenon
    <3> QED
      BY <3>2, <2>3 DEF u, e
  <2>7. {chain[j] : j \in 1 .. i} = {chain[j] : j \in 1 .. (i - 1)} \cup {chain[i]}
    BY <1>1
  <2>8. Good(i)
    BY <2>2, <2>6, <2>7
  <2> QED
    BY <2>1, <2>8
<1>5. \A i \in 0 .. m : i \in S
  <2> HIDE DEF S
  <2> QED
    BY <1>1, <1>3, <1>4, UpTo
<1>6. m \in 0 .. m
  BY <1>1
<1> QED
  BY <1>2, <1>5, <1>6 DEF m

(* hashtable_expand loses no entry, adds none, and puts each into the      *)
(* bucket in which a search of the larger table looks for it.              *)
LEMMA Rehashed ==
  ASSUME NEW n \in Nat \ {0}, NEW t \in Tables(n), Sound(t, n), NEW m \in Nat \ {0}
  PROVE  /\ Rehash(t, m) \in Tables(m) /\ Sound(Rehash(t, m), m)
         /\ Entries(Rehash(t, m)) = Entries(t)
<1> DEFINE empty == [c \in 0 .. (m - 1) |-> <<>>]
           F == CHOOSE f : f = [b \in 0 .. n |-> IF b = 0 THEN empty ELSE Moved(f[b - 1], t[b - 1])]
           step == [b \in 1 .. n |-> [u \in Tables(m) |-> Moved(u, t[b - 1])]]
<1>1. Rehash(t, m) = F[n]
  BY EntryOfTable, Zenon DEF Rehash
<1>2. /\ empty \in Tables(m) /\ \A c \in 0 .. (m - 1) : Len(empty[c]) = 0
      /\ DOMAIN empty = 0 .. (m - 1)
  BY DEF Tables
<1> HIDE DEF empty
<1>3. Sound(empty, m) /\ Entries(empty) = {}
  <2>1. \A c \in 0 .. (m - 1) : DOMAIN empty[c] = {}
    BY <1>2, EntryOfTable
  <2> QED
    BY <1>2, <2>1 DEF Sound, Entries, ToSet
<1>4. \A b \in 1 .. n : /\ b - 1 \in 0 .. (n - 1) /\ t[b - 1] \in Seq(Entry)
                        /\ Len(t[b - 1]) \in Nat /\ DOMAIN t[b - 1] = 1 .. Len(t[b - 1])
  BY EntryOfTable
<1>5. \A u \in Tables(m), b \in 1 .. n : Moved(u, t[b - 1]) \in Tables(m)
  <2> SUFFICES ASSUME NEW u \in Tables(m), NEW b \in 1 .. n PROVE Moved(u, t[b - 1]) \in Tables(m)
    OBVIOUS
  <2>1. t[b - 1] \in Seq(Entry) /\ Len(t[b - 1]) \in 0 .. Len(t[b - 1])
    BY <1>4
  <2> QED
    <3> DEFINE chain == t[b - 1]
    <3>1. chain \in Seq(Entry)
      BY <2>1
    <3> HIDE DEF chain
    <3>2. PICK f : Linking(f, m, u, chain)
      BY <3>1, MovedRounds, Zenon
    <3>3. Len(chain) \in 0 .. Len(chain)
      BY <3>1
    <3> QED
      BY <3>2, <3>3 DEF chain, Linking
<1>6. step \in [1 .. n -> [Tables(m) -> Tables(m)]]
  BY <1>5
<1>7. \A b \in 1 .. n : \A u \in Tables(m) : step[b][u] = Moved(u, t[b - 1])
  OBVIOUS
<1> HIDE DEF step
<1>7a. PICK g : Run(g, Tables(m), empty, n, step)
  <2>1. n \in Nat
    OBVIOUS
  <2> QED
    BY <1>2, <1>6, <2>1, Rounds, Zenon
<1>8. /\ g \in [0 .. n -> Tables(m)] /\ g[0] = empty
      /\ \A b \in 1 .. n : g[b] = step[b][g[b - 1]]
  BY <1>7a DEF Run
<1>9. \A b \in 1 .. n : g[b] = Moved(g[b - 1], t[b - 1])
  <2> SUFFICES ASSUME NEW b \in 1 .. n PROVE g[b] = Moved(g[b - 1], t[b - 1])
    OBVIOUS
  <2>1. g[b - 1] \in Tables(m)
    BY <1>8
  <2> QED
    BY <2>1, <1>7, <1>8
<1>10. g = [b \in 0 .. n |-> IF b = 0 THEN empty ELSE Moved(g[b - 1], t[b - 1])]
  BY <1>8, <1>9
<1>11. F = [b \in 0 .. n |-> IF b = 0 THEN empty ELSE Moved(F[b - 1], t[b - 1])]
  BY <1>10
<1> HIDE DEF F
<1>12. F[0] = empty /\ \A b \in 1 .. n : F[b] = Moved(F[b - 1], t[b - 1])
  BY <1>11
<1> DEFINE Before(b) == {x \in Entries(t) : \E c \in 0 .. (b - 1) : x \in ToSet(t[c])}
           Good(b) == F[b] \in Tables(m) /\ Sound(F[b], m) /\ Entries(F[b]) = Before(b)
           S == {b \in 0 .. n : Good(b)}
<1>13. 0 \in S
  <2>1. Before(0) = {}
    OBVIOUS
  <2> QED
    BY <2>1, <1>2, <1>3, <1>12
<1>14. ASSUME NEW b \in 1 .. n, b - 1 \in S PROVE b \in S
  <2> DEFINE chain == t[b - 1]
  <2>1. F[b - 1] \in Tables(m) /\ Sound(F[b - 1], m) /\ Entries(F[b - 1]) = Before(b - 1)
    BY <1>14
  <2>2. F[b] = Moved(F[b - 1], chain) /\ b \in 0 .. n
    BY <1>12
  <2>3. chain \in Seq(Entry) /\ ToSet(chain) = {chain[i] : i \in 1 .. Len(chain)}
    BY <1>4 DEF ToSet
  <2>4. \A i \in 1 .. Len(chain) :
          /\ chain[i].h = HashOf[chain[i].k]
          /\ \A j \in 1 .. Len(chain) : chain[i].v = chain[j].v => i = j
    <3>1. b - 1 \in 0 .. (n - 1) /\ DOMAIN chain = 1 .. Len(chain)
      BY <1>4
    <3>2. ASSUME NEW i \in 1 .. Len(chain)
          PROVE  /\ chain[i].h = HashOf[chain[i].k]
                 /\ \A j \in 1 .. Len(chain) : chain[i].v = chain[j].v => i = j
      <4>1. i \in DOMAIN t[b - 1] /\ 1 .. Len(chain) = DOMAIN t[b - 1]
        BY <3>1
      <4>2. /\ t[b - 1][i].h = HashOf[t[b - 1][i].k]
            /\ \A j \in DOMAIN t[b - 1] : t[b - 1][j].v = t[b - 1][i].v => i = j
        <5> DEFINE a == b - 1
        <5>1. a \in 0 .. (n - 1) /\ i \in DOMAIN t[a]
          BY <3>1, <4>1
        <5> HIDE DEF a
        <5>2. /\ t[a][i].h = HashOf[t[a][i].k]
              /\ \A c \in 0 .. (n - 1) : \A j \in DOMAIN t[c] :
                   t[c][j].v = t[a][i].v => a = c /\ i = j
          BY <5>1, SoundAt
        <5> QED
          BY <5>1, <5>2, Zenon DEF a
      <4> QED
        BY <4>1, <4>2
    <3> QED
      BY <3>2
  <2>5. ASSUME NEW i \in 1 .. Len(chain), NEW x \in Before(b - 1) PROVE x.v # chain[i].v
    <3>1. PICK c \in 0 .. (b - 2) : x \in ToSet(t[c])
      OBVIOUS
    <3>2. PICK j \in DOMAIN t[c] : x = t[c][j]
      BY <3>1 DEF ToSet
    <3>3. c \in 0 .. (n - 1) /\ c # b - 1 /\ b - 1 \in 0 .. (n - 1) /\ i \in DOMAIN t[b - 1]
      BY <1>4
    <3> DEFINE a == b - 1
    <3>4. a \in 0 .. (n - 1) /\ i \in DOMAIN t[a] /\ c # a
      BY <3>3
    <3> HIDE DEF a
    <3>5. \A d \in 0 .. (n - 1) : \A k \in DOMAIN t[d] : t[d][k].v = t[a][i].v => a = d /\ i = k
      <4>1. /\ t[a][i].h = HashOf[t[a][i].k] /\ a = indexFor(n, t[a][i].h)
            /\ \A d \in 0 .. (n - 1) : \A k \in DOMAIN t[d] :
                 t[d][k].v = t[a][i].v => a = d /\ i = k
        BY <3>4, SoundAt
      <4> QED
        BY <4>1, Zenon
    <3>6. x.v # t[a][i].v
      BY <3>2, <3>3, <3>4, <3>5, Zenon
    <3> QED
      BY <3>6 DEF a
  <2>6. \A i \in 1 .. Len(chain) :
          /\ chain[i].h = HashOf[chain[i].k]
          /\ \A j \in 1 .. Len(chain) : chain[i].v = chain[j].v => i = j
          /\ \A x \in Entries(F[b - 1]) : x.v # chain[i].v
    BY <2>1, <2>4, <2>5
  <2>7. /\ F[b] \in Tables(m) /\ Sound(F[b], m)
        /\ Entries(F[b]) = Before(b - 1) \cup ToSet(chain)
    <3> DEFINE u == F[b - 1]
    <3>1. u \in Tables(m) /\ Sound(u, m) /\ Entries(u) = Before(b - 1) /\ F[b] = Moved(u, chain)
      BY <2>1, <2>2
    <3>2. Movable(u, chain)
      BY <2>6 DEF Movable
    <3> HIDE DEF u, chain, Before
    <3>3. /\ Moved(u, chain) \in Tables(m) /\ Sound(Moved(u, chain), m)
          /\ Entries(Moved(u, chain)) = Entries(u) \cup {chain[i] : i \in 1 .. Len(chain)}
      BY <2>3, <3>1, <3>2, MovedKeeps
    <3> QED
      BY <2>3, <3>1, <3>3
  <2>8. Before(b) = Before(b - 1) \cup ToSet(chain)
    <3>1. ToSet(chain) \subseteq Entries(t)
      BY <1>4, EntryOfTable DEF Entries
    <3>2. 0 .. (b - 1) = 0 .. (b - 2) \cup {b - 1} /\ (b - 1) - 1 = b - 2
      OBVIOUS
    <3> QED
      BY <3>1, <3>2
  <2> QED
    BY <2>2, <2>7, <2>8
<1>15. \A b \in 0 .. n : b \in S
  <2> HIDE DEF S
  <2> QED
    BY <1>13, <1>14, UpTo
<1>16. F[n] \in Tables(m) /\ Sound(F[n], m) /\ Entries(F[n]) = Before(n)
  <2>1. n \in 0 .. n
    OBVIOUS
  <2> QED
    BY <2>1, <1>15
<1>17. Before(n) = Entries(t)
  <2>1. DOMAIN t = 0 .. (n - 1)
    BY EntryOfTable
  <2> QED
    BY <2>1 DEF Entries
<1> QED
  BY <1>1, <1>16, <1>17

----------------------------------------------------------------------------
(* Chains. *)

(* The values of a chain differ.                                           *)
Distinct(chain) == \A i, j \in 1 .. Len(chain) : chain[i].v = chain[j].v => i = j

(* In a chain of different values, an entry is found at its place.         *)
LEMMA PlaceIs ==
  ASSUME NEW chain \in Seq(Entry), Distinct(chain), NEW i \in 1 .. Len(chain)
  PROVE  Place(chain, chain[i].v) = i
<1> DEFINE I == {j \in 1 .. Len(chain) : chain[j].v = chain[i].v}
<1>1. Place(chain, chain[i].v) = IF I # {} THEN Min(I) ELSE 0
  BY DEF Place, SelectInSeq
<1>2. I = {i}
  BY DEF Distinct
<1>3. Min(I) = i
  <2>1. I \subseteq Nat /\ I # {} /\ \A j \in I : j = i
    BY <1>2
  <2> HIDE DEF I
  <2> QED
    BY <2>1, LeastPlace
<1> QED
  BY <1>1, <1>2, <1>3

(* The link of an entry leads to the one after it, of the last to NULL.    *)
LEMMA NextOfIs ==
  ASSUME NEW chain \in Seq(Entry), Distinct(chain), NEW i \in 1 .. Len(chain)
  PROVE  NextOf(chain, chain[i].v) = IF i < Len(chain) THEN chain[i + 1].v ELSE "none"
BY PlaceIs DEF NextOf

(* Taking out the i-th entry of a chain.                                   *)
LEMMA Removed ==
  ASSUME NEW X, NEW chain \in Seq(X), NEW i \in 1 .. Len(chain)
  PROVE  /\ RemoveAt(chain, i) \in Seq(X) /\ Len(RemoveAt(chain, i)) = Len(chain) - 1
         /\ \A j \in 1 .. (Len(chain) - 1) :
              RemoveAt(chain, i)[j] = IF j < i THEN chain[j] ELSE chain[j + 1]
         /\ RemoveAt(chain, 1) = SubSeq(chain, 2, Len(chain))
<1> DEFINE p == SubSeq(chain, 1, i - 1)
           q == SubSeq(chain, i + 1, Len(chain))
<1>1. p \in Seq(X) /\ Len(p) = i - 1 /\ \A j \in 1 .. (i - 1) : p[j] = chain[j]
  OBVIOUS
<1>2. q \in Seq(X) /\ Len(q) = Len(chain) - i /\ \A j \in 1 .. (Len(chain) - i) : q[j] = chain[i + j]
  OBVIOUS
<1>3. RemoveAt(chain, i) = p \o q /\ Len(chain) \in Nat
  BY DEF RemoveAt
<1>4. RemoveAt(chain, 1) = SubSeq(chain, 2, Len(chain))
  <2>1. SubSeq(chain, 2, Len(chain)) \in Seq(X) /\ SubSeq(chain, 1, 1 - 1) = <<>>
    OBVIOUS
  <2> QED
    BY <2>1 DEF RemoveAt
<1> HIDE DEF p, q
<1>5. p \o q \in Seq(X) /\ Len(p \o q) = Len(chain) - 1
  BY <1>1, <1>2, <1>3
<1>6. ASSUME NEW j \in 1 .. (Len(chain) - 1)
      PROVE  (p \o q)[j] = IF j < i THEN chain[j] ELSE chain[j + 1]
  <2>1. CASE j < i
    BY <1>1, <1>2, <1>3, <2>1
  <2>2. CASE ~ (j < i)
    <3>1. j - (i - 1) \in 1 .. (Len(chain) - i) /\ i + (j - (i - 1)) = j + 1 /\ j > Len(p)
      BY <1>1, <1>3, <2>2
    <3>2. (p \o q)[j] = q[j - (i - 1)]
      BY <1>1, <1>2, <1>3, <3>1
    <3>3. q[j - (i - 1)] = chain[i + (j - (i - 1))]
      BY <1>2, <3>1
    <3> QED
      BY <2>2, <3>1, <3>2, <3>3
  <2> QED
    BY <2>1, <2>2
<1> QED
  BY <1>3, <1>4, <1>5, <1>6

(* Of a sound table the chains have different values.                      *)
LEMMA ChainOf ==
  ASSUME NEW n \in Nat \ {0}, NEW t \in Tables(n), Sound(t, n), NEW b \in 0 .. (n - 1)
  PROVE  /\ t[b] \in Seq(Entry) /\ Len(t[b]) \in Nat /\ DOMAIN t[b] = 1 .. Len(t[b])
         /\ Distinct(t[b])
<1>1. t[b] \in Seq(Entry) /\ Len(t[b]) \in Nat /\ DOMAIN t[b] = 1 .. Len(t[b])
  BY EntryOfTable
<1>2. ASSUME NEW i \in 1 .. Len(t[b]), NEW j \in 1 .. Len(t[b]), t[b][i].v = t[b][j].v
      PROVE  i = j
  <2>1. i \in DOMAIN t[b] /\ j \in DOMAIN t[b]
    BY <1>1
  <2> QED
    BY <2>1, <1>2, SoundAt
<1> QED
  BY <1>1, <1>2 DEF Distinct

(* A table without the i-th entry of bucket b.                             *)
Without(t, b, i) == [t EXCEPT ![b] = RemoveAt(@, i)]

(* Only one chain loses an entry, and keeps the order of the others.       *)
LEMMA WithoutIs ==
  ASSUME NEW n \in Nat \ {0}, NEW t \in Tables(n),
         NEW b \in 0 .. (n - 1), NEW i \in 1 .. Len(t[b])
  PROVE  /\ Without(t, b, i) \in Tables(n)
         /\ Len(Without(t, b, i)[b]) = Len(t[b]) - 1
         /\ \A j \in 1 .. (Len(t[b]) - 1) :
              Without(t, b, i)[b][j] = IF j < i THEN t[b][j] ELSE t[b][j + 1]
         /\ \A c \in 0 .. (n - 1) : c # b => Without(t, b, i)[c] = t[c]
<1> DEFINE r == RemoveAt(t[b], i)
<1>1. t[b] \in Seq(Entry)
  BY EntryOfTable
<1>2. /\ r \in Seq(Entry) /\ Len(r) = Len(t[b]) - 1
      /\ \A j \in 1 .. (Len(t[b]) - 1) : r[j] = IF j < i THEN t[b][j] ELSE t[b][j + 1]
  <2> DEFINE chain == t[b]
  <2>1. chain \in Seq(Entry) /\ i \in 1 .. Len(chain)
    BY <1>1
  <2> HIDE DEF chain
  <2>2. /\ RemoveAt(chain, i) \in Seq(Entry) /\ Len(RemoveAt(chain, i)) = Len(chain) - 1
        /\ \A j \in 1 .. (Len(chain) - 1) :
             RemoveAt(chain, i)[j] = IF j < i THEN chain[j] ELSE chain[j + 1]
    BY <2>1, Removed
  <2> QED
    BY <2>2 DEF chain
<1>3. Without(t, b, i) = [t EXCEPT ![b] = r]
  BY DEF Without
<1> HIDE DEF r
<1>4. /\ Without(t, b, i) \in Tables(n) /\ Without(t, b, i)[b] = r
      /\ \A c \in 0 .. (n - 1) : c # b => Without(t, b, i)[c] = t[c]
  BY <1>2, <1>3 DEF Tables
<1> QED
  BY <1>2, <1>4

(* Where an entry of the smaller table was in the larger one, and back.    *)
Was(b, i, c, j) == IF c = b /\ j >= i THEN j + 1 ELSE j
Becomes(b, i, c, j) == IF c = b /\ j > i THEN j - 1 ELSE j

Corresponds(old, new, b, i, c) ==
  /\ \A j \in 1 .. Len(new) :
       /\ Was(b, i, c, j) \in 1 .. Len(old) /\ new[j] = old[Was(b, i, c, j)]
       /\ ~ (c = b /\ Was(b, i, c, j) = i)
  /\ \A j \in 1 .. Len(old) : ~ (c = b /\ j = i) =>
       Becomes(b, i, c, j) \in 1 .. Len(new) /\ old[j] = new[Becomes(b, i, c, j)]

(* Entries of the smaller table and of the larger one correspond.          *)
LEMMA Places ==
  ASSUME NEW n \in Nat \ {0}, NEW t \in Tables(n), NEW b \in 0 .. (n - 1),
         NEW i \in 1 .. Len(t[b]), NEW c \in 0 .. (n - 1)
  PROVE  Corresponds(t[c], Without(t, b, i)[c], b, i, c)
<1> DEFINE u == Without(t, b, i)
<1>1. /\ u \in Tables(n) /\ Len(u[b]) = Len(t[b]) - 1
      /\ \A j \in 1 .. (Len(t[b]) - 1) : u[b][j] = IF j < i THEN t[b][j] ELSE t[b][j + 1]
      /\ \A d \in 0 .. (n - 1) : d # b => u[d] = t[d]
  BY WithoutIs
<1> HIDE DEF u
<1> SUFFICES Corresponds(t[c], u[c], b, i, c)
  BY DEF u
<1>2. Len(t[c]) \in Nat /\ Len(u[c]) \in Nat
  BY <1>1, EntryOfTable
<1>3. CASE c # b
  BY <1>1, <1>2, <1>3 DEF Corresponds, Was, Becomes
<1>4. CASE c = b
  <2>1. ASSUME NEW j \in 1 .. Len(u[c])
        PROVE  /\ Was(b, i, c, j) \in 1 .. Len(t[c]) /\ u[c][j] = t[c][Was(b, i, c, j)]
               /\ ~ (c = b /\ Was(b, i, c, j) = i)
    <3>1. /\ j \in 1 .. (Len(t[b]) - 1) /\ Len(t[b]) \in Nat
          /\ u[b][j] = IF j < i THEN t[b][j] ELSE t[b][j + 1]
      BY <1>1, <1>2, <1>4
    <3>2. CASE j < i
      BY <3>1, <3>2, <1>4 DEF Was
    <3>3. CASE ~ (j < i)
      <4>1. j + 1 \in 1 .. Len(t[b]) /\ j >= i /\ j + 1 # i
        BY <3>1, <3>3
      <4>2. u[b][j] = t[b][j + 1]
        BY <3>1, <3>3, Zenon
      <4> QED
        BY <4>1, <4>2, <1>4 DEF Was
    <3> QED
      BY <3>2, <3>3
  <2>2. ASSUME NEW j \in 1 .. Len(t[c]), ~ (c = b /\ j = i)
        PROVE  Becomes(b, i, c, j) \in 1 .. Len(u[c]) /\ t[c][j] = u[c][Becomes(b, i, c, j)]
    <3>1. CASE j < i
      <4>1. j \in 1 .. (Len(t[b]) - 1) /\ Becomes(b, i, c, j) = j
        BY <1>2, <1>4, <3>1 DEF Becomes
      <4>2. u[b][j] = t[b][j]
        BY <1>1, <3>1, <4>1
      <4> QED
        BY <1>1, <1>4, <4>1, <4>2
    <3>2. CASE j > i
      <4>1. j - 1 \in 1 .. (Len(t[b]) - 1) /\ (j - 1) + 1 = j /\ ~ (j - 1 < i)
        BY <1>2, <1>4, <3>2
      <4>2. u[b][j - 1] = t[b][(j - 1) + 1]
        BY <1>1, <4>1
      <4> QED
        BY <1>1, <1>4, <3>2, <4>1, <4>2 DEF Becomes
    <3> QED
      BY <1>4, <2>2, <3>1, <3>2
  <2> QED
    BY <2>1, <2>2 DEF Corresponds
<1> QED
  BY <1>3, <1>4

(* Taking an entry out keeps the table sound and takes out no other.       *)
LEMMA WithoutKeeps ==
  ASSUME NEW n \in Nat \ {0}, NEW t \in Tables(n), Sound(t, n),
         NEW b \in 0 .. (n - 1), NEW i \in 1 .. Len(t[b])
  PROVE  /\ Without(t, b, i) \in Tables(n) /\ Sound(Without(t, b, i), n)
         /\ Entries(Without(t, b, i)) = Entries(t) \ {t[b][i]}
         /\ \A e \in Entries(t) \ {t[b][i]} : e.v # t[b][i].v
<1> DEFINE u == Without(t, b, i)
<1>1. u \in Tables(n)
  BY WithoutIs
<1> HIDE DEF u
<1>2. \A c \in 0 .. (n - 1) :
         /\ DOMAIN t[c] = 1 .. Len(t[c]) /\ DOMAIN u[c] = 1 .. Len(u[c])
         /\ Len(t[c]) \in Nat /\ Len(u[c]) \in Nat
  BY <1>1, EntryOfTable
<1>2a. \A c \in 0 .. (n - 1) : Corresponds(t[c], u[c], b, i, c)
  BY Places DEF u
<1>3. \A c \in 0 .. (n - 1) : \A j \in 1 .. Len(u[c]) : \E k \in 1 .. Len(t[c]) :
        k = Was(b, i, c, j) /\ u[c][j] = t[c][k] /\ ~ (c = b /\ k = i)
  BY <1>2a DEF Corresponds
<1>4. \A c \in 0 .. (n - 1) : \A j \in 1 .. Len(t[c]) :
        ~ (c = b /\ j = i) => \E k \in 1 .. Len(u[c]) : t[c][j] = u[c][k]
  BY <1>2a DEF Corresponds
<1>5. \A c \in 0 .. (n - 1) : \A j \in 1 .. Len(t[c]) :
        /\ t[c][j].h = HashOf[t[c][j].k] /\ c = indexFor(n, t[c][j].h)
        /\ \A d \in 0 .. (n - 1) : \A k \in 1 .. Len(t[d]) :
             t[d][k].v = t[c][j].v => c = d /\ j = k
  <2> SUFFICES ASSUME NEW c \in 0 .. (n - 1), NEW j \in 1 .. Len(t[c])
               PROVE  /\ t[c][j].h = HashOf[t[c][j].k] /\ c = indexFor(n, t[c][j].h)
                      /\ \A d \in 0 .. (n - 1) : \A k \in 1 .. Len(t[d]) :
                           t[d][k].v = t[c][j].v => c = d /\ j = k
    OBVIOUS
  <2>1. j \in DOMAIN t[c]
    BY <1>2
  <2>2. /\ t[c][j].h = HashOf[t[c][j].k] /\ c = indexFor(n, t[c][j].h)
        /\ \A d \in 0 .. (n - 1) : \A k \in DOMAIN t[d] :
             t[d][k].v = t[c][j].v => c = d /\ j = k
    BY <2>1, SoundAt
  <2>3. ASSUME NEW d \in 0 .. (n - 1), NEW k \in 1 .. Len(t[d]), t[d][k].v = t[c][j].v
        PROVE  c = d /\ j = k
    <3>1. k \in DOMAIN t[d]
      BY <1>2
    <3> QED
      BY <3>1, <2>2, <2>3, Zenon
  <2> QED
    BY <2>2, <2>3
<1>6. Sound(u, n)
  <2>1. ASSUME NEW c \in 0 .. (n - 1), NEW j \in DOMAIN u[c]
        PROVE  /\ u[c][j].h = HashOf[u[c][j].k] /\ c = indexFor(n, u[c][j].h)
               /\ \A d \in 0 .. (n - 1) : \A l \in DOMAIN u[d] :
                    u[d][l].v = u[c][j].v => c = d /\ j = l
    <3>1. j \in 1 .. Len(u[c])
      BY <1>2
    <3>2. PICK k \in 1 .. Len(t[c]) : k = Was(b, i, c, j) /\ u[c][j] = t[c][k]
      BY <1>3, <3>1
    <3>3. ASSUME NEW d \in 0 .. (n - 1), NEW l \in DOMAIN u[d], u[d][l].v = u[c][j].v
          PROVE  c = d /\ j = l
      <4>1. l \in 1 .. Len(u[d])
        BY <1>2
      <4>2. PICK m \in 1 .. Len(t[d]) : m = Was(b, i, d, l) /\ u[d][l] = t[d][m]
        BY <1>3, <4>1
      <4>3. c = d /\ k = m
        <5>1. \A e \in 0 .. (n - 1) : \A o \in 1 .. Len(t[e]) :
                t[e][o].v = t[c][k].v => c = e /\ k = o
          BY <1>5, Zenon
        <5> QED
          BY <5>1, <4>2, <3>2, <3>3, Zenon
      <4>4. Was(b, i, c, j) = Was(b, i, c, l)
        BY <4>3, <4>2, <3>2
      <4> QED
        BY <4>3, <4>4, <4>1, <3>1 DEF Was
    <3>4. u[c][j].h = HashOf[u[c][j].k] /\ c = indexFor(n, u[c][j].h)
      <4>1. t[c][k].h = HashOf[t[c][k].k] /\ c = indexFor(n, t[c][k].h)
        BY <1>5, <3>2
      <4> QED
        BY <4>1, <3>2
    <3> QED
      BY <3>3, <3>4, Zenon
  <2> QED
    BY <2>1, Zenon DEF Sound
<1>7. /\ \A x : x \in Entries(t) <=>
               \E c \in 0 .. (n - 1) : \E j \in 1 .. Len(t[c]) : x = t[c][j]
      /\ \A x : x \in Entries(u) <=>
               \E c \in 0 .. (n - 1) : \E j \in 1 .. Len(u[c]) : x = u[c][j]
  BY <1>1, EntryOfTable
<1>8. ASSUME NEW x \in Entries(u) PROVE x \in Entries(t) /\ x.v # t[b][i].v
  <2>1. PICK c \in 0 .. (n - 1) : \E j \in 1 .. Len(u[c]) : x = u[c][j]
    BY <1>7
  <2>2. PICK j \in 1 .. Len(u[c]) : x = u[c][j]
    BY <2>1
  <2>3. PICK k \in 1 .. Len(t[c]) : x = t[c][k] /\ ~ (c = b /\ k = i)
    BY <2>2, <1>3
  <2> QED
    BY <2>3, <1>5, <1>7
<1>9. ASSUME NEW x \in Entries(t), x # t[b][i] PROVE x \in Entries(u)
  <2>1. PICK c \in 0 .. (n - 1) : \E j \in 1 .. Len(t[c]) : x = t[c][j]
    BY <1>7
  <2>2. PICK j \in 1 .. Len(t[c]) : x = t[c][j]
    BY <2>1
  <2>3. ~ (c = b /\ j = i)
    BY <2>2, <1>9
  <2>4. PICK k \in 1 .. Len(u[c]) : x = u[c][k]
    BY <2>2, <2>3, <1>4
  <2> QED
    BY <2>4, <1>7
<1>10. Entries(u) = Entries(t) \ {t[b][i]}
  BY <1>8, <1>9
<1> QED
  BY <1>1, <1>6, <1>8, <1>10 DEF u

----------------------------------------------------------------------------
(* The iterator. *)

(* The values that an iterator at the i-th entry of bucket b has ahead.    *)
Ahead(t, b, i) ==
  {v \in Value : \E c \in DOMAIN t : \E j \in DOMAIN t[c] :
                   v = t[c][j].v /\ (c > b \/ (c = b /\ j > i))}

(* The j-th entry of bucket c follows the i-th of b; none follows it.      *)
IsNext(t, b, i, c, j) ==
  \/ c = b /\ j = i + 1
  \/ c > b /\ i = Len(t[b]) /\ j = 1 /\ \A d \in (b + 1) .. (c - 1) : t[d] = <<>>

IsLast(n, t, b, i) == i = Len(t[b]) /\ \A d \in (b + 1) .. (n - 1) : t[d] = <<>>

Later(n, t, b, i, v) ==
  \E c \in 0 .. (n - 1) : \E j \in 1 .. Len(t[c]) :
    v = t[c][j].v /\ (c > b \/ (c = b /\ j > i))

(* Membership in what lies ahead, with the bounds of the buckets.          *)
LEMMA AheadIsLater ==
  ASSUME NEW n \in Nat \ {0}, NEW t \in Tables(n), NEW b, NEW i, NEW v
  PROVE  v \in Ahead(t, b, i) <=> Later(n, t, b, i, v)
<1>1. /\ DOMAIN t = 0 .. (n - 1)
      /\ \A c \in 0 .. (n - 1) : DOMAIN t[c] = 1 .. Len(t[c]) /\ \A j \in 1 .. Len(t[c]) : t[c][j] \in Entry
  BY EntryOfTable
<1>2. \A c \in 0 .. (n - 1) : \A j \in 1 .. Len(t[c]) : t[c][j].v \in Value
  BY <1>1 DEF Entry
<1>3. ASSUME v \in Ahead(t, b, i)
      PROVE  \E c \in 0 .. (n - 1) : \E j \in 1 .. Len(t[c]) :
               v = t[c][j].v /\ (c > b \/ (c = b /\ j > i))
  <2>1. PICK c \in DOMAIN t : \E j \in DOMAIN t[c] : v = t[c][j].v /\ (c > b \/ (c = b /\ j > i))
    BY <1>3, Zenon DEF Ahead
  <2> QED
    BY <2>1, <1>1
<1>4. ASSUME NEW c \in 0 .. (n - 1), NEW j \in 1 .. Len(t[c]),
             v = t[c][j].v, c > b \/ (c = b /\ j > i)
      PROVE  v \in Ahead(t, b, i)
  <2>1. c \in DOMAIN t /\ j \in DOMAIN t[c] /\ v \in Value
    BY <1>1, <1>2, <1>4
  <2> QED
    BY <2>1, <1>4, Zenon DEF Ahead
<1> QED
  BY <1>3, <1>4, Zenon DEF Later

(* The same, written out.                                                  *)
LEMMA AheadIs ==
  ASSUME NEW n \in Nat \ {0}, NEW t \in Tables(n), NEW b, NEW i, NEW v
  PROVE  v \in Ahead(t, b, i) <=>
           \E c \in 0 .. (n - 1) : \E j \in 1 .. Len(t[c]) :
             v = t[c][j].v /\ (c > b \/ (c = b /\ j > i))
<1>1. v \in Ahead(t, b, i) <=> Later(n, t, b, i, v)
  BY AheadIsLater
<1> QED
  BY <1>1 DEF Later

(* An entry is not ahead of itself.                                        *)
LEMMA NotAhead ==
  ASSUME NEW n \in Nat \ {0}, NEW t \in Tables(n), Sound(t, n),
         NEW c \in 0 .. (n - 1), NEW j \in 1 .. Len(t[c]), NEW v, v = t[c][j].v
  PROVE  v \notin Ahead(t, c, j)
<1> SUFFICES ASSUME v \in Ahead(t, c, j) PROVE FALSE
  OBVIOUS
<1> DEFINE w == v
<1>0. w \in Ahead(t, c, j) /\ w = v
  OBVIOUS
<1> HIDE DEF w
<1>1. PICK d \in 0 .. (n - 1) : \E k \in 1 .. Len(t[d]) :
               w = t[d][k].v /\ (d > c \/ (d = c /\ k > j))
  <2>1. Later(n, t, c, j, w)
    BY <1>0, AheadIsLater
  <2> QED
    BY <2>1, Zenon DEF Later
<1>2. PICK k \in 1 .. Len(t[d]) : w = t[d][k].v /\ (d > c \/ (d = c /\ k > j))
  BY <1>1
<1>3. k \in DOMAIN t[d] /\ j \in DOMAIN t[c] /\ Len(t[d]) \in Nat /\ Len(t[c]) \in Nat
  BY EntryOfTable
<1>4. t[d][k].v = t[c][j].v
  BY <1>0, <1>2
<1>5. d = c /\ k = j
  BY <1>3, <1>4, SoundAt
<1> QED
  BY <1>2, <1>3, <1>5

(* One step forward has one value less ahead: the one stepped on.          *)
LEMMA AheadOfNext ==
  ASSUME NEW n \in Nat \ {0}, NEW t \in Tables(n), Sound(t, n),
         NEW b \in 0 .. (n - 1), NEW i \in 1 .. Len(t[b]),
         NEW c \in 0 .. (n - 1), NEW j \in 1 .. Len(t[c]), IsNext(t, b, i, c, j)
  PROVE  /\ Ahead(t, b, i) = Ahead(t, c, j) \cup {t[c][j].v}
         /\ t[c][j].v \notin Ahead(t, c, j)
<1>1. \A d \in 0 .. (n - 1) : Len(t[d]) \in Nat
  BY EntryOfTable
<1>2. ASSUME NEW v \in Ahead(t, b, i) PROVE v \in Ahead(t, c, j) \cup {t[c][j].v}
  <2>1. PICK d \in 0 .. (n - 1) : \E k \in 1 .. Len(t[d]) :
                 v = t[d][k].v /\ (d > b \/ (d = b /\ k > i))
    BY <1>2, AheadIs
  <2>2. PICK k \in 1 .. Len(t[d]) : v = t[d][k].v /\ (d > b \/ (d = b /\ k > i))
    BY <2>1
  <2>3. d > c \/ (d = c /\ k > j) \/ (d = c /\ k = j)
    <3>1. CASE c = b /\ j = i + 1
      BY <3>1, <2>2, <1>1
    <3>2. CASE c > b /\ i = Len(t[b]) /\ j = 1 /\ \A a \in (b + 1) .. (c - 1) : t[a] = <<>>
      <4>1. d # b
        BY <3>2, <2>2, <1>1
      <4>2. ~ (d \in (b + 1) .. (c - 1))
        BY <3>2, <1>1
      <4> QED
        BY <4>1, <4>2, <3>2, <2>2, <1>1
    <3> QED
      BY <3>1, <3>2 DEF IsNext
  <2>4. CASE d > c \/ (d = c /\ k > j)
    BY <2>2, <2>4, AheadIs
  <2> QED
    BY <2>2, <2>3, <2>4
<1>3. ASSUME NEW v \in Ahead(t, c, j) PROVE v \in Ahead(t, b, i)
  <2>1. PICK d \in 0 .. (n - 1) : \E k \in 1 .. Len(t[d]) :
                 v = t[d][k].v /\ (d > c \/ (d = c /\ k > j))
    BY <1>3, AheadIs
  <2>2. PICK k \in 1 .. Len(t[d]) : v = t[d][k].v /\ (d > c \/ (d = c /\ k > j))
    BY <2>1
  <2>3. d > b \/ (d = b /\ k > i)
    BY <2>2, <1>1 DEF IsNext
  <2> QED
    BY <2>2, <2>3, AheadIs
<1>4. t[c][j].v \in Ahead(t, b, i)
  <2>1. c > b \/ (c = b /\ j > i)
    BY <1>1 DEF IsNext
  <2> QED
    BY <2>1, AheadIs
<1>5. t[c][j].v \notin Ahead(t, c, j)
  BY NotAhead
<1> QED
  BY <1>2, <1>3, <1>4, <1>5

(* Nothing is ahead of the last entry.                                     *)
LEMMA AheadOfLast ==
  ASSUME NEW n \in Nat \ {0}, NEW t \in Tables(n),
         NEW b \in 0 .. (n - 1), NEW i \in 1 .. Len(t[b]), IsLast(n, t, b, i)
  PROVE  Ahead(t, b, i) = {}
<1> SUFFICES ASSUME NEW v \in Ahead(t, b, i) PROVE FALSE
  OBVIOUS
<1>1. PICK d \in 0 .. (n - 1) : \E k \in 1 .. Len(t[d]) :
               v = t[d][k].v /\ (d > b \/ (d = b /\ k > i))
  BY AheadIs
<1>2. PICK k \in 1 .. Len(t[d]) : d > b \/ (d = b /\ k > i)
  BY <1>1
<1>3. Len(t[d]) \in Nat
  BY EntryOfTable
<1>4. d \notin (b + 1) .. (n - 1)
  BY <1>2, <1>3 DEF IsLast
<1> QED
  BY <1>2, <1>3, <1>4 DEF IsLast

NothingFrom(n, t, b) == \A d \in b .. (n - 1) : t[d] = <<>>
FirstAt(t, b, c) == t[c] # <<>> /\ \A d \in b .. (c - 1) : t[d] = <<>>

(* The scan over the buckets ends at the first that is not empty, if any.  *)
LEMMA FirstFromIs ==
  ASSUME NEW n \in Nat \ {0}, tablelength = n, NEW t \in Tables(n), NEW b \in 0 .. n
  PROVE  \/ /\ NothingFrom(n, t, b)
            /\ FirstFrom(t, b) = [e |-> "none", parent |-> "none", index |-> n]
         \/ \E c \in b .. (n - 1) :
              /\ FirstAt(t, b, c)
              /\ FirstFrom(t, b) = [e |-> t[c][1].v, parent |-> "none", index |-> c]
<1> DEFINE full == {j \in b .. (n - 1) : t[j] # <<>>}
           j0 == CHOOSE i \in full : \A l \in full : i <= l
<1>1. FirstFrom(t, b) =
        IF full = {} THEN [e |-> "none", parent |-> "none", index |-> n]
        ELSE [e |-> t[j0][1].v, parent |-> "none", index |-> j0]
  BY DEF FirstFrom
<1>2. CASE full = {}
  <2>1. NothingFrom(n, t, b)
    BY <1>2 DEF NothingFrom
  <2> QED
    BY <1>1, <1>2, <2>1
<1>3. CASE full # {}
  <2>1. full \subseteq Nat
    OBVIOUS
  <2>2. j0 \in full /\ \A l \in full : j0 <= l
    <3> HIDE DEF full
    <3>1. \E i \in full : \A l \in full : i <= l
      BY <1>3, <2>1, LeastNumber
    <3> QED
      BY <3>1
  <2> HIDE DEF j0
  <2>3. j0 \in b .. (n - 1) /\ t[j0] # <<>>
    BY <2>2
  <2>4. ASSUME NEW d \in b .. (j0 - 1) PROVE t[d] = <<>>
    <3>1. d \in b .. (n - 1) /\ ~ (j0 <= d)
      BY <2>3
    <3> QED
      BY <3>1, <2>2
  <2>5. FirstAt(t, b, j0)
    BY <2>3, <2>4 DEF FirstAt
  <2>6. FirstFrom(t, b) = [e |-> t[j0][1].v, parent |-> "none", index |-> j0]
    BY <1>1, <1>3
  <2> HIDE DEF full
  <2> QED
    BY <2>3, <2>5, <2>6, Zenon
<1> QED
  BY <1>2, <1>3

(* Where advancing leads from the i-th entry of bucket b.                  *)
Leads(r, n, t, b, i) ==
  \/ IsLast(n, t, b, i) /\ r = [e |-> "none", parent |-> "none", index |-> n]
  \/ \E c \in 0 .. (n - 1) : \E j \in 1 .. Len(t[c]) :
       /\ IsNext(t, b, i, c, j)
       /\ r = [e |-> t[c][j].v,
               parent |-> IF c = b THEN t[b][i].v ELSE "none", index |-> c]

(* hashtable_iterator_advance comes to the next entry, or to the end.      *)
LEMMA AdvancedIs ==
  ASSUME NEW n \in Nat \ {0}, tablelength = n, NEW t \in Tables(n), Sound(t, n),
         NEW it \in [e : Value \cup {"none"}, parent : Value \cup {"none"}, index : 0 .. n],
         NEW b \in 0 .. (n - 1), NEW i \in 1 .. Len(t[b]), it.index = b, it.e = t[b][i].v
  PROVE  Leads(Advanced(it, t, t[b]), n, t, b, i)
<1> DEFINE next == NextOf(t[b], it.e)
           r == Advanced(it, t, t[b])
<1>1. /\ t[b] \in Seq(Entry) /\ Len(t[b]) \in Nat /\ Distinct(t[b])
      /\ \A j \in 1 .. Len(t[b]) : t[b][j].v \in Value /\ t[b][j].v # "none"
  <2>1. t[b] \in Seq(Entry) /\ Len(t[b]) \in Nat /\ Distinct(t[b])
    BY ChainOf
  <2>2. \A j \in 1 .. Len(t[b]) : t[b][j] \in Entry
    BY EntryOfTable
  <2>3. \A j \in 1 .. Len(t[b]) : t[b][j].v \in Value /\ t[b][j].v # "none"
    BY <2>2, ValueAssumption DEF Entry
  <2> QED
    BY <2>1, <2>3
<1>2. next = IF i < Len(t[b]) THEN t[b][i + 1].v ELSE "none"
  <2> DEFINE chain == t[b]
  <2>1. chain \in Seq(Entry) /\ Distinct(chain) /\ i \in 1 .. Len(chain) /\ it.e = chain[i].v
    BY <1>1
  <2> HIDE DEF chain
  <2>2. NextOf(chain, chain[i].v) = IF i < Len(chain) THEN chain[i + 1].v ELSE "none"
    BY <2>1, NextOfIs
  <2> QED
    BY <2>1, <2>2 DEF chain
<1>3. r = IF next # "none" THEN [it EXCEPT !.e = next, !.parent = it.e] ELSE FirstFrom(t, b + 1)
  BY DEF Advanced
<1> HIDE DEF next, r
<1>4. CASE i < Len(t[b])
  <2>1. i + 1 \in 1 .. Len(t[b]) /\ next = t[b][i + 1].v /\ next # "none"
    BY <1>1, <1>2, <1>4
  <2>2. r = [e |-> t[b][i + 1].v, parent |-> t[b][i].v, index |-> b]
    BY <1>3, <2>1
  <2>3. IsNext(t, b, i, b, i + 1)
    BY DEF IsNext
  <2> QED
    BY <2>1, <2>2, <2>3 DEF Leads, r
<1>5. CASE ~ (i < Len(t[b]))
  <2>1. i = Len(t[b]) /\ r = FirstFrom(t, b + 1) /\ b + 1 \in 0 .. n
    BY <1>1, <1>2, <1>3, <1>5
  <2>2. CASE /\ NothingFrom(n, t, b + 1)
             /\ FirstFrom(t, b + 1) = [e |-> "none", parent |-> "none", index |-> n]
    <3>1. IsLast(n, t, b, i)
      BY <2>1, <2>2 DEF IsLast, NothingFrom
    <3> QED
      BY <3>1, <2>1, <2>2 DEF Leads, r
  <2>3. CASE \E c \in (b + 1) .. (n - 1) :
               /\ FirstAt(t, b + 1, c)
               /\ FirstFrom(t, b + 1) = [e |-> t[c][1].v, parent |-> "none", index |-> c]
    <3>1. PICK c \in (b + 1) .. (n - 1) :
                 /\ FirstAt(t, b + 1, c)
                 /\ FirstFrom(t, b + 1) = [e |-> t[c][1].v, parent |-> "none", index |-> c]
      BY <2>3
    <3>2. c \in 0 .. (n - 1) /\ c > b /\ c # b
      OBVIOUS
    <3>3. 1 \in 1 .. Len(t[c])
      <4>1. t[c] \in Seq(Entry) /\ t[c] # <<>>
        BY <3>1, <3>2, EntryOfTable DEF FirstAt
      <4> QED
        BY <4>1
    <3>4. IsNext(t, b, i, c, 1)
      BY <2>1, <3>1, <3>2 DEF IsNext, FirstAt
    <3>5. r = [e |-> t[c][1].v, parent |-> IF c = b THEN t[b][i].v ELSE "none", index |-> c]
      BY <2>1, <3>1, <3>2
    <3> QED
      BY <3>2, <3>3, <3>4, <3>5, Zenon DEF Leads, r
  <2> QED
    BY <2>1, <2>2, <2>3, FirstFromIs
<1> QED
  BY <1>4, <1>5

(* Taking an entry out does not change what lies ahead of the next one.    *)
LEMMA AheadWithout ==
  ASSUME NEW n \in Nat \ {0}, NEW t \in Tables(n), NEW b \in 0 .. (n - 1),
         NEW i \in 1 .. Len(t[b]), NEW c \in 0 .. (n - 1), NEW j \in 1 .. Len(t[c]),
         IsNext(t, b, i, c, j)
  PROVE  Ahead(Without(t, b, i), c, Becomes(b, i, c, j)) = Ahead(t, c, j)
<1> DEFINE u == Without(t, b, i)
           k == Becomes(b, i, c, j)
<1>1. u \in Tables(n) /\ \A d \in 0 .. (n - 1) : Corresponds(t[d], u[d], b, i, d)
  BY WithoutIs, Places
<1> HIDE DEF u
<1>2. \A d \in 0 .. (n - 1) : Len(t[d]) \in Nat /\ Len(u[d]) \in Nat
  BY <1>1, EntryOfTable
<1>3. ASSUME NEW v \in Ahead(u, c, k) PROVE v \in Ahead(t, c, j)
  <2>1. PICK d \in 0 .. (n - 1) : \E l \in 1 .. Len(u[d]) :
                 v = u[d][l].v /\ (d > c \/ (d = c /\ l > k))
    BY <1>1, <1>3, AheadIs
  <2>2. PICK l \in 1 .. Len(u[d]) : v = u[d][l].v /\ (d > c \/ (d = c /\ l > k))
    BY <2>1
  <2>3. PICK m \in 1 .. Len(t[d]) : m = Was(b, i, d, l) /\ u[d][l] = t[d][m]
    BY <1>1 DEF Corresponds
  <2>4. d > c \/ (d = c /\ m > j)
    BY <2>2, <2>3, <1>2 DEF Was, Becomes, IsNext
  <2> QED
    BY <2>2, <2>3, <2>4, AheadIs
<1>4. ASSUME NEW v \in Ahead(t, c, j) PROVE v \in Ahead(u, c, k)
  <2>1. PICK d \in 0 .. (n - 1) : \E l \in 1 .. Len(t[d]) :
                 v = t[d][l].v /\ (d > c \/ (d = c /\ l > j))
    BY <1>4, AheadIs
  <2>2. PICK l \in 1 .. Len(t[d]) : v = t[d][l].v /\ (d > c \/ (d = c /\ l > j))
    BY <2>1
  <2>3. ~ (d = b /\ l = i)
    BY <2>2, <1>2 DEF IsNext
  <2>4. PICK m \in 1 .. Len(u[d]) : m = Becomes(b, i, d, l) /\ t[d][l] = u[d][m]
    BY <1>1, <2>3 DEF Corresponds
  <2>5. d > c \/ (d = c /\ m > k)
    <3>1. CASE c = b /\ j = i + 1
      <4>1. k = i
        BY <3>1 DEF Becomes
      <4> QED
        BY <3>1, <4>1, <2>2, <2>4, <1>2 DEF Becomes
    <3>2. CASE c > b
      <4>1. k = j
        BY <3>2 DEF Becomes
      <4>2. d # b /\ m = l
        BY <3>2, <2>2, <2>4 DEF Becomes
      <4> QED
        BY <4>1, <4>2, <2>2
    <3> QED
      BY <3>1, <3>2 DEF IsNext
  <2> QED
    BY <1>1, <2>2, <2>4, <2>5, AheadIs
<1> QED
  BY <1>3, <1>4 DEF u

(* The values in a table.                                                  *)
Values(t) == {e.v : e \in Entries(t)}

(* What the values in a table are.                                         *)
LEMMA ValueOfTable ==
  ASSUME NEW n \in Nat \ {0}, NEW t \in Tables(n)
  PROVE  /\ \A v : v \in Values(t) <=>
              \E b \in 0 .. (n - 1) : \E i \in 1 .. Len(t[b]) : v = t[b][i].v
         /\ Values(t) \subseteq Value
<1>1. /\ \A e : e \in Entries(t) <=>
              \E b \in 0 .. (n - 1) : \E i \in 1 .. Len(t[b]) : e = t[b][i]
      /\ \A b \in 0 .. (n - 1) : \A i \in 1 .. Len(t[b]) : t[b][i] \in Entry
  BY EntryOfTable
<1>2. ASSUME NEW v \in Values(t)
      PROVE  /\ \E b \in 0 .. (n - 1) : \E i \in 1 .. Len(t[b]) : v = t[b][i].v
             /\ v \in Value
  <2>1. PICK e \in Entries(t) : v = e.v
    BY DEF Values
  <2>2. PICK b \in 0 .. (n - 1) : \E i \in 1 .. Len(t[b]) : e = t[b][i]
    BY <1>1
  <2>3. PICK i \in 1 .. Len(t[b]) : e = t[b][i]
    BY <2>2
  <2>4. v = t[b][i].v /\ t[b][i] \in Entry
    BY <2>1, <2>3, <1>1
  <2> QED
    BY <2>4 DEF Entry
<1>3. ASSUME NEW b \in 0 .. (n - 1), NEW i \in 1 .. Len(t[b]) PROVE t[b][i].v \in Values(t)
  BY <1>1, Zenon DEF Values
<1> QED
  BY <1>2, <1>3

(* From the first entry everything else in the table is ahead.             *)
LEMMA StartAt ==
  ASSUME NEW n \in Nat \ {0}, NEW t \in Tables(n), Sound(t, n),
         NEW c \in 0 .. (n - 1), FirstAt(t, 0, c)
  PROVE  /\ 1 \in 1 .. Len(t[c])
         /\ Values(t) = Ahead(t, c, 1) \cup {t[c][1].v}
<1>1. \A d \in 0 .. (n - 1) : t[d] \in Seq(Entry) /\ Len(t[d]) \in Nat
  BY EntryOfTable
<1>2. 1 \in 1 .. Len(t[c])
  BY <1>1 DEF FirstAt
<1>3. ASSUME NEW v \in Values(t) PROVE v \in Ahead(t, c, 1) \cup {t[c][1].v}
  <2>1. PICK d \in 0 .. (n - 1) : \E k \in 1 .. Len(t[d]) : v = t[d][k].v
    BY ValueOfTable
  <2>2. PICK k \in 1 .. Len(t[d]) : v = t[d][k].v
    BY <2>1
  <2>3. d \notin 0 .. (c - 1)
    <3>1. Len(t[d]) # 0
      BY <1>1
    <3> QED
      BY <3>1 DEF FirstAt
  <2>4. d > c \/ (d = c /\ k > 1) \/ (d = c /\ k = 1)
    BY <2>3, <1>1
  <2>5. CASE d > c \/ (d = c /\ k > 1)
    BY <2>2, <2>5, AheadIs
  <2> QED
    BY <2>2, <2>4, <2>5
<1>4. ASSUME NEW v \in Ahead(t, c, 1) PROVE v \in Values(t)
  <2>1. \E d \in 0 .. (n - 1) : \E k \in 1 .. Len(t[d]) :
           v = t[d][k].v /\ (d > c \/ (d = c /\ k > 1))
    BY AheadIs
  <2>2. \E d \in 0 .. (n - 1) : \E k \in 1 .. Len(t[d]) : v = t[d][k].v
    BY <2>1, Zenon
  <2> QED
    BY <2>2, ValueOfTable
<1>5. t[c][1].v \in Values(t)
  BY <1>2, ValueOfTable
<1> QED
  BY <1>2, <1>3, <1>4, <1>5

----------------------------------------------------------------------------
(* How many entries there are. *)

(* A table holds finitely many values, no more than there are.             *)
LEMMA Counts ==
  ASSUME NEW n \in Nat \ {0}, NEW t \in Tables(n)
  PROVE  /\ IsFiniteSet(Values(t))
         /\ Cardinality(Values(t)) \in Nat /\ Cardinality(Value) \in Nat
         /\ Cardinality(Values(t)) <= Cardinality(Value)
<1>1. Values(t) \subseteq Value /\ IsFiniteSet(Value)
  BY ValueOfTable, ValueAssumption
<1> QED
  BY <1>1, FS_Subset, FS_CardinalityType

(* Linking a new entry adds one to the number of values.                   *)
LEMMA CountsLinked ==
  ASSUME NEW n \in Nat \ {0}, NEW t \in Tables(n), NEW e \in Entry, e.v \notin Values(t)
  PROVE  Cardinality(Values(Link(t, e))) = Cardinality(Values(t)) + 1
<1>1. Values(Link(t, e)) = Values(t) \cup {e.v}
  <2>1. Entries(Link(t, e)) = Entries(t) \cup {e}
    BY LinkKeeps
  <2> QED
    BY <2>1 DEF Values
<1> QED
  BY <1>1, Counts, FS_AddElement

(* Taking an entry out takes one from the number of values.                *)
LEMMA CountsWithout ==
  ASSUME NEW n \in Nat \ {0}, NEW t \in Tables(n), Sound(t, n),
         NEW b \in 0 .. (n - 1), NEW i \in 1 .. Len(t[b])
  PROVE  /\ Values(Without(t, b, i)) = Values(t) \ {t[b][i].v}
         /\ Cardinality(Values(Without(t, b, i))) = Cardinality(Values(t)) - 1
<1> DEFINE u == Without(t, b, i)
           x == t[b][i]
<1>1. Entries(u) = Entries(t) \ {x} /\ \A e \in Entries(t) \ {x} : e.v # x.v
  BY WithoutKeeps
<1>2. x \in Entries(t)
  BY EntryOfTable
<1> HIDE DEF u, x
<1>3. Values(u) = Values(t) \ {x.v} /\ x.v \in Values(t)
  BY <1>1, <1>2 DEF Values
<1>4. Cardinality(Values(u)) = Cardinality(Values(t)) - 1
  <2> DEFINE T == Values(t)
             y == x.v
  <2>1. IsFiniteSet(T) /\ Values(u) = T \ {y} /\ y \in T
    BY <1>3, Counts
  <2> HIDE DEF T, y
  <2>2. Cardinality(T \ {y}) = Cardinality(T) - 1
    BY <2>1, FS_RemoveElement
  <2> QED
    BY <2>1, <2>2 DEF T
<1> QED
  BY <1>3, <1>4 DEF u, x

----------------------------------------------------------------------------
(* The inductive invariant. *)

(* The iterator stands on the i-th entry of its bucket.                    *)
StandsOn(i) ==
  /\ itr.index \in DOMAIN table /\ i \in DOMAIN table[itr.index]
  /\ itr.e = table[itr.index][i].v
  /\ itr.parent = IF i = 1 THEN "none" ELSE table[itr.index][i - 1].v

Between(i) ==
  /\ StandsOn(i)
  /\ goal = ToSet(visited) \cup Ahead(table, itr.index, i)
  /\ ToSet(visited) \cap Ahead(table, itr.index, i) = {}

(* A walk has been on what it will not meet again, and will meet the rest. *)
Walk ==
  /\ IsInjective(visited)
  /\ itr = NoItr => visited = <<>> /\ goal = {}
  /\ itr # NoItr /\ itr.e = "none" => ToSet(visited) = goal
  /\ itr.e # "none" => \E i \in Nat : Between(i)

Counted == state = "open" => entrycount = Cardinality(Values(table))

IInv == TypeOK /\ Sound(table, tablelength) /\ Counted /\ Walk

(* What the type invariant says of the table and its size.                 *)
LEMMA Sizes ==
  ASSUME TypeOK
  PROVE  /\ tablelength \in Nat \ {0} /\ table \in Tables(tablelength)
         /\ DOMAIN table = 0 .. (tablelength - 1)
         /\ InTable = Values(table)
         /\ Pairs = {<<e.k, e.v>> : e \in Entries(table)}
<1>1. tablelength \in Nat \ {0}
  BY PrimesAssumption DEF TypeOK, tablelength
<1>2. table \in Tables(tablelength) /\ DOMAIN table = 0 .. (tablelength - 1)
  BY DEF TypeOK, Tables
<1>3. InTable = Values(table)
  BY DEF InTable, Values, Entries
<1>4. Pairs = {<<e.k, e.v>> : e \in Entries(table)}
  BY DEF Pairs, Entries
<1> QED
  BY <1>1, <1>2, <1>3, <1>4

(* Expanded or not, the size is one of the table of sizes.                 *)
LEMMA NextSize ==
  ASSUME TypeOK, Resize
  PROVE  /\ primeindex' \in DOMAIN Primes /\ loadlimit' = LoadLimit(Primes[primeindex'])
         /\ Primes[primeindex'] \in Nat \ {0}
<1>1. /\ primeindex \in DOMAIN Primes /\ loadlimit = LoadLimit(Primes[primeindex])
      /\ DOMAIN Primes = 1 .. Len(Primes) /\ Len(Primes) \in Nat
      /\ \A i \in DOMAIN Primes : Primes[i] \in Nat \ {0}
  BY PrimesAssumption DEF TypeOK, tablelength
<1>2. CASE CanExpand /\ primeindex' = primeindex + 1 /\ loadlimit' = LoadLimit(Primes[primeindex + 1])
  BY <1>1, <1>2 DEF CanExpand
<1>3. CASE UNCHANGED sizes
  BY <1>1, <1>3 DEF sizes
<1> QED
  BY <1>2, <1>3 DEF Resize

(* One more visit, to what has not been visited.                           *)
LEMMA Appended ==
  ASSUME NEW X, NEW s \in Seq(X), IsInjective(s), NEW x \in X, x \notin ToSet(s)
  PROVE  /\ Append(s, x) \in Seq(X) /\ IsInjective(Append(s, x))
         /\ ToSet(Append(s, x)) = ToSet(s) \cup {x}
<1> DEFINE u == Append(s, x)
<1>1. /\ u \in Seq(X) /\ Len(s) \in Nat /\ DOMAIN s = 1 .. Len(s) /\ DOMAIN u = 1 .. (Len(s) + 1)
      /\ u[Len(s) + 1] = x /\ \A i \in 1 .. Len(s) : u[i] = s[i]
  OBVIOUS
<1> HIDE DEF u
<1>2. \A i \in 1 .. (Len(s) + 1) : i \in 1 .. Len(s) \/ i = Len(s) + 1
  BY <1>1
<1>3. \A i \in 1 .. Len(s) : s[i] # x
  BY <1>1 DEF ToSet
<1>4. IsInjective(u)
  <2> SUFFICES ASSUME NEW i \in 1 .. (Len(s) + 1), NEW j \in 1 .. (Len(s) + 1), u[i] = u[j]
               PROVE  i = j
    BY <1>1 DEF IsInjective
  <2> QED
    BY <1>1, <1>2, <1>3 DEF IsInjective
<1>5. ToSet(u) = ToSet(s) \cup {x}
  BY <1>1, <1>2 DEF ToSet
<1> QED
  BY <1>1, <1>4, <1>5 DEF u

(* No walk has visited nothing.                                            *)
LEMMA NothingVisited == IsInjective(<<>>) /\ ToSet(<<>>) = {} /\ <<>> \in Seq(Value)
BY DEF IsInjective, ToSet

(* Without an iterator there is nothing to say of a walk.                  *)
LEMMA AtRest ==
  ASSUME itr = NoItr, visited = <<>>, goal = {}
  PROVE  Walk
BY NothingVisited DEF Walk, NoItr

(* The first of the entries in the chain of a key that match it.           *)
LEMMA FirstMatchIs ==
  ASSUME TypeOK, NEW k \in Key
  PROVE  /\ Chain(k) \in 0 .. (tablelength - 1)
         /\ \/ /\ FirstMatch(k) = 0
               /\ \A i \in 1 .. Len(table[Chain(k)]) : ~ Match(k, table[Chain(k)][i].k)
            \/ /\ FirstMatch(k) \in 1 .. Len(table[Chain(k)])
               /\ Match(k, table[Chain(k)][FirstMatch(k)].k)
               /\ FirstMatch(k) # 0
<1> DEFINE chain == table[Chain(k)]
           I == {j \in 1 .. Len(chain) : Match(k, chain[j].k)}
<1>1. Chain(k) \in 0 .. (tablelength - 1)
  <2>1. HashOf[k] \in Nat
    BY KeyAssumption
  <2> QED
    BY <2>1, Sizes DEF Chain, indexFor
<1>2. FirstMatch(k) = IF I # {} THEN Min(I) ELSE 0
  BY DEF FirstMatch, SelectInSeq
<1>3. Len(chain) \in Nat
  BY <1>1, Sizes, EntryOfTable
<1>4. CASE I = {}
  BY <1>1, <1>2, <1>4
<1>5. CASE I # {}
  <2>1. I \subseteq Nat
    BY <1>3
  <2>2. Min(I) \in I
    <3> HIDE DEF I
    <3> QED
      BY <1>5, <2>1, LeastPlace
  <2>3. FirstMatch(k) \in I
    BY <1>2, <1>5, <2>2
  <2> QED
    BY <1>1, <1>3, <2>3
<1> QED
  BY <1>4, <1>5

----------------------------------------------------------------------------
(* Every step keeps the invariant. *)

(* The table is empty at first.                                            *)
LEMMA InitInv == Init => IInv
<1> SUFFICES ASSUME Init PROVE IInv
  OBVIOUS
<1> USE DEF Init
<1>1. 1 \in DOMAIN Primes /\ tablelength \in Nat \ {0}
  BY PrimesAssumption DEF tablelength
<1>2. TypeOK
  <2>1. table \in [0 .. (tablelength - 1) -> Seq(Entry)]
    BY <1>1 DEF tablelength
  <2>2. itr \in [e : Value \cup {"none"}, parent : Value \cup {"none"}, index : 0 .. tablelength]
    BY <1>1 DEF NoItr
  <2>3. entrycount \in 0 .. Cardinality(Value)
    BY ValueAssumption, FS_CardinalityType
  <2>4. visited \in Seq(Value) /\ goal \subseteq Value
    BY NothingVisited
  <2> QED
    BY <1>1, <2>1, <2>2, <2>3, <2>4 DEF TypeOK, tablelength
<1>3. \A b \in 0 .. (tablelength - 1) : table[b] = <<>> /\ DOMAIN table[b] = {}
  BY <1>1 DEF tablelength
<1>4. Sound(table, tablelength)
  BY <1>3 DEF Sound
<1>5. Values(table) = {}
  BY <1>2, <1>3, Sizes DEF Values, Entries, ToSet
<1>6. Counted
  BY <1>5, FS_EmptySet DEF Counted
<1> QED
  BY <1>2, <1>4, <1>6, AtRest DEF IInv

(* The table that an insertion finds, expanded or not.                     *)
Grown == IF primeindex' = primeindex THEN table ELSE Rehash(table, Primes[primeindex'])
EntryFor(k, v) == [k |-> k, v |-> v, h |-> HashOf[k]]

(* Expansion keeps the entries, and puts each where its hash belongs.      *)
LEMMA GrownIs ==
  ASSUME IInv, Resize
  PROVE  /\ Primes[primeindex'] \in Nat \ {0} /\ Grown \in Tables(Primes[primeindex'])
         /\ Sound(Grown, Primes[primeindex']) /\ Entries(Grown) = Entries(table)
         /\ Values(Grown) = Values(table)
<1>1. /\ Primes[primeindex'] \in Nat \ {0}
      /\ tablelength \in Nat \ {0} /\ table \in Tables(tablelength) /\ Sound(table, tablelength)
  BY NextSize, Sizes DEF IInv
<1>2. CASE primeindex' = primeindex
  BY <1>1, <1>2 DEF Grown, tablelength, Values
<1>3. CASE primeindex' # primeindex
  <2>1. Grown = Rehash(table, Primes[primeindex'])
    BY <1>3 DEF Grown
  <2> QED
    BY <1>1, <2>1, Rehashed DEF Values
<1> QED
  BY <1>2, <1>3

(* hashtable_insert adds its entry, or none when malloc refuses it.        *)
LEMMA InsertLinks ==
  ASSUME IInv, NEW k \in Stored, NEW v \in Value, NEW a \in BOOLEAN, Insert(k, v, a)
  PROVE  /\ EntryFor(k, v) \in Entry /\ v \notin Values(Grown)
         /\ \/ /\ table' = Link(Grown, EntryFor(k, v)) /\ entrycount' = entrycount + 1
               /\ result' = "inserted"
               /\ table' \in Tables(Primes[primeindex']) /\ Sound(table', Primes[primeindex'])
               /\ Entries(table') = Entries(table) \cup {EntryFor(k, v)}
               /\ Cardinality(Values(table')) = Cardinality(Values(table)) + 1
            \/ table' = Grown /\ entrycount' = entrycount /\ result' = "failed"
<1>1. /\ Primes[primeindex'] \in Nat \ {0} /\ Grown \in Tables(Primes[primeindex'])
      /\ Sound(Grown, Primes[primeindex']) /\ Entries(Grown) = Entries(table)
      /\ Values(Grown) = Values(table)
  BY GrownIs DEF Insert
<1>2. EntryFor(k, v) \in Entry /\ EntryFor(k, v).h = HashOf[EntryFor(k, v).k] /\ EntryFor(k, v).v = v
  BY KeyAssumption DEF EntryFor, Entry
<1>3. v \notin Values(Grown)
  BY <1>1, Sizes DEF Insert, IInv
<1>4. CASE a
  <2>1. table' = Link(Grown, EntryFor(k, v)) /\ entrycount' = entrycount + 1 /\ result' = "inserted"
    BY <1>4 DEF Insert, Grown, EntryFor
  <2> DEFINE m == Primes[primeindex']
             e == EntryFor(k, v)
             t == Grown
  <2>2. /\ m \in Nat \ {0} /\ t \in Tables(m) /\ Sound(t, m) /\ e \in Entry
        /\ e.h = HashOf[e.k] /\ e.v \notin Values(t)
    BY <1>1, <1>2, <1>3
  <2> HIDE DEF m, e, t
  <2>3. \A x \in Entries(t) : x.v # e.v
    BY <2>2 DEF Values
  <2>4. Link(t, e) \in Tables(m) /\ Sound(Link(t, e), m) /\ Entries(Link(t, e)) = Entries(t) \cup {e}
    BY <2>2, <2>3, Linked, LinkKeeps
  <2>5. Cardinality(Values(Link(t, e))) = Cardinality(Values(t)) + 1
    BY <2>2, CountsLinked
  <2> QED
    BY <1>1, <1>2, <1>3, <2>1, <2>4, <2>5 DEF m, e, t
<1>5. CASE ~ a
  <2>1. table' = Grown /\ entrycount' = entrycount /\ result' = "failed"
    BY <1>5 DEF Insert, Grown
  <2> QED
    BY <1>2, <1>3, <2>1
<1> QED
  BY <1>4, <1>5

(* hashtable_insert keeps the invariant, whether or not the table grows.   *)
LEMMA InsertInv ==
  ASSUME IInv, NEW k \in Stored, NEW v \in Value, NEW a \in BOOLEAN, Insert(k, v, a)
  PROVE  IInv'
<1> DEFINE m == Primes[primeindex']
<1>1. /\ primeindex' \in DOMAIN Primes /\ loadlimit' = LoadLimit(m) /\ m \in Nat \ {0}
      /\ tablelength' = m
  BY NextSize DEF IInv, Insert, tablelength
<1>2. /\ itr = NoItr /\ itr' = itr /\ visited' = visited /\ goal' = goal /\ state = "open"
      /\ state' = state /\ call' = <<"insert", k>> /\ k \in Key
  BY KeyAssumption DEF Insert, ghost
<1>3. /\ table' \in Tables(m) /\ Sound(table', m) /\ result' \in {"inserted", "failed"}
      /\ entrycount' = Cardinality(Values(table'))
  <2>1. entrycount = Cardinality(Values(table)) /\ Values(Grown) = Values(table)
    BY <1>2, GrownIs DEF IInv, Counted, Insert
  <2>2. Grown \in Tables(m) /\ Sound(Grown, m)
    BY GrownIs DEF Insert
  <2> QED
    BY <2>1, <2>2, InsertLinks
<1> HIDE DEF m
<1>4. entrycount' \in 0 .. Cardinality(Value)
  <2>1. /\ Cardinality(Values(table')) \in Nat /\ Cardinality(Value) \in Nat
        /\ Cardinality(Values(table')) <= Cardinality(Value)
    BY <1>1, <1>3, Counts
  <2> QED
    BY <1>3, <2>1
<1>5. TypeOK'
  <2>1. itr' \in [e : Value \cup {"none"}, parent : Value \cup {"none"}, index : 0 .. m]
    BY <1>1, <1>2 DEF NoItr
  <2>2. call' \in {<<"none">>} \cup ({"insert", "search", "remove"} \X Key)
    BY <1>2
  <2>3. table' \in [0 .. (m - 1) -> Seq(Entry)]
    BY <1>3 DEF Tables
  <2> QED
    BY <1>1, <1>2, <1>3, <1>4, <2>1, <2>2, <2>3 DEF TypeOK, IInv
<1>6. Counted'
  BY <1>3 DEF Counted
<1>7. Walk'
  BY <1>2, NothingVisited DEF IInv, Walk, NoItr
<1> QED
  BY <1>1, <1>3, <1>5, <1>6, <1>7 DEF IInv

(* A walk that rests stays so when its variables do.                       *)
LEMMA StillAtRest ==
  ASSUME Walk, itr = NoItr, UNCHANGED <<itr, visited, goal>>
  PROVE  Walk'
BY NothingVisited DEF Walk, NoItr

(* hashtable_search changes nothing, and returns a message or NULL.        *)
LEMMA SearchInv ==
  ASSUME IInv, NEW k \in Key, Search(k)
  PROVE  IInv'
<1>1. /\ UNCHANGED <<table, entrycount, primeindex, loadlimit, itr, visited, goal, state, tablelength>>
      /\ call' = <<"search", k>>
  BY DEF Search, sizes, ghost, tablelength
<1>2. result' \in Value \cup {"null"}
  <2>1. CASE FirstMatch(k) = 0
    BY <2>1 DEF Search
  <2>2. CASE FirstMatch(k) # 0
    <3> DEFINE b == Chain(k)
               i == FirstMatch(k)
    <3>1. b \in 0 .. (tablelength - 1) /\ i \in 1 .. Len(table[b]) /\ result' = table[b][i].v
      BY <2>2, FirstMatchIs DEF Search, IInv
    <3> HIDE DEF b, i
    <3>2. table[b][i] \in Entry
      BY <3>1, Sizes, EntryOfTable DEF IInv
    <3> QED
      BY <3>1, <3>2 DEF Entry
  <2> QED
    BY <2>1, <2>2
<1>3. call' \in {<<"none">>} \cup ({"insert", "search", "remove"} \X Key)
  BY <1>1
<1>4. TypeOK'
  BY <1>1, <1>2, <1>3 DEF TypeOK, IInv
<1>5. Walk' /\ Counted' /\ Sound(table, tablelength)'
  BY <1>1 DEF IInv, Walk, Counted, Between, StandsOn
<1> QED
  BY <1>4, <1>5 DEF IInv

(* What removing an entry does to the table and to the number of entries.  *)
LEMMA RemovalKeeps ==
  ASSUME IInv, state = "open", NEW b \in 0 .. (tablelength - 1), NEW i \in 1 .. Len(table[b])
  PROVE  /\ Without(table, b, i) \in Tables(tablelength)
         /\ Sound(Without(table, b, i), tablelength)
         /\ entrycount - 1 = Cardinality(Values(Without(table, b, i)))
         /\ entrycount - 1 \in 0 .. Cardinality(Value)
<1> DEFINE n == tablelength
           u == Without(table, b, i)
<1>1. n \in Nat \ {0} /\ table \in Tables(n) /\ Sound(table, n)
  BY Sizes DEF IInv
<1>2. entrycount = Cardinality(Values(table))
  BY DEF IInv, Counted
<1>3. u \in Tables(n) /\ Sound(u, n)
  <2> HIDE DEF n
  <2> QED
    BY <1>1, WithoutKeeps DEF n
<1>4. Cardinality(Values(u)) = Cardinality(Values(table)) - 1
  <2> HIDE DEF n
  <2> QED
    BY <1>1, CountsWithout DEF n
<1>5. /\ Cardinality(Values(u)) \in Nat /\ Cardinality(Value) \in Nat
      /\ Cardinality(Values(u)) <= Cardinality(Value)
  BY <1>1, <1>3, Counts
<1> HIDE DEF n, u
<1>6. entrycount - 1 = Cardinality(Values(u)) /\ entrycount - 1 \in 0 .. Cardinality(Value)
  BY <1>2, <1>4, <1>5
<1> QED
  BY <1>3, <1>6 DEF n, u

(* hashtable_remove takes out the first match, if there is one.            *)
LEMMA RemoveKeyIs ==
  ASSUME IInv, NEW k \in Key, RemoveKey(k)
  PROVE  \/ FirstMatch(k) = 0 /\ UNCHANGED <<table, entrycount>> /\ result' = "null"
         \/ /\ FirstMatch(k) \in 1 .. Len(table[Chain(k)])
            /\ table' = Without(table, Chain(k), FirstMatch(k))
            /\ entrycount' = entrycount - 1
            /\ result' = table[Chain(k)][FirstMatch(k)].v
BY FirstMatchIs DEF IInv, RemoveKey, Without

(* hashtable_remove keeps the invariant.                                   *)
LEMMA RemoveKeyInv ==
  ASSUME IInv, NEW k \in Key, RemoveKey(k)
  PROVE  IInv'
<1>1. /\ UNCHANGED <<primeindex, loadlimit, itr, visited, goal, state, tablelength>>
      /\ call' = <<"remove", k>> /\ state = "open" /\ itr = NoItr
  BY DEF RemoveKey, sizes, ghost, tablelength
<1>2. /\ table' \in Tables(tablelength) /\ Sound(table', tablelength)
      /\ entrycount' = Cardinality(Values(table')) /\ entrycount' \in 0 .. Cardinality(Value)
      /\ result' \in Value \cup {"null"}
  <2>1. CASE UNCHANGED <<table, entrycount>> /\ result' = "null"
    BY <1>1, <2>1, Sizes DEF IInv, TypeOK, Counted
  <2>2. CASE /\ FirstMatch(k) \in 1 .. Len(table[Chain(k)])
             /\ table' = Without(table, Chain(k), FirstMatch(k))
             /\ entrycount' = entrycount - 1
             /\ result' = table[Chain(k)][FirstMatch(k)].v
    <3> DEFINE b == Chain(k)
               i == FirstMatch(k)
    <3>1. b \in 0 .. (tablelength - 1) /\ i \in 1 .. Len(table[b])
      BY <2>2, FirstMatchIs DEF IInv
    <3>2. table' = Without(table, b, i) /\ entrycount' = entrycount - 1 /\ result' = table[b][i].v
      BY <2>2
    <3> HIDE DEF b, i
    <3>3. table[b][i] \in Entry
      BY <3>1, Sizes, EntryOfTable DEF IInv
    <3> QED
      BY <1>1, <3>1, <3>2, <3>3, RemovalKeeps DEF Entry
  <2> QED
    BY <2>1, <2>2, RemoveKeyIs
<1>3. call' \in {<<"none">>} \cup ({"insert", "search", "remove"} \X Key)
  BY <1>1
<1>4. TypeOK'
  BY <1>1, <1>2, <1>3 DEF TypeOK, IInv, Tables
<1>5. Walk'
  BY <1>1, StillAtRest DEF IInv
<1> QED
  BY <1>1, <1>2, <1>4, <1>5 DEF IInv, Counted

(* hashtable_destroy leaves empty chains.                                  *)
LEMMA DestroyInv ==
  ASSUME IInv, Destroy
  PROVE  IInv'
<1>1. /\ UNCHANGED <<entrycount, primeindex, loadlimit, itr, visited, goal, call, result, tablelength>>
      /\ table' = [b \in 0 .. (tablelength - 1) |-> <<>>] /\ state' = "destroyed" /\ itr = NoItr
  BY Sizes DEF IInv, Destroy, sizes, ghost, tablelength
<1>2. table' \in [0 .. (tablelength - 1) -> Seq(Entry)]
  BY <1>1
<1>3. TypeOK'
  BY <1>1, <1>2 DEF IInv, TypeOK
<1>4. Sound(table', tablelength)
  <2>1. \A b \in 0 .. (tablelength - 1) : DOMAIN table'[b] = {}
    BY <1>1
  <2> QED
    BY <2>1 DEF Sound
<1>5. Walk'
  BY <1>1, StillAtRest DEF IInv
<1> QED
  BY <1>1, <1>3, <1>4, <1>5 DEF IInv, Counted

(* The crash of Plan B leaves the table as it was.                         *)
LEMMA CrashInv ==
  ASSUME IInv, NEW k \in Stored, NEW v \in Value, InsertPlanB(k, v)
  PROVE  IInv'
<1>1. /\ UNCHANGED <<table, entrycount, primeindex, loadlimit, itr, visited, goal, call, result, tablelength>>
      /\ state' = "crashed" /\ itr = NoItr
  BY DEF InsertPlanB, sizes, ghost, tablelength
<1>2. TypeOK'
  BY <1>1 DEF IInv, TypeOK
<1>3. Walk'
  BY <1>1, StillAtRest DEF IInv
<1> QED
  BY <1>1, <1>2, <1>3 DEF IInv, Counted

(* Freeing the iterator ends the walk.                                     *)
LEMMA IterFreeInv ==
  ASSUME IInv, IterFree
  PROVE  IInv'
<1>1. /\ UNCHANGED <<table, entrycount, primeindex, loadlimit, call, result, state, tablelength>>
      /\ itr' = NoItr /\ visited' = <<>> /\ goal' = {}
  BY DEF IterFree, sizes, tablelength
<1>2. NoItr \in [e : Value \cup {"none"}, parent : Value \cup {"none"}, index : 0 .. tablelength]
  BY Sizes DEF IInv, NoItr
<1>3. TypeOK'
  BY <1>1, <1>2, NothingVisited DEF IInv, TypeOK
<1>4. Walk'
  BY <1>1, NothingVisited DEF Walk, NoItr
<1> QED
  BY <1>1, <1>3, <1>4 DEF IInv, Counted

(* hashtable_iterator stands on the first entry, the others ahead.         *)
LEMMA IterStartInv ==
  ASSUME IInv, IterStart
  PROVE  IInv'
<1> DEFINE n == tablelength
<1>1. /\ UNCHANGED <<table, entrycount, primeindex, loadlimit, call, result, state, tablelength>>
      /\ itr' = FirstFrom(table, 0) /\ visited' = <<itr'.e>> /\ goal' = Values(table)
      /\ state = "open" /\ entrycount > 0
  BY Sizes DEF IInv, IterStart, sizes, tablelength
<1>2. /\ n \in Nat \ {0} /\ table \in Tables(n) /\ Sound(table, n) /\ DOMAIN table = 0 .. (n - 1)
      /\ tablelength = n
  BY Sizes DEF IInv
<1> HIDE DEF n
<1>3. \E c \in 0 .. (n - 1) :
        /\ FirstAt(table, 0, c)
        /\ itr' = [e |-> table[c][1].v, parent |-> "none", index |-> c]
  <2>1. CASE NothingFrom(n, table, 0)
    <3>1. Values(table) = {}
      <4>1. \A d \in 0 .. (n - 1) : DOMAIN table[d] = {}
        BY <2>1 DEF NothingFrom
      <4> QED
        BY <4>1, <1>2 DEF Values, Entries, ToSet
    <3>2. entrycount = 0
      BY <1>1, <3>1, FS_EmptySet DEF IInv, Counted
    <3> QED
      BY <1>1, <3>2
  <2>2. CASE \E c \in 0 .. (n - 1) :
               /\ FirstAt(table, 0, c)
               /\ FirstFrom(table, 0) = [e |-> table[c][1].v, parent |-> "none", index |-> c]
    BY <1>1, <2>2
  <2>3. 0 \in 0 .. n
    BY <1>2
  <2> QED
    BY <1>2, <2>1, <2>2, <2>3, FirstFromIs
<1>4. PICK c \in 0 .. (n - 1) :
        /\ FirstAt(table, 0, c)
        /\ itr' = [e |-> table[c][1].v, parent |-> "none", index |-> c]
  BY <1>3
<1> DEFINE v == table[c][1].v
<1>5. 1 \in 1 .. Len(table[c]) /\ Values(table) = Ahead(table, c, 1) \cup {v}
  BY <1>2, <1>4, StartAt
<1>6. v \notin Ahead(table, c, 1)
  BY <1>2, <1>5, NotAhead
<1>7. v \in Value /\ v # "none" /\ DOMAIN table[c] = 1 .. Len(table[c])
  <2>1. table[c][1] \in Entry /\ DOMAIN table[c] = 1 .. Len(table[c])
    BY <1>2, <1>5, EntryOfTable
  <2> QED
    BY <2>1, ValueAssumption DEF Entry
<1>8. itr' = [e |-> v, parent |-> "none", index |-> c] /\ visited' = <<v>>
  BY <1>1, <1>4
<1> HIDE DEF v
<1>9. visited' \in Seq(Value) /\ IsInjective(visited') /\ ToSet(visited') = {v}
  <2>1. <<v>> = Append(<<>>, v)
    OBVIOUS
  <2> DEFINE s == <<>>
  <2>2. s \in Seq(Value) /\ IsInjective(s) /\ ToSet(s) = {} /\ v \notin ToSet(s)
    BY NothingVisited
  <2> HIDE DEF s
  <2>3. /\ Append(s, v) \in Seq(Value) /\ IsInjective(Append(s, v))
        /\ ToSet(Append(s, v)) = ToSet(s) \cup {v}
    BY <1>7, <2>2, Appended
  <2> QED
    BY <1>8, <2>1, <2>2, <2>3 DEF s
<1>10. TypeOK'
  <2>1. itr' \in [e : Value \cup {"none"}, parent : Value \cup {"none"}, index : 0 .. n]
    BY <1>2, <1>7, <1>8
  <2>2. goal' \subseteq Value
    BY <1>1, <1>2, ValueOfTable
  <2> QED
    BY <1>1, <1>2, <1>9, <2>1, <2>2 DEF IInv, TypeOK
<1>11. Walk'
  <2>1. Between(1)'
    <3>1. StandsOn(1)'
      BY <1>1, <1>2, <1>5, <1>7, <1>8 DEF StandsOn, v
    <3>2. goal' = ToSet(visited') \cup Ahead(table', itr'.index, 1)
      BY <1>1, <1>5, <1>8, <1>9
    <3>3. ToSet(visited') \cap Ahead(table', itr'.index, 1) = {}
      BY <1>1, <1>6, <1>8, <1>9
    <3> QED
      BY <3>1, <3>2, <3>3 DEF Between
  <2>2. itr'.e # "none" /\ itr' # NoItr
    BY <1>7, <1>8 DEF NoItr
  <2> QED
    BY <1>9, <2>1, <2>2 DEF Walk
<1> QED
  BY <1>1, <1>10, <1>11 DEF IInv, Counted

(* Where the iterator is, and where it comes to from there.                *)
LEMMA OnTheWay ==
  ASSUME IInv, itr.e # "none"
  PROVE  \E i \in 1 .. Len(table[itr.index]) :
           /\ Between(i) /\ itr.index \in 0 .. (tablelength - 1)
           /\ Leads(Advanced(itr, table, table[itr.index]), tablelength, table, itr.index, i)
<1> DEFINE n == tablelength
           b == itr.index
<1>1. /\ n \in Nat \ {0} /\ table \in Tables(n) /\ Sound(table, n) /\ DOMAIN table = 0 .. (n - 1)
      /\ tablelength = n
  BY Sizes DEF IInv
<1>2. itr \in [e : Value \cup {"none"}, parent : Value \cup {"none"}, index : 0 .. n]
  BY DEF IInv, TypeOK
<1> HIDE DEF n
<1>3. PICK i \in Nat : Between(i)
  BY DEF IInv, Walk
<1>4. b \in 0 .. (n - 1) /\ i \in DOMAIN table[b] /\ itr.e = table[b][i].v
  BY <1>1, <1>3 DEF Between, StandsOn
<1>5. i \in 1 .. Len(table[b])
  BY <1>1, <1>4, EntryOfTable
<1>6. b = itr.index
  OBVIOUS
<1> HIDE DEF b
<1>7. Leads(Advanced(itr, table, table[b]), n, table, b, i)
  BY <1>1, <1>2, <1>4, <1>5, <1>6, AdvancedIs
<1> QED
  BY <1>3, <1>4, <1>5, <1>7 DEF n, b

(* Coming to what is next, a walk goes on; after the last it is complete.  *)
LEMMA GoesOn ==
  ASSUME IInv, NEW b \in 0 .. (tablelength - 1), b = itr.index,
         NEW i \in 1 .. Len(table[b]), Between(i),
         NEW c \in 0 .. (tablelength - 1), NEW j \in 1 .. Len(table[c]),
         IsNext(table, b, i, c, j), NEW v, v = table[c][j].v
  PROVE  /\ v \in Value /\ v # "none"
         /\ Append(visited, v) \in Seq(Value) /\ IsInjective(Append(visited, v))
         /\ goal = ToSet(Append(visited, v)) \cup Ahead(table, c, j)
         /\ ToSet(Append(visited, v)) \cap Ahead(table, c, j) = {}
<1> DEFINE n == tablelength
<1>1. n \in Nat \ {0} /\ table \in Tables(n) /\ Sound(table, n)
  BY Sizes DEF IInv
<1>2. b \in 0 .. (n - 1) /\ c \in 0 .. (n - 1)
  OBVIOUS
<1> HIDE DEF n
<1>3. Ahead(table, b, i) = Ahead(table, c, j) \cup {v}
  BY <1>1, <1>2, AheadOfNext
<1>4. v \notin Ahead(table, c, j)
  BY <1>1, <1>2, NotAhead, Zenon
<1>5. /\ goal = ToSet(visited) \cup Ahead(table, b, i)
      /\ ToSet(visited) \cap Ahead(table, b, i) = {}
  BY DEF Between
<1>6. v \in Value /\ v # "none"
  <2>1. table[c][j] \in Entry
    BY <1>1, <1>2, EntryOfTable
  <2> QED
    BY <2>1, ValueAssumption DEF Entry
<1>7. visited \in Seq(Value) /\ IsInjective(visited)
  BY DEF IInv, TypeOK, Walk
<1>8. v \notin ToSet(visited)
  BY <1>3, <1>5
<1>9. /\ Append(visited, v) \in Seq(Value) /\ IsInjective(Append(visited, v))
      /\ ToSet(Append(visited, v)) = ToSet(visited) \cup {v}
  BY <1>6, <1>7, <1>8, Appended
<1> QED
  BY <1>3, <1>4, <1>5, <1>6, <1>9

(* On the last entry a walk has stood on everything.                       *)
LEMMA EndsThere ==
  ASSUME IInv, NEW b \in 0 .. (tablelength - 1), b = itr.index,
         NEW i \in 1 .. Len(table[b]), Between(i), IsLast(tablelength, table, b, i)
  PROVE  goal = ToSet(visited)
<1> DEFINE n == tablelength
<1>1. n \in Nat \ {0} /\ table \in Tables(n) /\ IsLast(n, table, b, i) /\ b \in 0 .. (n - 1)
  BY Sizes DEF IInv
<1> HIDE DEF n
<1>2. Ahead(table, b, i) = {}
  BY <1>1, AheadOfLast
<1> QED
  BY <1>2 DEF Between

(* hashtable_iterator_advance keeps the invariant.                         *)
LEMMA IterAdvanceInv ==
  ASSUME IInv, IterAdvance
  PROVE  IInv'
<1> DEFINE n == tablelength
           b == itr.index
<1>1. /\ UNCHANGED <<table, entrycount, primeindex, loadlimit, goal, call, result, state, tablelength>>
      /\ itr' = Advanced(itr, table, table[itr.index])
      /\ visited' = IF itr'.e = "none" THEN visited ELSE Append(visited, itr'.e)
      /\ itr.e # "none"
  BY DEF IterAdvance, Visit, sizes, tablelength
<1>2. PICK i \in 1 .. Len(table[b]) :
        Between(i) /\ b \in 0 .. (n - 1) /\ Leads(itr', n, table, b, i)
  BY <1>1, OnTheWay
<1>3. n \in Nat \ {0} /\ table \in Tables(n) /\ DOMAIN table = 0 .. (n - 1) /\ tablelength = n
  BY Sizes DEF IInv
<1> SUFFICES /\ itr' \in [e : Value \cup {"none"}, parent : Value \cup {"none"}, index : 0 .. n]
             /\ visited' \in Seq(Value) /\ Walk'
  BY <1>1 DEF IInv, TypeOK, Counted
<1>4. visited \in Seq(Value) /\ IsInjective(visited) /\ itr.e \in Value
  BY <1>1 DEF IInv, TypeOK, Walk
<1>5. CASE IsLast(n, table, b, i) /\ itr' = [e |-> "none", parent |-> "none", index |-> n]
  <2>1. goal = ToSet(visited)
    BY <1>2, <1>5, EndsThere
  <2>2. visited' = visited
    BY <1>1, <1>5
  <2>3. itr'.e = "none" /\ itr' # NoItr
    BY <1>3, <1>5 DEF NoItr
  <2>4. itr' \in [e : Value \cup {"none"}, parent : Value \cup {"none"}, index : 0 .. n]
    BY <1>3, <1>5
  <2> HIDE DEF n, b
  <2> QED
    BY <1>1, <1>4, <2>1, <2>2, <2>3, <2>4 DEF Walk
<1>6. CASE \E c \in 0 .. (n - 1) : \E j \in 1 .. Len(table[c]) :
             /\ IsNext(table, b, i, c, j)
             /\ itr' = [e |-> table[c][j].v,
                        parent |-> IF c = b THEN table[b][i].v ELSE "none", index |-> c]
  <2>1. PICK c \in 0 .. (n - 1) : \E j \in 1 .. Len(table[c]) :
             /\ IsNext(table, b, i, c, j)
             /\ itr' = [e |-> table[c][j].v,
                        parent |-> IF c = b THEN table[b][i].v ELSE "none", index |-> c]
    BY <1>6
  <2>2. PICK j \in 1 .. Len(table[c]) :
             /\ IsNext(table, b, i, c, j)
             /\ itr' = [e |-> table[c][j].v,
                        parent |-> IF c = b THEN table[b][i].v ELSE "none", index |-> c]
    BY <2>1
  <2> DEFINE v == table[c][j].v
             p == IF c = b THEN table[b][i].v ELSE "none"
  <2>3. /\ v \in Value /\ v # "none"
        /\ Append(visited, v) \in Seq(Value) /\ IsInjective(Append(visited, v))
        /\ goal = ToSet(Append(visited, v)) \cup Ahead(table, c, j)
        /\ ToSet(Append(visited, v)) \cap Ahead(table, c, j) = {}
    BY <1>2, <2>2, GoesOn
  <2>4. itr' = [e |-> v, parent |-> p, index |-> c]
    BY <2>2
  <2>5. p \in Value \cup {"none"} /\ p = IF j = 1 THEN "none" ELSE table[c][j - 1].v
    <3>1. table[b][i].v = itr.e
      BY <1>2 DEF Between, StandsOn
    <3>2. \/ c = b /\ j = i + 1 /\ j # 1 /\ j - 1 = i
          \/ c # b /\ j = 1
      BY <1>2, <2>2 DEF IsNext
    <3> QED
      BY <1>4, <3>1, <3>2
  <2>6. c \in DOMAIN table /\ j \in DOMAIN table[c] /\ j \in Nat
    BY <1>3, EntryOfTable
  <2>7. v = table[c][j].v
    OBVIOUS
  <2>8. itr' \in [e : Value \cup {"none"}, parent : Value \cup {"none"}, index : 0 .. n]
    <3> HIDE DEF v, p
    <3> QED
      BY <1>3, <2>3, <2>4, <2>5
  <2> HIDE DEF n, b, v, p
  <2>9. itr'.e = v /\ itr'.parent = p /\ itr'.index = c /\ visited' = Append(visited, v)
    BY <1>1, <2>3, <2>4
  <2>10. Between(j)'
    <3>1. StandsOn(j)'
      BY <1>1, <2>5, <2>6, <2>7, <2>9 DEF StandsOn
    <3> QED
      BY <1>1, <2>3, <2>9, <3>1 DEF Between
  <2>11. itr' # NoItr
    BY <2>3, <2>9 DEF NoItr
  <2> QED
    BY <2>3, <2>6, <2>8, <2>9, <2>10, <2>11 DEF Walk
<1> QED
  BY <1>2, <1>5, <1>6 DEF Leads

(* Both ways of linking past an entry take it out of the chain.            *)
LEMMA LinkedPast ==
  ASSUME NEW chain \in Seq(Entry), Distinct(chain), NEW i \in 1 .. Len(chain)
  PROVE  /\ i = 1 => After(chain, chain[i].v) = RemoveAt(chain, i)
         /\ i # 1 => SubSeq(chain, 1, Place(chain, chain[i - 1].v)) \o After(chain, chain[i].v)
                       = RemoveAt(chain, i)
<1>1. Place(chain, chain[i].v) = i
  BY PlaceIs
<1>2. After(chain, chain[i].v) = SubSeq(chain, i + 1, Len(chain))
  BY <1>1 DEF After
<1>3. CASE i = 1
  <2>1. RemoveAt(chain, 1) = SubSeq(chain, 2, Len(chain))
    BY <1>3, Removed
  <2> QED
    BY <1>2, <1>3, <2>1
<1>4. CASE i # 1
  <2>1. i - 1 \in 1 .. Len(chain)
    BY <1>4
  <2>2. Place(chain, chain[i - 1].v) = i - 1
    BY <2>1, PlaceIs
  <2> QED
    BY <1>2, <1>4, <2>2 DEF RemoveAt
<1> QED
  BY <1>3, <1>4

(* hashtable_iterator_remove takes out the entry it stands on.             *)
LEMMA IterRemoveIs ==
  ASSUME IInv, IterRemove, NEW b \in 0 .. (tablelength - 1), b = itr.index,
         NEW i \in 1 .. Len(table[b]), Between(i)
  PROVE  table' = Without(table, b, i)
<1> DEFINE chain == table[b]
<1>1. chain \in Seq(Entry) /\ Distinct(chain)
  BY Sizes, ChainOf DEF IInv
<1>2. itr.e = chain[i].v /\ itr.parent = IF i = 1 THEN "none" ELSE chain[i - 1].v
  BY DEF Between, StandsOn
<1>3. itr.parent = "none" <=> i = 1
  <2>1. CASE i = 1
    BY <1>2, <2>1
  <2>2. CASE i # 1
    <3>1. i - 1 \in 1 .. Len(chain)
      BY <1>1, <2>2
    <3>2. chain[i - 1] \in Entry
      BY <1>1, <3>1
    <3> QED
      BY <1>2, <2>2, <3>2, ValueAssumption DEF Entry
  <2> QED
    BY <2>1, <2>2
<1>4. table' = [table EXCEPT ![b] =
                  IF itr.parent = "none" THEN After(chain, itr.e)
                  ELSE SubSeq(chain, 1, Place(chain, itr.parent)) \o After(chain, itr.e)]
  BY DEF IterRemove
<1>5. i \in 1 .. Len(chain)
  OBVIOUS
<1>6. RemoveAt(chain, i) = IF itr.parent = "none" THEN After(chain, itr.e)
                ELSE SubSeq(chain, 1, Place(chain, itr.parent)) \o After(chain, itr.e)
  <2> HIDE DEF chain
  <2>1. CASE i = 1
    <3>1. After(chain, chain[i].v) = RemoveAt(chain, i)
      BY <1>1, <1>5, <2>1, LinkedPast
    <3> QED
      BY <1>2, <1>3, <2>1, <3>1
  <2>2. CASE i # 1
    <3>1. SubSeq(chain, 1, Place(chain, chain[i - 1].v)) \o After(chain, chain[i].v)
            = RemoveAt(chain, i)
      BY <1>1, <1>5, <2>2, LinkedPast
    <3>2. itr.parent # "none" /\ itr.parent = chain[i - 1].v
      BY <1>2, <1>3, <2>2
    <3> QED
      BY <1>2, <3>1, <3>2
  <2> QED
    BY <2>1, <2>2
<1> QED
  BY <1>4, <1>6 DEF Without

(* hashtable_iterator_remove keeps the invariant: iterator and parent are  *)
(* right in the smaller chain.                                             *)
LEMMA IterRemoveInv ==
  ASSUME IInv, IterRemove
  PROVE  IInv'
<1> DEFINE n == tablelength
           b == itr.index
           r == Advanced(itr, table, table[itr.index])
<1>1. /\ UNCHANGED <<primeindex, loadlimit, goal, call, result, state, tablelength>>
      /\ itr' = IF r.parent = itr.e THEN [r EXCEPT !.parent = itr.parent] ELSE r
      /\ visited' = IF itr'.e = "none" THEN visited ELSE Append(visited, itr'.e)
      /\ entrycount' = entrycount - 1 /\ state = "open"
      /\ itr.e # "none"
  BY DEF IterRemove, Visit, sizes, tablelength
<1>2. PICK i \in 1 .. Len(table[b]) :
        Between(i) /\ b \in 0 .. (n - 1) /\ Leads(r, n, table, b, i)
  BY <1>1, OnTheWay
<1>3. /\ n \in Nat \ {0} /\ table \in Tables(n) /\ Sound(table, n)
      /\ DOMAIN table = 0 .. (n - 1) /\ tablelength = n
  BY Sizes DEF IInv
<1>4. table' = Without(table, b, i)
  BY <1>2, IterRemoveIs
<1>5. /\ table' \in Tables(n) /\ Sound(table', n)
      /\ entrycount' = Cardinality(Values(table')) /\ entrycount' \in 0 .. Cardinality(Value)
  BY <1>1, <1>2, <1>4, RemovalKeeps
<1> HIDE DEF r
<1> SUFFICES /\ itr' \in [e : Value \cup {"none"}, parent : Value \cup {"none"}, index : 0 .. n]
             /\ visited' \in Seq(Value) /\ Walk'
  BY <1>1, <1>5 DEF IInv, TypeOK, Counted, Tables
<1>6. /\ visited \in Seq(Value) /\ IsInjective(visited) /\ itr.e \in Value /\ itr.e # "none"
      /\ itr.parent \in Value \cup {"none"}
      /\ itr.e = table[b][i].v
      /\ itr.parent = IF i = 1 THEN "none" ELSE table[b][i - 1].v
  BY <1>1, <1>2 DEF IInv, TypeOK, Walk, Between, StandsOn
<1>7. CASE IsLast(n, table, b, i) /\ r = [e |-> "none", parent |-> "none", index |-> n]
  <2>1. goal = ToSet(visited)
    BY <1>2, <1>7, EndsThere
  <2>2. itr' = r
    BY <1>1, <1>6, <1>7
  <2>3. itr'.e = "none" /\ itr' # NoItr /\ visited' = visited
    BY <1>1, <1>3, <1>7, <2>2 DEF NoItr
  <2>4. itr' \in [e : Value \cup {"none"}, parent : Value \cup {"none"}, index : 0 .. n]
    BY <1>3, <1>7, <2>2
  <2> HIDE DEF n, b
  <2> QED
    BY <1>1, <1>6, <2>1, <2>3, <2>4 DEF Walk
<1>8. CASE \E c \in 0 .. (n - 1) : \E j \in 1 .. Len(table[c]) :
             /\ IsNext(table, b, i, c, j)
             /\ r = [e |-> table[c][j].v,
                     parent |-> IF c = b THEN table[b][i].v ELSE "none", index |-> c]
  <2>1. PICK c \in 0 .. (n - 1) : \E j \in 1 .. Len(table[c]) :
             /\ IsNext(table, b, i, c, j)
             /\ r = [e |-> table[c][j].v,
                     parent |-> IF c = b THEN table[b][i].v ELSE "none", index |-> c]
    BY <1>8
  <2>2. PICK j \in 1 .. Len(table[c]) :
             /\ IsNext(table, b, i, c, j)
             /\ r = [e |-> table[c][j].v,
                     parent |-> IF c = b THEN table[b][i].v ELSE "none", index |-> c]
    BY <2>1
  <2> DEFINE v == table[c][j].v
             p == IF c = b THEN itr.parent ELSE "none"
  <2>k. PICK k : k = Becomes(b, i, c, j)
    OBVIOUS
  <2>3. /\ v \in Value /\ v # "none"
        /\ Append(visited, v) \in Seq(Value) /\ IsInjective(Append(visited, v))
        /\ goal = ToSet(Append(visited, v)) \cup Ahead(table, c, j)
        /\ ToSet(Append(visited, v)) \cap Ahead(table, c, j) = {}
    BY <1>2, <2>2, GoesOn
  <2>4. itr' = [e |-> v, parent |-> p, index |-> c]
    <3> HIDE DEF v
    <3>1. r = [e |-> v, parent |-> IF c = b THEN itr.e ELSE "none", index |-> c]
      BY <2>2, <1>6 DEF v
    <3>2. CASE c = b
      BY <3>1, <3>2, <1>1
    <3>3. CASE c # b
      BY <3>1, <3>3, <1>1, <1>6
    <3> QED
      BY <3>2, <3>3
  <2>5. /\ k \in 1 .. Len(table'[c]) /\ table'[c][k].v = v
        /\ Ahead(table', c, k) = Ahead(table, c, j)
    <3>1. Corresponds(table[c], table'[c], b, i, c)
      BY <1>2, <1>3, <1>4, Places
    <3>2. ~ (c = b /\ j = i)
      <4>1. Len(table[b]) \in Nat /\ i \in Nat
        BY <1>2, <1>3, EntryOfTable
      <4> QED
        BY <4>1, <2>2 DEF IsNext
    <3>3. k \in 1 .. Len(table'[c]) /\ table[c][j] = table'[c][k]
      BY <3>1, <3>2, <2>k DEF Corresponds
    <3>4. Ahead(table', c, k) = Ahead(table, c, j)
      BY <1>2, <1>3, <1>4, <2>2, <2>k, AheadWithout
    <3> QED
      BY <3>3, <3>4
  <2>6. p = IF k = 1 THEN "none" ELSE table'[c][k - 1].v
    <3>1. CASE c = b
      <4>1. j = i + 1 /\ k = i
        BY <1>2, <2>2, <2>k, <3>1 DEF IsNext, Becomes
      <4>2. i # 1 => table'[b][i - 1] = table[b][i - 1]
        <5> SUFFICES ASSUME i # 1 PROVE table'[b][i - 1] = table[b][i - 1]
          OBVIOUS
        <5>1. /\ Len(table[b]) \in Nat /\ i - 1 \in 1 .. (Len(table[b]) - 1) /\ i - 1 < i
          BY <1>2, <1>3, EntryOfTable
        <5> QED
          BY <5>1, <1>2, <1>3, <1>4, WithoutIs
      <4> QED
        BY <3>1, <4>1, <4>2, <1>6
    <3>2. CASE c # b
      <4>1. k = 1
        BY <1>2, <2>2, <2>k, <3>2 DEF IsNext, Becomes
      <4> QED
        BY <3>2, <4>1
    <3> QED
      BY <3>1, <3>2
  <2>7. c \in DOMAIN table' /\ k \in DOMAIN table'[c] /\ k \in Nat
    BY <1>3, <1>5, <2>5, EntryOfTable
  <2>8. p \in Value \cup {"none"}
    BY <1>6
  <2> HIDE DEF v, p
  <2>9. itr' \in [e : Value \cup {"none"}, parent : Value \cup {"none"}, index : 0 .. n]
    BY <1>3, <2>3, <2>4, <2>8
  <2> HIDE DEF n, b
  <2>10. itr'.e = v /\ itr'.parent = p /\ itr'.index = c /\ visited' = Append(visited, v)
    BY <1>1, <2>3, <2>4
  <2>11. Between(k)'
    <3>1. StandsOn(k)'
      BY <2>5, <2>6, <2>7, <2>10 DEF StandsOn
    <3> QED
      BY <1>1, <2>3, <2>5, <2>10, <3>1 DEF Between
  <2>12. itr' # NoItr
    BY <2>3, <2>10 DEF NoItr
  <2> QED
    BY <2>3, <2>7, <2>9, <2>10, <2>11, <2>12 DEF Walk
<1> QED
  BY <1>2, <1>7, <1>8 DEF Leads

(* Every step keeps the invariant.                                         *)
LEMMA StepInv == IInv /\ [Next]_vars => IInv'
<1> SUFFICES ASSUME IInv, [Next]_vars PROVE IInv'
  OBVIOUS
<1>1. ASSUME NEW k \in Stored, NEW v \in Value, InsertPlanB(k, v) PROVE IInv'
  BY <1>1, CrashInv
<1>2. ASSUME NEW k \in Stored, NEW v \in Value, NEW a \in BOOLEAN, Insert(k, v, a) PROVE IInv'
  BY <1>2, InsertInv
<1>3. ASSUME NEW k \in Key, Search(k) PROVE IInv'
  BY <1>3, SearchInv
<1>4. ASSUME NEW k \in Key, RemoveKey(k) PROVE IInv'
  BY <1>4, RemoveKeyInv
<1>5. CASE IterStart
  BY <1>5, IterStartInv
<1>6. CASE IterAdvance
  BY <1>6, IterAdvanceInv
<1>7. CASE IterRemove
  BY <1>7, IterRemoveInv
<1>8. CASE IterFree
  BY <1>8, IterFreeInv
<1>9. CASE Destroy
  BY <1>9, DestroyInv
<1>10. CASE UNCHANGED vars
  BY <1>10 DEF vars, IInv, TypeOK, Counted, Walk, Between, StandsOn, tablelength
<1> QED
  BY <1>1, <1>2, <1>3, <1>4, <1>5, <1>6, <1>7, <1>8, <1>9, <1>10, Zenon DEF Next

(* The inductive invariant holds in every reachable state.                 *)
THEOREM Inductive == Spec => []IInv
BY InitInv, StepInv, PTL DEF Spec

(* Every entry is in the chain that a search for its key looks through, in *)
(* one place only, and is counted, whatever has been inserted, refused,    *)
(* expanded and removed (hashtable.c).                                     *)
THEOREM WellPlacedHolds == Spec => []WellPlaced
<1>1. IInv => WellPlaced
  BY Sizes DEF IInv, WellPlaced, Sound, Counted
<1> QED
  BY <1>1, Inductive, PTL

(* A walk stands on no entry twice, on none that was not there when it     *)
(* began, and at its end has stood on all of them, whichever it removed.   *)
THEOREM WalkIsCompleteHolds == Spec => []WalkIsComplete
<1>1. IInv => WalkIsComplete
  BY NothingVisited DEF IInv, Walk, WalkIsComplete, Between, NoItr
<1> QED
  BY <1>1, Inductive, PTL

----------------------------------------------------------------------------
(* The table implements the collection that hashtable.h promises. *)

PairsOf(t) == {<<e.k, e.v>> : e \in Entries(t)}

(* The pairs of the collection are those of the entries, before and after. *)
LEMMA PairsAre == Pairs = PairsOf(table) /\ Pairs' = PairsOf(table')
BY DEF Pairs, PairsOf, Entries

(* A search finds something when there is something to find, and nothing   *)
(* else.                                                                   *)
LEMMA FoundIs ==
  ASSUME IInv, NEW k \in Key
  PROVE  \/ FirstMatch(k) = 0 /\ Map!Found(k) = {}
         \/ /\ FirstMatch(k) # 0
            /\ <<table[Chain(k)][FirstMatch(k)].k, table[Chain(k)][FirstMatch(k)].v>> \in Map!Found(k)
            /\ Map!Found(k) # {}
<1> DEFINE n == tablelength
<1>1. n \in Nat \ {0} /\ table \in Tables(n) /\ Sound(table, n)
  BY Sizes DEF IInv
<1>2. Chain(k) \in 0 .. (n - 1)
  BY FirstMatchIs DEF IInv
<1>3. Chain(k) = indexFor(n, HashOf[k])
  BY DEF Chain
<1> HIDE DEF n
<1>4. Map!Found(k) = {p \in PairsOf(table) : Match(k, p[1])}
  BY PairsAre DEF Map!Found
<1>5. CASE FirstMatch(k) = 0
  <2>1. \A i \in 1 .. Len(table[Chain(k)]) : ~ Match(k, table[Chain(k)][i].k)
    BY <1>5, FirstMatchIs DEF IInv
  <2>2. ASSUME NEW p \in Map!Found(k) PROVE FALSE
    <3>1. PICK e \in Entries(table) : p = <<e.k, e.v>>
      BY <1>4 DEF PairsOf
    <3>2. Match(k, e.k)
      BY <1>4, <3>1
    <3>3. PICK b \in 0 .. (n - 1) : \E i \in 1 .. Len(table[b]) : e = table[b][i]
      BY <1>1, EntryOfTable
    <3>4. PICK i \in 1 .. Len(table[b]) : e = table[b][i]
      BY <3>3
    <3>5. e.h = HashOf[e.k] /\ b = indexFor(n, e.h)
      <4>1. i \in DOMAIN table[b]
        BY <1>1, EntryOfTable
      <4>2. table[b][i].h = HashOf[table[b][i].k] /\ b = indexFor(n, table[b][i].h)
        BY <1>1, <4>1, SoundAt
      <4> QED
        BY <3>4, <4>2
    <3>6. b = Chain(k)
      BY <1>3, <3>2, <3>5 DEF Match
    <3> QED
      BY <2>1, <3>2, <3>4, <3>6
  <2> QED
    BY <1>5, <2>2
<1>6. CASE FirstMatch(k) # 0
  <2> DEFINE b == Chain(k)
             i == FirstMatch(k)
  <2>1. b \in 0 .. (n - 1) /\ i \in 1 .. Len(table[b]) /\ Match(k, table[b][i].k)
    BY <1>2, <1>6, FirstMatchIs DEF IInv
  <2> HIDE DEF b, i
  <2>2. table[b][i] \in Entries(table)
    BY <1>1, <2>1, EntryOfTable
  <2>3. <<table[b][i].k, table[b][i].v>> \in Map!Found(k)
    BY <1>4, <2>1, <2>2 DEF PairsOf
  <2> QED
    BY <1>6, <2>3 DEF b, i
<1> QED
  BY <1>5, <1>6

(* Taking an entry out takes its pair out, and no other.                   *)
LEMMA PairsWithout ==
  ASSUME NEW n \in Nat \ {0}, NEW t \in Tables(n), Sound(t, n),
         NEW b \in 0 .. (n - 1), NEW i \in 1 .. Len(t[b])
  PROVE  /\ <<t[b][i].k, t[b][i].v>> \in PairsOf(t)
         /\ PairsOf(Without(t, b, i)) = PairsOf(t) \ {<<t[b][i].k, t[b][i].v>>}
<1> DEFINE u == Without(t, b, i)
           x == t[b][i]
<1>1. Entries(u) = Entries(t) \ {x} /\ \A e \in Entries(t) \ {x} : e.v # x.v
  BY WithoutKeeps
<1>2. x \in Entries(t)
  BY EntryOfTable
<1> HIDE DEF u, x
<1>3. \A e \in Entries(t) \ {x} : <<e.k, e.v>> # <<x.k, x.v>>
  BY <1>1
<1>4. <<x.k, x.v>> \in PairsOf(t) /\ PairsOf(u) = PairsOf(t) \ {<<x.k, x.v>>}
  BY <1>1, <1>2, <1>3 DEF PairsOf
<1> QED
  BY <1>4 DEF u, x

(* An empty table is an empty collection.                                  *)
LEMMA InitRefines == Init => Map!Init
<1> SUFFICES ASSUME Init PROVE Map!Init
  OBVIOUS
<1>1. Pairs = {}
  BY DEF Init, Pairs, ToSet
<1> QED
  BY <1>1 DEF Init, Map!Init

(* hashtable_insert adds its pair to the collection, or fails.             *)
LEMMA InsertRefines ==
  ASSUME IInv, NEW k \in Stored, NEW v \in Value, NEW a \in BOOLEAN, Insert(k, v, a)
  PROVE  Map!Insert(k, v)
<1>1. Values(Grown) = Values(table) /\ Entries(Grown) = Entries(table)
  BY GrownIs DEF Insert
<1>2. state = "open" /\ state' = "open" /\ call' = <<"insert", k>>
  BY DEF Insert
<1>3. CASE /\ Entries(table') = Entries(table) \cup {EntryFor(k, v)} /\ result' = "inserted"
  <2>1. Pairs' = Pairs \cup {<<k, v>>}
    <3> DEFINE e == EntryFor(k, v)
               T == Entries(table)
    <3>1. e.k = k /\ e.v = v
      BY DEF EntryFor
    <3> HIDE DEF e, T
    <3>2. {<<x.k, x.v>> : x \in T \cup {e}} = {<<x.k, x.v>> : x \in T} \cup {<<e.k, e.v>>}
      OBVIOUS
    <3>3. PairsOf(table') = PairsOf(table) \cup {<<k, v>>}
      BY <1>3, <3>1, <3>2 DEF PairsOf, e, T
    <3> QED
      BY <3>3, PairsAre
  <2> QED
    BY <1>2, <1>3, <2>1 DEF Map!Insert
<1>4. CASE table' = Grown /\ result' = "failed"
  <2>1. Pairs' = Pairs
    BY <1>1, <1>4, PairsAre DEF PairsOf
  <2> QED
    BY <1>2, <1>4, <2>1 DEF Map!Insert
<1> QED
  BY <1>3, <1>4, InsertLinks

(* hashtable_search returns a match of the collection, or NULL for none.   *)
LEMMA SearchRefines ==
  ASSUME IInv, NEW k \in Key, Search(k)
  PROVE  Map!Search(k)
<1>1. state = "open" /\ call' = <<"search", k>> /\ UNCHANGED <<table, state>>
  BY DEF Search
<1>2. Pairs' = Pairs
  BY <1>1, PairsAre
<1>3. CASE FirstMatch(k) = 0 /\ Map!Found(k) = {}
  BY <1>1, <1>2, <1>3 DEF Search, Map!Search
<1>4. CASE /\ FirstMatch(k) # 0
           /\ <<table[Chain(k)][FirstMatch(k)].k, table[Chain(k)][FirstMatch(k)].v>> \in Map!Found(k)
           /\ Map!Found(k) # {}
  <2>1. result' = table[Chain(k)][FirstMatch(k)].v
    BY <1>4 DEF Search
  <2>2. \E p \in Map!Found(k) : result' = p[2]
    BY <1>4, <2>1
  <2> QED
    BY <1>1, <1>2, <1>4, <2>2 DEF Map!Search
<1> QED
  BY <1>3, <1>4, FoundIs

(* hashtable_remove takes a match out of the collection.                   *)
LEMMA RemoveKeyRefines ==
  ASSUME IInv, NEW k \in Key, RemoveKey(k)
  PROVE  Map!Remove(k)
<1> DEFINE n == tablelength
<1>1. state = "open" /\ call' = <<"remove", k>> /\ state' = state
  BY DEF RemoveKey
<1>2. n \in Nat \ {0} /\ table \in Tables(n) /\ Sound(table, n) /\ Chain(k) \in 0 .. (n - 1)
  BY Sizes, FirstMatchIs DEF IInv
<1> HIDE DEF n
<1>3. CASE FirstMatch(k) = 0 /\ Map!Found(k) = {}
  <2>1. table' = table /\ result' = "null"
    BY <1>3 DEF RemoveKey
  <2> QED
    BY <1>1, <1>3, <2>1, PairsAre DEF Map!Remove
<1>4. CASE /\ FirstMatch(k) # 0
           /\ <<table[Chain(k)][FirstMatch(k)].k, table[Chain(k)][FirstMatch(k)].v>> \in Map!Found(k)
  <2> DEFINE b == Chain(k)
             i == FirstMatch(k)
             p == <<table[b][i].k, table[b][i].v>>
  <2>1. /\ i \in 1 .. Len(table[b]) /\ b \in 0 .. (n - 1)
        /\ table' = Without(table, b, i) /\ result' = table[b][i].v
        /\ p \in Map!Found(k)
    BY <1>2, <1>4, RemoveKeyIs
  <2> HIDE DEF b, i
  <2>2. PairsOf(Without(table, b, i)) = PairsOf(table) \ {p}
    BY <1>2, <2>1, PairsWithout
  <2>3. Pairs' = Pairs \ {p} /\ result' = p[2]
    BY <2>1, <2>2, PairsAre
  <2> HIDE DEF p
  <2> QED
    BY <1>1, <2>1, <2>3 DEF Map!Remove
<1> QED
  BY <1>3, <1>4, FoundIs

(* hashtable_iterator_remove takes one pair out of the collection.         *)
LEMMA IterRemoveRefines ==
  ASSUME IInv, IterRemove
  PROVE  Map!RemoveCurrent
<1> DEFINE n == tablelength
           b == itr.index
<1>1. n \in Nat \ {0} /\ table \in Tables(n) /\ Sound(table, n)
  BY Sizes DEF IInv
<1>2. PICK i \in 1 .. Len(table[b]) : Between(i) /\ b \in 0 .. (n - 1)
  BY OnTheWay DEF IterRemove
<1>3. table' = Without(table, b, i)
  BY <1>2, IterRemoveIs
<1> DEFINE p == <<table[b][i].k, table[b][i].v>>
<1> HIDE DEF n, b
<1>4. p \in PairsOf(table) /\ PairsOf(table') = PairsOf(table) \ {p}
  BY <1>1, <1>2, <1>3, PairsWithout
<1> HIDE DEF p
<1> QED
  BY <1>4, PairsAre DEF IterRemove, Map!RemoveCurrent

(* Every step of the table is one of the collection, or changes nothing of *)
(* it.                                                                     *)
LEMMA StepRefines ==
  ASSUME IInv, [Next]_vars
  PROVE  [Map!Next]_<<Pairs, call, result, state>>
<1> USE KeyAssumption
<1>1. ASSUME NEW k \in Stored, NEW v \in Value, InsertPlanB(k, v) PROVE Map!Crash
  BY <1>1, PairsAre DEF InsertPlanB, Map!Crash
<1>2. ASSUME NEW k \in Stored, NEW v \in Value, NEW a \in BOOLEAN, Insert(k, v, a) PROVE Map!Insert(k, v)
  BY <1>2, InsertRefines
<1>3. ASSUME NEW k \in Key, Search(k) PROVE Map!Search(k)
  BY <1>3, SearchRefines
<1>4. ASSUME NEW k \in Key, RemoveKey(k) PROVE Map!Remove(k)
  BY <1>4, RemoveKeyRefines
<1>5. CASE IterStart \/ IterAdvance \/ IterFree
  BY <1>5, PairsAre DEF IterStart, IterAdvance, IterFree
<1>6. CASE IterRemove
  BY <1>6, IterRemoveRefines DEF Map!Next
<1>7. CASE Destroy
  <2>1. Pairs' = {}
    BY <1>7 DEF Destroy, Pairs, ToSet
  <2> QED
    BY <1>7, <2>1 DEF Destroy, Map!Destroy, Map!Next
<1>8. CASE UNCHANGED vars
  BY <1>8, PairsAre DEF vars
<1>9. \A k \in Stored : k \in Key
  OBVIOUS
<1> QED
  BY <1>1, <1>2, <1>3, <1>4, <1>5, <1>6, <1>7, <1>8, <1>9, Zenon DEF Next, Map!Next

(* Whatever the table does by chains, sizes and links is what a collection *)
(* of pairs does: insert a pair or fail, find a pair that matches when     *)
(* there is one, remove one pair and no other (hashtable.h).               *)
THEOREM TableIsMap == Spec => RefinesMap
BY InitRefines, StepRefines, Inductive, PTL DEF Spec, RefinesMap, Map!Spec

=============================================================================
