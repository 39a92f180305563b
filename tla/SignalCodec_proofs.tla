------------------------- MODULE SignalCodec_proofs -------------------------
(***************************************************************************)
(* Proofs about SignalCodec for every layout that fits into the payload:   *)
(* the decoders read what the drawing defines, and a value that was        *)
(* written is read until it is written again.                              *)
(***************************************************************************)
EXTENDS SignalCodec, WellFoundedInduction, TLAPS

-----------------------------------------------------------------------------
(* Induction. *)

(* A non-empty set of natural numbers has a least element.                 *)
LEMMA LeastNumber ==
  ASSUME NEW T, T \subseteq Nat, T # {}
  PROVE  \E n \in T : \A m \in T : n <= m
<1>1. \E n \in T : \A m \in T : ~ (<<m, n>> \in OpToRel(<, Nat))
  BY NatLessThanWellFounded, WFMin, Zenon
<1>2. PICK n \in T : \A m \in T : ~ (<<m, n>> \in OpToRel(<, Nat))
  BY <1>1
<1>3. ASSUME NEW m \in T PROVE n <= m
  <2>1. ~ (<<m, n>> \in {ss \in Nat \X Nat : ss[1] < ss[2]})
    BY <1>2 DEF OpToRel
  <2> QED
    BY <2>1
<1> QED
  BY <1>3

(* A set that has 0 and with each number the next one has all up to n.     *)
LEMMA UpTo ==
  ASSUME NEW n \in Nat, NEW S, 0 \in S, \A k \in 1 .. n : k - 1 \in S => k \in S
  PROVE  \A k \in 0 .. n : k \in S
<1> SUFFICES ASSUME NEW j \in 0 .. n, j \notin S PROVE FALSE
  OBVIOUS
<1> DEFINE Bad == {k \in 0 .. n : k \notin S}
<1>1. PICK k \in Bad : \A m \in Bad : k <= m
  <2>1. Bad \subseteq Nat /\ j \in Bad
    OBVIOUS
  <2> HIDE DEF Bad
  <2> QED
    BY <2>1, LeastNumber
<1>2. k \in 1 .. n /\ k - 1 \in 0 .. n
  OBVIOUS
<1>3. k - 1 \in S
  BY <1>1, <1>2
<1> QED
  BY <1>2, <1>3

(* f gives the value of D after each of n rounds.                          *)
Run(f, D, a, n, step) ==
  f \in [0 .. n -> D] /\ f[0] = a /\ \A k \in 1 .. n : f[k] = step[k][f[k - 1]]

(* A loop of n rounds, each of which turns a value of D into another: there*)
(* is a function that gives the value after each round.                    *)
LEMMA Rounds ==
  ASSUME NEW D, NEW a \in D, NEW n \in Nat, NEW step \in [1 .. n -> [D -> D]]
  PROVE  \E f : Run(f, D, a, n, step)
<1> DEFINE Upto(m, f) ==
             f \in [0 .. n -> D] /\ f[0] = a /\ \A k \in 1 .. m : f[k] = step[k][f[k - 1]]
           S == {m \in 0 .. n : \E f : Upto(m, f)}
<1>1. 0 \in S
  <2> DEFINE f == [k \in 0 .. n |-> a]
  <2>1. f \in [0 .. n -> D] /\ f[0] = a /\ 0 \in 0 .. n
    OBVIOUS
  <2> HIDE DEF f
  <2>2. Upto(0, f)
    BY <2>1
  <2> QED
    BY <2>1, <2>2, Zenon
<1>2. ASSUME NEW m \in 1 .. n, m - 1 \in S PROVE m \in S
  <2>1. PICK f : Upto(m - 1, f)
    BY <1>2
  <2> DEFINE g == [f EXCEPT ![m] = step[m][f[m - 1]]]
  <2>2. f \in [0 .. n -> D] /\ m - 1 \in 0 .. n /\ f[m - 1] \in D /\ m \in 0 .. n
    BY <2>1
  <2>3. step[m][f[m - 1]] \in D
    BY <2>2
  <2>4. g \in [0 .. n -> D] /\ g[0] = a
    BY <2>1, <2>2, <2>3
  <2>5. ASSUME NEW k \in 1 .. m PROVE g[k] = step[k][g[k - 1]]
    <3>1. k - 1 \in 0 .. n /\ k \in 0 .. n /\ k - 1 # m /\ g[k - 1] = f[k - 1]
      BY <2>2
    <3>2. CASE k = m
      BY <3>1, <3>2, <2>2
    <3>3. CASE k # m
      <4>1. k \in 1 .. (m - 1) /\ g[k] = f[k]
        BY <3>1, <3>3, <2>2
      <4> QED
        BY <4>1, <3>1, <2>1
    <3> QED
      BY <3>2, <3>3
  <2> HIDE DEF g
  <2>6. Upto(m, g)
    BY <2>4, <2>5
  <2> QED
    BY <2>2, <2>6, Zenon
<1>3. n \in S
  <2> HIDE DEF S
  <2>1. \A k \in 0 .. n : k \in S
    BY <1>1, <1>2, UpTo
  <2> QED
    BY <2>1
<1> QED
  BY <1>3 DEF Run

(* Two loops that go on alike once they have agreed agree in every round.  *)
Alike(n, a, g) == a[0] = g[0] /\ \A k \in 1 .. n : a[k - 1] = g[k - 1] => a[k] = g[k]

LEMMA Agree ==
  ASSUME NEW n \in Nat, NEW a, NEW g, Alike(n, a, g)
  PROVE  \A k \in 0 .. n : a[k] = g[k]
<1> DEFINE S == {k \in 0 .. n : a[k] = g[k]}
<1>1. 0 \in S /\ \A k \in 1 .. n : k - 1 \in S => k \in S
  BY DEF Alike
<1>2. \A k \in 0 .. n : k \in S
  <2> HIDE DEF S
  <2> QED
    BY <1>1, UpTo
<1> QED
  BY <1>2

-----------------------------------------------------------------------------
(* Division by eight. *)

LEMMA DivideByEight ==
  ASSUME NEW x \in Int
  PROVE  \E q \in Int, r \in 0 .. 7 : x \div 8 = q /\ x % 8 = r /\ x = 8 * q + r
<1>1. x \div 8 \in Int /\ x % 8 \in 0 .. 7
  OBVIOUS
<1>2. x % 8 = x - 8 * (x \div 8)
  BY Z3
<1>3. PICK q \in Int, r \in 0 .. 7 : x \div 8 = q /\ x % 8 = r
  BY <1>1, Zenon
<1>4. x = 8 * q + r
  <2>1. r = x - 8 * q
    BY <1>2, <1>3, Zenon
  <2> QED
    BY <2>1
<1> QED
  BY <1>3, <1>4

LEMMA EightsAndRest ==
  ASSUME NEW x \in Int, NEW q \in Int, NEW r \in 0 .. 7, x = 8 * q + r
  PROVE  x \div 8 = q /\ x % 8 = r
OBVIOUS

LEMMA ForwardPlace ==
  ASSUME NEW sb \in Int, NEW c \in Int, NEW x \in Int, NEW y \in Int, NEW j \in Int,
         x + c = 8 * (j - 1) + y
  PROVE  (8 * sb + c) + x = 8 * (sb + j - 1) + y
OBVIOUS

LEMMA BackwardPlace ==
  ASSUME NEW sb \in Int, NEW c \in Int, NEW x \in Int, NEW y \in Int, NEW j \in Int,
         NEW n \in Int, NEW so \in Int, NEW len \in Int,
         x + c = 8 * (j - 1) + y, len = 8 * (n - 1) + so - c + 1
  PROVE  8 * sb + 7 - so + (len - 1 - x) = 8 * (sb + n - j) + (7 - y)
OBVIOUS

LEMMA InShr ==
  ASSUME NEW S, S \subseteq Int, NEW k \in Int, NEW x
  PROVE  x \in Shr(S, k) <=> x \in Nat /\ x + k \in S
BY DEF Shr

LEMMA InShl ==
  ASSUME NEW S, S \subseteq Int, NEW k \in Nat, NEW x \in Int
  PROVE  x \in Shl(S, k) <=> x - k \in S
BY DEF Shl

-----------------------------------------------------------------------------
(* The geometry: a signal seen from its least significant bit. *)

Layout == {s \in Signal : s.len < 32}

(* The bits of the payload before those of byte j, from the low end.       *)
Base(s, j) ==
  IF j = 1 THEN 0 ELSE IF j = Touched(s) + 1 THEN s.len ELSE 8 * (j - 1) - lowOffset(s)
Width(s, j) == Base(s, j + 1) - Base(s, j)

(* The offsets of the first and the last bit of the signal in byte j, and  *)
(* all bits of the signal there.                                           *)
Rotation(s, j) == IF j = 1 THEN lowOffset(s) ELSE 0
LastBit(s, j)  == IF j = Touched(s) THEN topOffset(s) ELSE 7
Own(s, j)      == Rotation(s, j) .. LastBit(s, j)

(* The bits between the two ends fill the bytes between them.              *)
LEMMA Geometry ==
  ASSUME NEW s \in Layout
  PROVE  /\ s.len \in 1 .. 31 /\ s.start \in Nat /\ s.big \in BOOLEAN /\ s.signed \in BOOLEAN
         /\ startByte(s) \in Nat /\ startOffset(s) \in 0 .. 7 /\ s.start = 8 * startByte(s) + startOffset(s)
         /\ Touched(s) \in Nat \ {0} /\ endByte(s) = startByte(s) + Touched(s) - 1
         /\ lowOffset(s) \in 0 .. 7 /\ topOffset(s) \in 0 .. 7
         /\ s.len = 8 * (Touched(s) - 1) + topOffset(s) - lowOffset(s) + 1
<1>1. s.len \in 1 .. 31 /\ s.start \in Nat /\ s.big \in BOOLEAN /\ s.signed \in BOOLEAN
  BY DEF Layout, Signal
<1> DEFINE sb == startByte(s)
           so == startOffset(s)
<1>2. sb \in Int /\ so \in 0 .. 7 /\ s.start = 8 * sb + so
  BY <1>1, DivideByEight DEF startByte, startOffset
<1> HIDE DEF sb, so
<1>3. sb \in Nat
  BY <1>1, <1>2
<1>4. CASE s.big
  <2> DEFINE x == 7 + s.len - so - 1
  <2>0. x \in Int /\ x >= 0
    BY <1>1, <1>2
  <2>1. PICK q \in Int, r \in 0 .. 7 : x \div 8 = q /\ x % 8 = r /\ x = 8 * q + r
    BY <2>0, DivideByEight
  <2>2. q \in Nat
    BY <2>0, <2>1
  <2>3. endByte(s) = sb + q /\ Touched(s) = q + 1
    BY <1>2, <1>3, <1>4, <2>1, <2>2 DEF endByte, Touched, sb, so
  <2>4. endOffset(s) = 7 - r
    <3>1. so - s.len + 1 = 8 * (0 - q) + (7 - r)
      BY <1>1, <1>2, <2>1
    <3>0. so - s.len + 1 \in Int /\ 0 - q \in Int /\ 7 - r \in 0 .. 7
      BY <1>1, <1>2, <2>1
    <3>2. (so - s.len + 1) % 8 = 7 - r
      BY <3>0, <3>1, EightsAndRest
    <3> QED
      BY <1>4, <3>2 DEF endOffset, so
  <2>5. topOffset(s) = so /\ lowOffset(s) = 7 - r
    BY <1>4, <2>4 DEF topOffset, lowOffset, so
  <2>6. s.len = 8 * (Touched(s) - 1) + topOffset(s) - lowOffset(s) + 1
    BY <1>1, <1>2, <2>1, <2>3, <2>5
  <2>7. Touched(s) \in Nat \ {0} /\ endByte(s) = sb + Touched(s) - 1
    BY <1>3, <2>2, <2>3
  <2> QED
    BY <1>1, <1>2, <1>3, <2>1, <2>5, <2>6, <2>7 DEF sb, so
<1>5. CASE ~ s.big
  <2> DEFINE x == s.len + so - 1
  <2>0. x \in Int /\ x >= 0
    BY <1>1, <1>2
  <2>1. PICK q \in Int, r \in 0 .. 7 : x \div 8 = q /\ x % 8 = r /\ x = 8 * q + r
    BY <2>0, DivideByEight
  <2>2. q \in Nat
    BY <2>0, <2>1
  <2>3. endByte(s) = sb + q /\ Touched(s) = q + 1
    BY <1>2, <1>3, <1>5, <2>1, <2>2 DEF endByte, Touched, sb, so
  <2>4. endOffset(s) = r
    <3>1. so + s.len - 1 = x
      BY <1>1, <1>2
    <3> QED
      BY <1>5, <2>1, <3>1 DEF endOffset, so
  <2>5. topOffset(s) = r /\ lowOffset(s) = so
    BY <1>5, <2>4 DEF topOffset, lowOffset, so
  <2>6. s.len = 8 * (Touched(s) - 1) + topOffset(s) - lowOffset(s) + 1
    BY <1>1, <1>2, <2>1, <2>3, <2>5
  <2>7. Touched(s) \in Nat \ {0} /\ endByte(s) = sb + Touched(s) - 1
    BY <1>3, <2>2, <2>3
  <2> QED
    BY <1>1, <1>2, <1>3, <2>1, <2>5, <2>6, <2>7 DEF sb, so
<1> QED
  BY <1>1, <1>4, <1>5

(* The bytes that a signal touches, counted from the low end.              *)
LEMMA BytesOfSignal ==
  ASSUME NEW s \in Layout
  PROVE  /\ \A j \in 1 .. Touched(s) :
              /\ FromLow(s, j) \in startByte(s) .. endByte(s)
              /\ FromLow(s, j) = lowByte(s) <=> j = 1
              /\ FromLow(s, j) = topByte(s) <=> j = Touched(s)
              /\ FromTop(s, Touched(s) - j + 1) = FromLow(s, j)
              /\ Touched(s) - j + 1 \in 1 .. Touched(s)
              /\ \A i \in 1 .. Touched(s) : FromLow(s, i) = FromLow(s, j) => i = j
         /\ \A b \in startByte(s) .. endByte(s) : \E j \in 1 .. Touched(s) : b = FromLow(s, j)
<1> DEFINE n == Touched(s)
           sb == startByte(s)
           eb == endByte(s)
<1>1. n \in Nat \ {0} /\ sb \in Nat /\ eb = sb + n - 1 /\ s.big \in BOOLEAN
  BY Geometry
<1> HIDE DEF n, sb, eb
<1>2. CASE s.big
  <2>1. /\ \A j \in Int : FromLow(s, j) = eb - j + 1 /\ FromTop(s, j) = sb + j - 1
        /\ lowByte(s) = eb /\ topByte(s) = sb
    BY <1>2 DEF FromLow, FromTop, lowByte, topByte, eb, sb
  <2>2. \A b \in sb .. eb : eb - b + 1 \in 1 .. n /\ b = FromLow(s, eb - b + 1)
    BY <1>1, <2>1
  <2>3. ASSUME NEW j \in 1 .. n
        PROVE  /\ FromLow(s, j) \in sb .. eb
               /\ FromLow(s, j) = lowByte(s) <=> j = 1
               /\ FromLow(s, j) = topByte(s) <=> j = n
               /\ FromTop(s, n - j + 1) = FromLow(s, j)
               /\ n - j + 1 \in 1 .. n
               /\ \A i \in 1 .. n : FromLow(s, i) = FromLow(s, j) => i = j
    BY <1>1, <2>1
  <2> QED
    BY <2>2, <2>3 DEF n, sb, eb
<1>3. CASE ~ s.big
  <2>1. /\ \A j \in Int : FromLow(s, j) = sb + j - 1 /\ FromTop(s, j) = eb - j + 1
        /\ lowByte(s) = sb /\ topByte(s) = eb
    BY <1>3 DEF FromLow, FromTop, lowByte, topByte, eb, sb
  <2>2. \A b \in sb .. eb : b - sb + 1 \in 1 .. n /\ b = FromLow(s, b - sb + 1)
    BY <1>1, <2>1
  <2>3. ASSUME NEW j \in 1 .. n
        PROVE  /\ FromLow(s, j) \in sb .. eb
               /\ FromLow(s, j) = lowByte(s) <=> j = 1
               /\ FromLow(s, j) = topByte(s) <=> j = n
               /\ FromTop(s, n - j + 1) = FromLow(s, j)
               /\ n - j + 1 \in 1 .. n
               /\ \A i \in 1 .. n : FromLow(s, i) = FromLow(s, j) => i = j
    BY <1>1, <2>1
  <2> QED
    BY <2>2, <2>3 DEF n, sb, eb
<1> QED
  BY <1>1, <1>2, <1>3

(* How many bits each byte has, and where they are in it.                  *)
LEMMA BitsOfByte ==
  ASSUME NEW s \in Layout, NEW j \in 1 .. Touched(s)
  PROVE  /\ Base(s, j) \in Nat /\ Width(s, j) \in 1 .. 8 /\ Base(s, j + 1) = Base(s, j) + Width(s, j)
         /\ Base(s, 1) = 0 /\ Base(s, Touched(s) + 1) = s.len /\ Base(s, j + 1) <= s.len
         /\ Rotation(s, j) \in 0 .. 7 /\ LastBit(s, j) \in 0 .. 7
         /\ Width(s, j) = LastBit(s, j) - Rotation(s, j) + 1
<1> DEFINE n == Touched(s)
           c == lowOffset(s)
           t == topOffset(s)
<1>1. n \in Nat \ {0} /\ c \in 0 .. 7 /\ t \in 0 .. 7 /\ s.len \in 1 .. 31 /\ s.len = 8 * (n - 1) + t - c + 1
  BY Geometry
<1>2. /\ Base(s, j) = IF j = 1 THEN 0 ELSE 8 * (j - 1) - c
      /\ Base(s, j + 1) = IF j = n THEN s.len ELSE 8 * j - c
      /\ Base(s, 1) = 0 /\ Base(s, n + 1) = s.len
      /\ Rotation(s, j) = IF j = 1 THEN c ELSE 0
      /\ LastBit(s, j) = IF j = n THEN t ELSE 7
      /\ j \in 1 .. n
  <2>1. /\ \A i : Base(s, i) = IF i = 1 THEN 0 ELSE IF i = n + 1 THEN s.len ELSE 8 * (i - 1) - c
        /\ j \in 1 .. n /\ Rotation(s, j) = IF j = 1 THEN c ELSE 0
        /\ LastBit(s, j) = IF j = n THEN t ELSE 7
    BY DEF Base, Rotation, LastBit
  <2> HIDE DEF n, c, t
  <2>2. j + 1 # 1 /\ (j + 1 = n + 1 <=> j = n) /\ j # n + 1 /\ n + 1 # 1 /\ j + 1 - 1 = j
    BY <1>1, <2>1
  <2> QED
    BY <2>1, <2>2
<1>3. Width(s, j) = Base(s, j + 1) - Base(s, j)
  BY DEF Width
<1> HIDE DEF n, c, t
<1>4. /\ Base(s, j) \in Nat /\ Width(s, j) \in 1 .. 8 /\ Base(s, j + 1) = Base(s, j) + Width(s, j)
      /\ Base(s, j + 1) <= s.len /\ Rotation(s, j) \in 0 .. 7 /\ LastBit(s, j) \in 0 .. 7
      /\ Width(s, j) = LastBit(s, j) - Rotation(s, j) + 1
  BY <1>1, <1>2, <1>3
<1> QED
  BY <1>2, <1>4 DEF n

(* The drawing: the bits from Base on are in byte j, in their order.       *)
LEMMA WhereBitsAre ==
  ASSUME NEW s \in Layout, NEW j \in 1 .. Touched(s),
         NEW x \in Base(s, j) .. (Base(s, j + 1) - 1)
  PROVE  Where(s, x) = <<FromLow(s, j), x - Base(s, j) + Rotation(s, j)>>
<1> DEFINE n == Touched(s)
           c == lowOffset(s)
           t == topOffset(s)
           sb == startByte(s)
           y == x - Base(s, j) + Rotation(s, j)
<1>1. /\ n \in Nat \ {0} /\ c \in 0 .. 7 /\ t \in 0 .. 7 /\ s.len \in 1 .. 31
      /\ s.len = 8 * (n - 1) + t - c + 1
      /\ sb \in Nat /\ startOffset(s) \in 0 .. 7 /\ s.start = 8 * sb + startOffset(s)
      /\ endByte(s) = sb + n - 1 /\ j \in 1 .. n /\ s.big \in BOOLEAN
  BY Geometry
<1>2. x \in Int /\ y \in 0 .. 7 /\ x + c = 8 * (j - 1) + y
  <2>1. Base(s, j) \in Nat /\ Width(s, j) \in 1 .. 8 /\ Base(s, j + 1) = Base(s, j) + Width(s, j) /\ Rotation(s, j) \in 0 .. 7
    BY BitsOfByte
  <2>2. Base(s, j) - Rotation(s, j) = 8 * (j - 1) - c
    <3>1. Base(s, j) = IF j = 1 THEN 0 ELSE IF j = n + 1 THEN s.len ELSE 8 * (j - 1) - c
      BY DEF Base
    <3>2. Rotation(s, j) = IF j = 1 THEN c ELSE 0
      BY DEF Rotation
    <3> HIDE DEF n, c, t
    <3>3. j # n + 1
      BY <1>1
    <3> QED
      BY <1>1, <3>1, <3>2, <3>3
  <2>3. x \in Int /\ y \in Int /\ y - Rotation(s, j) \in 0 .. (Width(s, j) - 1)
    BY <2>1
  <2>4. LastBit(s, j) \in 0 .. 7 /\ Width(s, j) = LastBit(s, j) - Rotation(s, j) + 1
    BY BitsOfByte
  <2>5. y \in 0 .. 7
    BY <2>1, <2>3, <2>4
  <2>6. x = y + (Base(s, j) - Rotation(s, j))
    BY <2>1, <2>3
  <2>7. x = y + (8 * (j - 1) - c)
    BY <2>2, <2>6, Zenon
  <2> HIDE DEF n, c, t, sb, y
  <2>8. x + c = 8 * (j - 1) + y
    BY <1>1, <2>5, <2>7
  <2> QED
    BY <2>3, <2>5, <2>8
<1> HIDE DEF n, c, t, sb, y
<1>3. CASE ~ s.big
  <2>1. c = startOffset(s) /\ FromLow(s, j) = sb + j - 1
    BY <1>3 DEF lowOffset, FromLow, c, sb
  <2>2. s.start + x = 8 * (sb + j - 1) + y
    <3>1. s.start = 8 * sb + c
      BY <1>1, <2>1
    <3>2. (8 * sb + c) + x = 8 * (sb + j - 1) + y
      <4>1. sb \in Int /\ c \in Int /\ y \in Int /\ j \in Int
        BY <1>1, <1>2
      <4> QED
        BY <4>1, <1>2, ForwardPlace
    <3> QED
      BY <3>1, <3>2, Zenon
  <2>4. s.start + x \in Int /\ sb + j - 1 \in Int
    BY <1>1, <1>2
  <2>3. (s.start + x) \div 8 = sb + j - 1 /\ (s.start + x) % 8 = y
    BY <1>2, <2>2, <2>4, EightsAndRest
  <2> QED
    BY <1>3, <2>1, <2>3 DEF Where, y
<1>4. CASE s.big
  <2> DEFINE back == 8 * sb + 7 - startOffset(s) + (s.len - 1 - x)
             e == endByte(s) - j + 1
  <2>1. t = startOffset(s) /\ FromLow(s, j) = e
    BY <1>4 DEF topOffset, FromLow, t
  <2>2. back = 8 * e + (7 - y)
    <3>1. s.len = 8 * (n - 1) + startOffset(s) - c + 1 /\ e = sb + n - j
      BY <1>1, <2>1
    <3>2. 8 * sb + 7 - startOffset(s) + (s.len - 1 - x) = 8 * (sb + n - j) + (7 - y)
      <4>1. /\ sb \in Int /\ c \in Int /\ y \in Int /\ j \in Int /\ n \in Int
            /\ startOffset(s) \in Int /\ s.len \in Int
        BY <1>1, <1>2
      <4> QED
        BY <4>1, <1>2, <3>1, BackwardPlace
    <3> QED
      BY <3>1, <3>2, Zenon
  <2>3. back \in Int /\ e \in Int /\ 7 - y \in 0 .. 7
    BY <1>1, <1>2
  <2> HIDE DEF back, e
  <2>4. back \div 8 = e /\ back % 8 = 7 - y
    BY <2>2, <2>3, EightsAndRest
  <2>5. 7 - (7 - y) = y
    BY <1>2
  <2>6. Where(s, x) = <<back \div 8, 7 - (back % 8)>>
    BY <1>4 DEF Where, back, sb
  <2> QED
    BY <2>1, <2>4, <2>5, <2>6 DEF y
<1> QED
  BY <1>1, <1>3, <1>4

(* Every bit of the signal is in one of the bytes.                         *)
LEMMA ByteOfBit ==
  ASSUME NEW s \in Layout, NEW x \in 0 .. (s.len - 1)
  PROVE  \E j \in 1 .. Touched(s) : x \in Base(s, j) .. (Base(s, j + 1) - 1)
<1> DEFINE n == Touched(s)
           c == lowOffset(s)
           t == topOffset(s)
<1>1. n \in Nat \ {0} /\ c \in 0 .. 7 /\ t \in 0 .. 7 /\ s.len \in 1 .. 31 /\ s.len = 8 * (n - 1) + t - c + 1
  BY Geometry
<1>2. \A i : Base(s, i) = IF i = 1 THEN 0 ELSE IF i = n + 1 THEN s.len ELSE 8 * (i - 1) - c
  BY DEF Base
<1> HIDE DEF n, c, t
<1>3. x + c \in Int /\ x \in Nat /\ x < s.len
  BY <1>1
<1>4. PICK q \in Int, r \in 0 .. 7 : x + c = 8 * q + r
  BY <1>3, DivideByEight
<1>5. q + 1 \in 1 .. n
  BY <1>1, <1>3, <1>4
<1>6. /\ Base(s, q + 1) = IF q = 0 THEN 0 ELSE 8 * q - c
      /\ Base(s, q + 1 + 1) = IF q + 1 = n THEN s.len ELSE 8 * (q + 1) - c
  <2>1. (q + 1 = 1 <=> q = 0) /\ q + 1 # n + 1 /\ q + 1 + 1 # 1 /\ (q + 1 + 1 = n + 1 <=> q + 1 = n)
        /\ q + 1 - 1 = q /\ q + 1 + 1 - 1 = q + 1
    BY <1>1, <1>4, <1>5
  <2> QED
    BY <1>2, <2>1
<1>7. x \in Base(s, q + 1) .. (Base(s, q + 1 + 1) - 1)
  BY <1>1, <1>3, <1>4, <1>5, <1>6
<1> QED
  BY <1>5, <1>7 DEF n

-----------------------------------------------------------------------------
(* What the decoders compute for one byte. *)

LEMMA ShiftedOut ==
  ASSUME NEW S, NEW r \in 0 .. 7, NEW l \in 0 .. 7
  PROVE  Shr(S \cap 0 .. l, r) = Shr(S \cap r .. l, r)
<1>1. S \cap 0 .. l \subseteq Int /\ S \cap r .. l \subseteq Int
  OBVIOUS
<1>2. \A x : x \in Shr(S \cap 0 .. l, r) <=> x \in Nat /\ x + r \in S \cap 0 .. l
  BY <1>1, InShr
<1>3. \A x : x \in Shr(S \cap r .. l, r) <=> x \in Nat /\ x + r \in S \cap r .. l
  BY <1>1, InShr
<1>4. \A x \in Nat : x + r \in S \cap 0 .. l <=> x + r \in S \cap r .. l
  OBVIOUS
<1> QED
  BY <1>2, <1>3, <1>4

LEMMA NotShifted ==
  ASSUME NEW S, S \subseteq 0 .. 7
  PROVE  Shr(S, 0) = S /\ S \cap 0 .. 7 = S
<1>1. S \subseteq Int /\ S \subseteq Nat /\ 0 \in Int /\ \A x \in Nat : x + 0 = x
  OBVIOUS
<1>2. \A x : x \in Shr(S, 0) <=> x \in Nat /\ x + 0 \in S
  BY <1>1, InShr
<1>3. \A x : x \in Shr(S, 0) <=> x \in S
  BY <1>1, <1>2
<1> QED
  BY <1>3

(* Whether the byte has the top or the low end of the signal inside.       *)
LEMMA EndsOfSignal ==
  ASSUME NEW s \in Layout, NEW j \in 1 .. Touched(s)
  PROVE  LET b == FromLow(s, j)
             top == b = topByte(s) /\ topOffset(s) # 7
             low == b = lowByte(s) /\ lowOffset(s) # 0
         IN  /\ LastBit(s, j) = IF top THEN topOffset(s) ELSE 7
             /\ Rotation(s, j) = IF low THEN lowOffset(s) ELSE 0
BY BytesOfSignal DEF LastBit, Rotation

LEMMA LowIs ==
  ASSUME NEW t \in Int
  PROVE  Low(7 - t) = 0 .. t
<1>1. 7 - (7 - t) = t
  OBVIOUS
<1> QED
  BY <1>1 DEF Low

LEMMA DecoderParts ==
  ASSUME NEW s \in Layout, NEW j \in 1 .. Touched(s), NEW byte \in SUBSET (0 .. 7)
  PROVE  LET part == [data |-> Shr(byte \cap Own(s, j), Rotation(s, j)), shift |-> Width(s, j)]
         IN  LibPart(s, FromLow(s, j), byte) = part /\ PanelPart(s, FromLow(s, j), byte) = part
<1> DEFINE b == FromLow(s, j)
           c == lowOffset(s)
           t == topOffset(s)
           r == Rotation(s, j)
           l == LastBit(s, j)
           top == b = topByte(s) /\ t # 7
           low == b = lowByte(s) /\ c # 0
           part == [data |-> Shr(byte \cap 0 .. l, r), shift |-> l - r + 1]
<1>1. r \in 0 .. 7 /\ l \in 0 .. 7 /\ Width(s, j) = l - r + 1 /\ c \in 0 .. 7 /\ t \in 0 .. 7
  BY BitsOfByte, Geometry
<1>2. l = (IF top THEN t ELSE 7) /\ r = (IF low THEN c ELSE 0)
  BY EndsOfSignal
<1>3. Low(7 - t) = 0 .. t
  BY <1>1, LowIs
<1>4. Shr(byte \cap 0 .. l, r) = Shr(byte \cap Own(s, j), r)
  <2>1. Shr(byte \cap 0 .. l, r) = Shr(byte \cap r .. l, r)
    BY <1>1, ShiftedOut
  <2>2. Own(s, j) = r .. l
    BY DEF Own
  <2> QED
    BY <2>1, <2>2, Zenon
<1>5. Shr(byte, 0) = byte /\ Shr(byte \cap 0 .. t, 0) = byte \cap 0 .. t /\ byte \cap 0 .. 7 = byte
  BY <1>1, NotShifted
<1>6. LibPart(s, b, byte) =
        LET data == IF top THEN byte \cap 0 .. t ELSE byte
            size == IF top THEN t + 1 ELSE 8
        IN  IF low THEN [data |-> Shr(data, c), shift |-> size - c]
                   ELSE [data |-> data, shift |-> size]
  BY <1>3 DEF LibPart
<1>7. PanelPart(s, b, byte) =
        CASE top /\ low  -> [data |-> Shr(byte \cap 0 .. t, c), shift |-> t - c + 1]
          [] top /\ ~low -> [data |-> byte \cap 0 .. t, shift |-> t + 1]
          [] low /\ ~top -> [data |-> Shr(byte, c), shift |-> 8 - c]
          [] OTHER       -> [data |-> byte, shift |-> 8]
  BY <1>3 DEF PanelPart
<1> HIDE DEF r, l, top, low, c, t, b
<1>8. LibPart(s, b, byte) = part
  <2>1. CASE top /\ low
    BY <1>1, <1>2, <1>6, <2>1
  <2>2. CASE top /\ ~low
    BY <1>1, <1>2, <1>5, <1>6, <2>2
  <2>3. CASE ~top /\ low
    BY <1>1, <1>2, <1>5, <1>6, <2>3
  <2>4. CASE ~top /\ ~low
    BY <1>1, <1>2, <1>5, <1>6, <2>4
  <2> QED
    BY <2>1, <2>2, <2>3, <2>4
<1>9. PanelPart(s, b, byte) = part
  <2>1. CASE top /\ low
    BY <1>1, <1>2, <1>7, <2>1
  <2>2. CASE top /\ ~low
    BY <1>1, <1>2, <1>5, <1>7, <2>2
  <2>3. CASE ~top /\ low
    <3>1. PanelPart(s, b, byte) = [data |-> Shr(byte, c), shift |-> 8 - c]
      BY <1>7, <2>3, Zenon
    <3>2. l = 7 /\ r = c /\ 7 - c + 1 = 8 - c
      BY <1>1, <1>2, <2>3
    <3>3. byte \cap 0 .. l = byte
      BY <1>5, <3>2, Zenon
    <3> QED
      BY <3>1, <3>2, <3>3, Zenon
  <2>4. CASE ~top /\ ~low
    BY <1>1, <1>2, <1>5, <1>7, <2>4
  <2> QED
    BY <2>1, <2>2, <2>3, <2>4
<1> QED
  BY <1>1, <1>4, <1>8, <1>9 DEF b, r

(* The mask of a signal within one byte.                                   *)
LEMMA MaskIs ==
  ASSUME NEW c \in 0 .. 7, NEW t \in 0 .. 7
  PROVE  Byte(Shl(Low(7 - t + c), c)) = c .. t
<1>1. Low(7 - t + c) = 0 .. (t - c)
  <2>1. 7 - (7 - t + c) = t - c
    OBVIOUS
  <2> QED
    BY <2>1 DEF Low
<1>2. c \in Nat /\ 0 .. (t - c) \subseteq Int
  OBVIOUS
<1>3. \A x \in Int : x \in Shl(0 .. (t - c), c) <=> x - c \in 0 .. (t - c)
  BY <1>2, InShl
<1>4. \A x \in Int : x - c \in 0 .. (t - c) <=> x \in c .. t
  OBVIOUS
<1>5. \A x \in 0 .. 7 : x \in Shl(0 .. (t - c), c) <=> x \in c .. t
  BY <1>3, <1>4
<1>6. c .. t \subseteq 0 .. 7
  OBVIOUS
<1> QED
  BY <1>1, <1>5, <1>6 DEF Byte

LEMMA GeneratedPart ==
  ASSUME NEW s \in Layout, NEW j \in 1 .. Touched(s)
  PROVE  GenPart(s, FromLow(s, j)) =
           [mask |-> Own(s, j), rotate |-> Rotation(s, j), shift |-> Width(s, j)]
<1> DEFINE b == FromLow(s, j)
           c == lowOffset(s)
           t == topOffset(s)
           r == Rotation(s, j)
           l == LastBit(s, j)
           top == b = topByte(s) /\ t # 7
           low == b = lowByte(s) /\ c # 0
           part == [mask |-> r .. l, rotate |-> r, shift |-> l - r + 1]
<1>1. r \in 0 .. 7 /\ l \in 0 .. 7 /\ Width(s, j) = l - r + 1 /\ c \in 0 .. 7 /\ t \in 0 .. 7
  BY BitsOfByte, Geometry
<1>2. l = (IF top THEN t ELSE 7) /\ r = (IF low THEN c ELSE 0)
  BY EndsOfSignal
<1>3. Low(7 - t) = 0 .. t
  BY <1>1, LowIs
<1>4. (0 .. 7) \ Low(8 - c) = c .. 7
  <2>1. Low(8 - c) = 0 .. (c - 1)
    <3>1. 7 - (8 - c) = c - 1
      BY <1>1
    <3> QED
      BY <3>1 DEF Low
  <2> QED
    BY <1>1, <2>1
<1>5. Byte(Shl(Low(7 - t + c), c)) = c .. t
  BY <1>1, MaskIs
<1>6. top /\ low => b = topByte(s) /\ b = lowByte(s)
  OBVIOUS
<1>7. GenPart(s, b) =
        CASE (b = topByte(s) /\ b = lowByte(s)) /\ top /\ low ->
               [mask |-> c .. t, rotate |-> c, shift |-> t - c + 1]
          [] top /\ ~low -> [mask |-> 0 .. t, rotate |-> 0, shift |-> t + 1]
          [] low /\ ~top -> [mask |-> c .. 7, rotate |-> c, shift |-> 8 - c]
          [] OTHER -> [mask |-> 0 .. 7, rotate |-> 0, shift |-> 8]
  BY <1>3, <1>4, <1>5 DEF GenPart
<1> HIDE DEF r, l, top, low, c, t, b
<1>8. GenPart(s, b) = part
  <2>1. CASE top /\ low
    BY <1>1, <1>2, <1>6, <1>7, <2>1
  <2>2. CASE top /\ ~low
    BY <1>1, <1>2, <1>7, <2>2
  <2>3. CASE ~top /\ low
    BY <1>1, <1>2, <1>7, <2>3
  <2>4. CASE ~top /\ ~low
    BY <1>1, <1>2, <1>7, <2>4
  <2> QED
    BY <2>1, <2>2, <2>3, <2>4
<1> QED
  BY <1>1, <1>8 DEF b, r, l, Own

-----------------------------------------------------------------------------
(* What the loops compute. *)

RawOf(s, f) == {x \in 0 .. (s.len - 1) : Where(s, x)[2] \in f[Where(s, x)[1]]}

(* The bytes of the payload in which the signal is.                        *)
Holds(s, f) == \A b \in startByte(s) .. endByte(s) : f[b] \in SUBSET (0 .. 7)

LEMMA RawOfByte ==
  ASSUME NEW s \in Layout, NEW f, NEW j \in 1 .. Touched(s),
         NEW x \in Base(s, j) .. (Base(s, j + 1) - 1)
  PROVE  x \in RawOf(s, f) <=> x - Base(s, j) + Rotation(s, j) \in f[FromLow(s, j)]
<1>1. Where(s, x) = <<FromLow(s, j), x - Base(s, j) + Rotation(s, j)>>
  BY WhereBitsAre
<1>2. x \in 0 .. (s.len - 1)
  <2>1. Base(s, j) \in Nat /\ Base(s, j + 1) <= s.len /\ Base(s, j + 1) = Base(s, j) + Width(s, j)
        /\ Width(s, j) \in 1 .. 8 /\ s.len \in 1 .. 31
    BY BitsOfByte, Geometry
  <2> QED
    BY <2>1
<1> QED
  BY <1>1, <1>2 DEF RawOf

(* The decoder loops: what each byte adds below what was read before.      *)
LEMMA LoopReads ==
  ASSUME NEW s \in Layout, NEW f, Holds(s, f), NEW parts,
         \A k \in 1 .. Touched(s) :
           parts[k] = [data  |-> Shr(f[FromTop(s, k)] \cap Own(s, Touched(s) - k + 1),
                                     Rotation(s, Touched(s) - k + 1)),
                       shift |-> Width(s, Touched(s) - k + 1)]
  PROVE  Appended(s, parts) = Drawn(s, f)
<1> DEFINE n == Touched(s)
           R == RawOf(s, f)
           g == [k \in 0 .. n |-> Shr(R, Base(s, n - k + 1))]
           Next1(a) == [k \in 0 .. n |->
                          IF k = 0 THEN {} ELSE Shl(a[k - 1], parts[k].shift) \cup parts[k].data]
           A == CHOOSE a : a = Next1(a)
<1>1. n \in Nat \ {0} /\ s.len \in 1 .. 31 /\ R \subseteq Int /\ R \subseteq 0 .. (s.len - 1)
  BY Geometry DEF RawOf
<1>2. Base(s, n + 1) = s.len /\ Base(s, 1) = 0
  BY <1>1, BitsOfByte
<1> HIDE DEF n, R
<1>3. g[0] = {} /\ g[n] = R
  <2>1. g[0] = Shr(R, s.len) /\ g[n] = Shr(R, 0)
    <3>1. 0 \in 0 .. n /\ n \in 0 .. n /\ n - 0 + 1 = n + 1 /\ n - n + 1 = 1
      BY <1>1
    <3> QED
      BY <1>2, <3>1
  <2>2. \A x : x \in Shr(R, s.len) <=> x \in Nat /\ x + s.len \in R
    <3>1. s.len \in Int
      BY <1>1
    <3> QED
      BY <1>1, <3>1, InShr
  <2>3. \A x : x \in Shr(R, 0) <=> x \in Nat /\ x + 0 \in R
    <3>1. 0 \in Int
      OBVIOUS
    <3> QED
      BY <1>1, <3>1, InShr
  <2>4. \A x \in Nat : x + s.len \notin R
    BY <1>1
  <2>5. R \subseteq Nat /\ \A x \in Nat : x + 0 = x
    BY <1>1
  <2>6. Shr(R, s.len) = {}
    BY <2>2, <2>4
  <2>7. Shr(R, 0) = R
    BY <2>3, <2>5
  <2> QED
    BY <2>1, <2>6, <2>7, Zenon
<1>4. ASSUME NEW k \in 1 .. n
      PROVE  g[k] = Shl(g[k - 1], parts[k].shift) \cup parts[k].data
  <2> DEFINE j == n - k + 1
             B == Base(s, j)
             w == Width(s, j)
             r == Rotation(s, j)
             l == LastBit(s, j)
             byte == f[FromLow(s, j)]
  <2>1. j \in 1 .. n /\ k = n - j + 1 /\ n - (k - 1) + 1 = j + 1 /\ k - 1 \in 0 .. n /\ k \in 0 .. n
    BY <1>1
  <2>2. /\ B \in Nat /\ w \in 1 .. 8 /\ Base(s, j + 1) = B + w /\ r \in 0 .. 7 /\ l \in 0 .. 7
        /\ w = l - r + 1
    BY <2>1, BitsOfByte DEF n
  <2>3. g[k] = Shr(R, B) /\ g[k - 1] = Shr(R, B + w)
    BY <2>1, <2>2
  <2>4. FromTop(s, k) = FromLow(s, j) /\ byte \in SUBSET (0 .. 7)
    <3>1. FromTop(s, n - j + 1) = FromLow(s, j) /\ FromLow(s, j) \in startByte(s) .. endByte(s)
      BY <2>1, BytesOfSignal DEF n
    <3> QED
      BY <2>1, <3>1 DEF Holds
  <2>5. parts[k] = [data |-> Shr(byte \cap r .. l, r), shift |-> w]
    BY <2>4 DEF n, Own
  <2>6. \A x \in B .. (B + w - 1) : x \in R <=> x - B + r \in byte
    BY <2>1, <2>2, RawOfByte DEF n, R
  <2> HIDE DEF g, j, B, w, r, l, byte
  <2>7. \A x : x \in Shr(R, B) <=> x \in Nat /\ x + B \in R
    <3>1. B \in Int
      BY <2>2
    <3> QED
      BY <1>1, <3>1, InShr
  <2>8. \A x : x \in Shr(R, B + w) <=> x \in Nat /\ x + (B + w) \in R
    <3>1. B + w \in Int
      BY <2>2
    <3> QED
      BY <1>1, <3>1, InShr
  <2>9. Shr(R, B + w) \subseteq Int
    BY <2>8
  <2>10. \A x \in Int : x \in Shl(Shr(R, B + w), w) <=> x - w \in Shr(R, B + w)
    BY <2>2, <2>9, InShl
  <2>11. \A x : x \in Shr(byte \cap r .. l, r) <=> x \in Nat /\ x + r \in byte \cap r .. l
    <3>1. byte \cap r .. l \subseteq Int /\ r \in Int
      BY <2>2
    <3> QED
      BY <3>1, InShr
  <2>12. ASSUME NEW x \in Nat
         PROVE  x \in Shr(R, B) <=> x \in Shl(Shr(R, B + w), w) \/ x \in Shr(byte \cap r .. l, r)
    <3>1. CASE x < w
      <4>1. x - w \notin Nat
        BY <2>2, <3>1
      <4>2. x + B \in B .. (B + w - 1) /\ (x + B) - B + r = x + r /\ x + r \in r .. l
        BY <2>2, <3>1
      <4>3. x \in Shr(R, B) <=> x + r \in byte
        BY <2>6, <2>7, <4>2
      <4>4. x \notin Shl(Shr(R, B + w), w)
        BY <2>8, <2>10, <4>1
      <4> QED
        BY <2>11, <4>2, <4>3, <4>4
    <3>2. CASE x >= w
      <4>1. x - w \in Nat /\ (x - w) + (B + w) = x + B /\ ~ (x + r \in r .. l) /\ x \in Int
        BY <2>2, <3>2
      <4>2. x \in Shl(Shr(R, B + w), w) <=> x - w \in Shr(R, B + w)
        BY <2>10, <4>1
      <4>3. x - w \in Shr(R, B + w) <=> x + B \in R
        BY <2>8, <4>1, Zenon
      <4> QED
        BY <2>7, <2>11, <4>1, <4>2, <4>3, Zenon
    <3> QED
      BY <2>2, <3>1, <3>2
  <2>13. Shl(Shr(R, B + w), w) \subseteq Nat
    BY <2>2, <2>8 DEF Shl
  <2>14. Shr(R, B) = Shl(Shr(R, B + w), w) \cup Shr(byte \cap r .. l, r)
    BY <2>7, <2>11, <2>12, <2>13
  <2> QED
    BY <2>3, <2>5, <2>14
<1>5. g = Next1(g)
  <2>1. \A k \in 0 .. n : g[k] = IF k = 0 THEN {} ELSE Shl(g[k - 1], parts[k].shift) \cup parts[k].data
    <3> HIDE DEF g
    <3>1. \A k \in 0 .. n : k = 0 \/ (k # 0 /\ k \in 1 .. n)
      BY <1>1
    <3> QED
      BY <1>3, <1>4, <3>1, Zenon
  <2>2. g = [k \in 0 .. n |-> g[k]]
    OBVIOUS
  <2> HIDE DEF g
  <2> QED
    BY <2>1, <2>2
<1>6. A = Next1(A)
  <2> HIDE DEF g, Next1
  <2> QED
    BY <1>5
<1>7. A[n] = g[n]
  <2>1. Alike(n, A, g)
    <3> HIDE DEF A, g
    <3>1. A[0] = {} /\ \A k \in 1 .. n : A[k] = Shl(A[k - 1], parts[k].shift) \cup parts[k].data
      <4>1. 0 \in 0 .. n /\ \A k \in 1 .. n : k \in 0 .. n /\ k # 0
        BY <1>1
      <4>2. \A k \in 0 .. n : A[k] = IF k = 0 THEN {} ELSE Shl(A[k - 1], parts[k].shift) \cup parts[k].data
        BY <1>6
      <4> QED
        BY <4>1, <4>2
    <3> QED
      BY <1>3, <1>4, <3>1, Zenon DEF Alike
  <2> HIDE DEF A, g
  <2>2. \A k \in 0 .. n : A[k] = g[k]
    BY <1>1, <2>1, Agree
  <2> QED
    BY <1>1, <2>2
<1>8. Appended(s, parts) = SignExtend(s, A[n])
  BY DEF Appended, n
<1> HIDE DEF A, g
<1> QED
  BY <1>3, <1>7, <1>8 DEF Drawn, R, RawOf

LEMMA LibReads ==
  ASSUME NEW s \in Layout, NEW f, Holds(s, f)
  PROVE  LibDecode(s, f) = Drawn(s, f) /\ PanelDecode(s, f) = Drawn(s, f)
<1> DEFINE n == Touched(s)
           lib == [k \in 1 .. n |-> LibPart(s, FromTop(s, k), f[FromTop(s, k)])]
           panel == [k \in 1 .. n |-> PanelPart(s, FromTop(s, k), f[FromTop(s, k)])]
           part(k) == [data  |-> Shr(f[FromTop(s, k)] \cap Own(s, n - k + 1), Rotation(s, n - k + 1)),
                       shift |-> Width(s, n - k + 1)]
<1>1. ASSUME NEW k \in 1 .. n PROVE lib[k] = part(k) /\ panel[k] = part(k)
  <2> DEFINE j == n - k + 1
  <2>1. n \in Nat \ {0}
    BY Geometry
  <2> HIDE DEF n
  <2>2. j \in 1 .. n /\ n - j + 1 = k
    BY <2>1
  <2>3. FromTop(s, k) = FromLow(s, j) /\ f[FromLow(s, j)] \in SUBSET (0 .. 7)
    <3>1. FromTop(s, n - j + 1) = FromLow(s, j) /\ FromLow(s, j) \in startByte(s) .. endByte(s)
      BY <2>2, BytesOfSignal DEF n
    <3> QED
      BY <2>2, <3>1 DEF Holds
  <2> HIDE DEF j
  <2>4. LET p == [data |-> Shr(f[FromLow(s, j)] \cap Own(s, j), Rotation(s, j)), shift |-> Width(s, j)]
        IN  /\ LibPart(s, FromLow(s, j), f[FromLow(s, j)]) = p
            /\ PanelPart(s, FromLow(s, j), f[FromLow(s, j)]) = p
    BY <2>2, <2>3, DecoderParts DEF n
  <2> QED
    BY <2>3, <2>4 DEF j
<1>2. Appended(s, lib) = Drawn(s, f)
  <2> HIDE DEF lib
  <2> QED
    BY <1>1, LoopReads
<1>3. Appended(s, panel) = Drawn(s, f)
  <2> HIDE DEF panel
  <2> QED
    BY <1>1, LoopReads
<1> QED
  BY <1>2, <1>3 DEF LibDecode, PanelDecode

(* The loops of dbcgen: the number of bits in the first bytes.             *)
LEMMA BitsCounted ==
  ASSUME NEW s \in Layout, NEW count \in 0 .. Touched(s)
  PROVE  Bits(s, count) = IF s.big THEN s.len - Base(s, Touched(s) - count + 1) ELSE Base(s, count + 1)
<1> DEFINE n == Touched(s)
           g == [k \in 0 .. count |->
                   IF s.big THEN s.len - Base(s, n - k + 1) ELSE Base(s, k + 1)]
           Next1(a) == [k \in 0 .. count |->
                          IF k = 0 THEN 0 ELSE a[k - 1] + GenPart(s, Upward(s, k)).shift]
           A == CHOOSE a : a = Next1(a)
<1>1. /\ n \in Nat \ {0} /\ s.len \in 1 .. 31 /\ s.big \in BOOLEAN /\ count \in 0 .. n
      /\ Base(s, n + 1) = s.len /\ Base(s, 1) = 0
  <2>1. n \in Nat \ {0} /\ 1 \in 1 .. n
    BY Geometry
  <2> QED
    BY <2>1, Geometry, BitsOfByte
<1>2. \A j \in 1 .. n : Base(s, j) \in Nat /\ Width(s, j) \in Nat /\ Base(s, j + 1) = Base(s, j) + Width(s, j)
  BY BitsOfByte
<1>3. ASSUME NEW k \in 1 .. n
      PROVE  GenPart(s, Upward(s, k)).shift = Width(s, IF s.big THEN n - k + 1 ELSE k)
  <2> DEFINE j == IF s.big THEN n - k + 1 ELSE k
  <2>1. j \in 1 .. n
    BY <1>1
  <2>2. Upward(s, k) = FromLow(s, j)
    <3>1. endByte(s) = startByte(s) + n - 1 /\ startByte(s) \in Nat
      BY Geometry
    <3> HIDE DEF n
    <3> QED
      BY <1>1, <3>1 DEF Upward, FromLow
  <2> HIDE DEF j
  <2>3. GenPart(s, FromLow(s, j)).shift = Width(s, j)
    BY <2>1, GeneratedPart
  <2> QED
    BY <2>2, <2>3 DEF j
<1> HIDE DEF n
<1>4. g[0] = 0
  <2>1. 0 \in 0 .. count /\ n - 0 + 1 = n + 1 /\ 0 + 1 = 1 /\ s.len - s.len = 0
    BY <1>1
  <2> QED
    BY <1>1, <2>1
<1>5. ASSUME NEW k \in 1 .. count
      PROVE  g[k] = g[k - 1] + GenPart(s, Upward(s, k)).shift
  <2>1. k \in 1 .. n /\ k \in 0 .. count /\ k - 1 \in 0 .. count
    BY <1>1
  <2>2. CASE s.big
    <3> DEFINE j == n - k + 1
    <3>1. j \in 1 .. n /\ n - (k - 1) + 1 = j + 1
      BY <1>1, <2>1
    <3>2. g[k] = s.len - Base(s, j) /\ g[k - 1] = s.len - Base(s, j + 1)
      BY <2>1, <2>2, <3>1
    <3>3. GenPart(s, Upward(s, k)).shift = Width(s, j)
      BY <1>3, <2>1, <2>2
    <3> HIDE DEF j, g
    <3>4. s.len - Base(s, j) = (s.len - Base(s, j + 1)) + Width(s, j)
      BY <1>1, <1>2, <3>1
    <3> QED
      BY <3>2, <3>3, <3>4, Zenon
  <2>3. CASE ~ s.big
    <3>1. g[k] = Base(s, k + 1) /\ g[k - 1] = Base(s, k)
      <4>1. k - 1 + 1 = k
        BY <2>1
      <4> QED
        BY <2>1, <2>3, <4>1
    <3>2. GenPart(s, Upward(s, k)).shift = Width(s, k)
      BY <1>3, <2>1, <2>3
    <3> HIDE DEF g
    <3>3. Base(s, k + 1) = Base(s, k) + Width(s, k)
      BY <1>2, <2>1
    <3> QED
      BY <3>1, <3>2, <3>3, Zenon
  <2> QED
    BY <1>1, <2>2, <2>3
<1>6. g = Next1(g)
  <2>1. \A k \in 0 .. count : g[k] = IF k = 0 THEN 0 ELSE g[k - 1] + GenPart(s, Upward(s, k)).shift
    <3> HIDE DEF g
    <3>1. \A k \in 0 .. count : k = 0 \/ (k # 0 /\ k \in 1 .. count)
      BY <1>1
    <3> QED
      BY <1>4, <1>5, <3>1, Zenon
  <2>2. g = [k \in 0 .. count |-> g[k]]
    OBVIOUS
  <2> HIDE DEF g
  <2> QED
    BY <2>1, <2>2
<1>7. A = Next1(A)
  <2> HIDE DEF g, Next1
  <2> QED
    BY <1>6
<1>8. A[count] = g[count]
  <2>1. Alike(count, A, g)
    <3> HIDE DEF A, g
    <3>1. A[0] = 0 /\ \A k \in 1 .. count : A[k] = A[k - 1] + GenPart(s, Upward(s, k)).shift
      <4>1. 0 \in 0 .. count /\ \A k \in 1 .. count : k \in 0 .. count /\ k # 0
        BY <1>1
      <4>2. \A k \in 0 .. count : A[k] = IF k = 0 THEN 0 ELSE A[k - 1] + GenPart(s, Upward(s, k)).shift
        BY <1>7
      <4> QED
        BY <4>1, <4>2
    <3> QED
      BY <1>4, <1>5, <3>1, Zenon DEF Alike
  <2> HIDE DEF A, g
  <2>2. count \in Nat /\ count \in 0 .. count
    BY <1>1
  <2>3. \A k \in 0 .. count : A[k] = g[k]
    BY <2>1, <2>2, Agree
  <2> QED
    BY <2>2, <2>3
<1>9. Bits(s, count) = A[count]
  BY DEF Bits
<1>10. g[count] = IF s.big THEN s.len - Base(s, n - count + 1) ELSE Base(s, count + 1)
  <2>1. count \in 0 .. count
    BY <1>1
  <2> QED
    BY <2>1
<1> HIDE DEF A, g
<1> QED
  BY <1>8, <1>9, <1>10 DEF n

LEMMA PositionIs ==
  ASSUME NEW s \in Layout, NEW j \in 1 .. Touched(s)
  PROVE  Position(s, FromLow(s, j)) = Base(s, j)
<1> DEFINE n == Touched(s)
           b == FromLow(s, j)
           before == Bits(s, b - startByte(s))
<1>1. /\ n \in Nat \ {0} /\ s.len \in 1 .. 31 /\ s.big \in BOOLEAN /\ j \in 1 .. n
      /\ startByte(s) \in Nat /\ endByte(s) = startByte(s) + n - 1
  BY Geometry
<1>2. Base(s, j) \in Nat /\ Width(s, j) \in Nat /\ Base(s, j + 1) = Base(s, j) + Width(s, j)
  BY BitsOfByte
<1>3. GenPart(s, b).shift = Width(s, j)
  BY GeneratedPart
<1>4. \A i \in 0 .. n : Bits(s, i) = IF s.big THEN s.len - Base(s, n - i + 1) ELSE Base(s, i + 1)
  BY BitsCounted
<1>5. CASE s.big
  <2>1. b = endByte(s) - j + 1
    BY <1>5 DEF FromLow
  <2>2. b - startByte(s) = n - j /\ n - j \in 0 .. n /\ n - (n - j) + 1 = j + 1
    <3> HIDE DEF n, b
    <3> QED
      BY <1>1, <2>1
  <2> HIDE DEF n, b
  <2>3. before = s.len - Base(s, j + 1)
    BY <1>4, <1>5, <2>2
  <2>4. Position(s, b) = s.len - before - Width(s, j)
    BY <1>3, <1>5 DEF Position
  <2> HIDE DEF before
  <2> QED
    BY <1>1, <1>2, <2>3, <2>4 DEF b
<1>6. CASE ~ s.big
  <2>1. b = startByte(s) + j - 1
    BY <1>6 DEF FromLow
  <2>2. b - startByte(s) = j - 1 /\ j - 1 \in 0 .. n /\ (j - 1) + 1 = j
    <3> HIDE DEF n, b
    <3> QED
      BY <1>1, <2>1
  <2> HIDE DEF n, b
  <2>3. before = Base(s, j)
    BY <1>4, <1>6, <2>2
  <2>4. Position(s, b) = before
    BY <1>6 DEF Position
  <2> QED
    BY <2>3, <2>4 DEF b
<1> QED
  BY <1>1, <1>5, <1>6

LEMMA AssertionsHold ==
  ASSUME NEW s \in Layout
  PROVE  GenAsserts(s)
<1> DEFINE n == Touched(s)
<1>1. n \in Nat \ {0} /\ s.len \in 1 .. 31 /\ s.big \in BOOLEAN
  BY Geometry
<1>2. Base(s, n + 1) = s.len /\ Base(s, 1) = 0
  <2>1. 1 \in 1 .. n
    BY <1>1
  <2> QED
    BY <2>1, BitsOfByte
<1>3. Bits(s, n) = IF s.big THEN s.len - Base(s, n - n + 1) ELSE Base(s, n + 1)
  <2>1. n \in 0 .. n
    BY <1>1
  <2> QED
    BY <2>1, BitsCounted
<1> HIDE DEF n
<1>4. n - n + 1 = 1 /\ s.len - 0 = s.len
  BY <1>1
<1> QED
  BY <1>2, <1>3, <1>4 DEF GenAsserts, n

LEMMA InPlace ==
  ASSUME NEW S, S \subseteq Nat, NEW k \in Int
  PROVE  /\ \A x \in Nat : x \in Place(S, k) <=> x - k \in S
         /\ Place(S, k) \subseteq Nat
<1>0. S \subseteq Int
  OBVIOUS
<1>1. CASE k >= 0
  <2>1. Place(S, k) = Shl(S, k) /\ k \in Nat
    BY <1>1 DEF Place
  <2>2. \A x \in Int : x \in Shl(S, k) <=> x - k \in S
    BY <1>0, <2>1, InShl
  <2>3. Shl(S, k) \subseteq Nat
    BY <1>1 DEF Shl
  <2> QED
    BY <2>1, <2>2, <2>3
<1>2. CASE ~ (k >= 0)
  <2>1. Place(S, k) = Shr(S, -k) /\ -k \in Int
    BY <1>2 DEF Place
  <2>2. \A x : x \in Shr(S, -k) <=> x \in Nat /\ x + (-k) \in S
    BY <1>0, <2>1, InShr
  <2>3. \A x \in Nat : x + (-k) = x - k
    OBVIOUS
  <2> QED
    BY <2>1, <2>2, <2>3
<1> QED
  BY <1>1, <1>2

(* The generated accessor: the bits of each byte at their place.           *)
LEMMA GeneratedReads ==
  ASSUME NEW s \in Layout, NEW f, Holds(s, f)
  PROVE  GenDecode(s, f) = Drawn(s, f)
<1> DEFINE n == Touched(s)
           R == RawOf(s, f)
           Term(b) == Place(f[b] \cap GenPart(s, b).mask, Position(s, b) - GenPart(s, b).rotate)
           U == UNION {Term(b) : b \in startByte(s) .. endByte(s)}
<1>1. ASSUME NEW j \in 1 .. n
      PROVE  /\ FromLow(s, j) \in startByte(s) .. endByte(s)
             /\ \A x : x \in Term(FromLow(s, j)) <=> x \in Base(s, j) .. (Base(s, j + 1) - 1) /\ x \in R
  <2> DEFINE b == FromLow(s, j)
             B == Base(s, j)
             w == Width(s, j)
             r == Rotation(s, j)
             l == LastBit(s, j)
             S == f[b] \cap r .. l
  <2>1. b \in startByte(s) .. endByte(s) /\ f[b] \in SUBSET (0 .. 7)
    BY BytesOfSignal DEF Holds
  <2>2. /\ B \in Nat /\ w \in 1 .. 8 /\ Base(s, j + 1) = B + w /\ r \in 0 .. 7 /\ l \in 0 .. 7
        /\ w = l - r + 1
    BY BitsOfByte
  <2>3. GenPart(s, b).mask = r .. l /\ GenPart(s, b).rotate = r /\ Position(s, b) = B
    BY GeneratedPart, PositionIs DEF Own
  <2>4. Term(b) = Place(S, B - r)
    BY <2>3
  <2>5. \A x \in B .. (B + w - 1) : x \in R <=> x - B + r \in f[b]
    BY <2>2, RawOfByte
  <2> HIDE DEF B, w, r, l, R, b
  <2>6. S \subseteq Nat /\ B - r \in Int
    BY <2>2
  <2>7. /\ \A x \in Nat : x \in Place(S, B - r) <=> x - (B - r) \in S
        /\ Place(S, B - r) \subseteq Nat
    <3> HIDE DEF S
    <3> QED
      BY <2>6, InPlace
  <2>8. ASSUME NEW x \in Nat
        PROVE  x - (B - r) \in S <=> x \in B .. (B + w - 1) /\ x \in R
    <3>1. x - (B - r) = x - B + r
      BY <2>2
    <3>2. x - B + r \in r .. l <=> x \in B .. (B + w - 1)
      BY <2>2
    <3> QED
      BY <2>5, <3>1, <3>2
  <2>9. B .. (B + w - 1) \subseteq Nat
    BY <2>2
  <2>10. ASSUME NEW x
         PROVE  x \in Term(b) <=> x \in B .. (B + w - 1) /\ x \in R
    <3> HIDE DEF S, Term
    <3> QED
      BY <2>4, <2>7, <2>8, <2>9
  <2> HIDE DEF Term
  <2> QED
    BY <2>1, <2>2, <2>10 DEF b, B
<1>2. \A x \in R : \E j \in 1 .. n : x \in Base(s, j) .. (Base(s, j + 1) - 1)
  BY ByteOfBit DEF RawOf
<1>3. \A b \in startByte(s) .. endByte(s) : \E j \in 1 .. n : b = FromLow(s, j)
  BY BytesOfSignal
<1>4. U = R
  <2> HIDE DEF Term, n, R
  <2>1. ASSUME NEW x \in U PROVE x \in R
    <3>1. PICK b \in startByte(s) .. endByte(s) : x \in Term(b)
      OBVIOUS
    <3>2. PICK j \in 1 .. n : b = FromLow(s, j)
      BY <1>3
    <3> QED
      BY <1>1, <3>1, <3>2
  <2>2. ASSUME NEW x \in R PROVE x \in U
    <3>1. PICK j \in 1 .. n : x \in Base(s, j) .. (Base(s, j + 1) - 1)
      BY <1>2
    <3>2. x \in Term(FromLow(s, j)) /\ FromLow(s, j) \in startByte(s) .. endByte(s)
      BY <1>1, <3>1
    <3> QED
      BY <3>2
  <2> QED
    BY <2>1, <2>2
<1>5. GenDecode(s, f) = SignExtend(s, U)
  BY DEF GenDecode
<1> HIDE DEF U
<1> QED
  BY <1>4, <1>5 DEF Drawn, RawOf

-----------------------------------------------------------------------------
(* What the encoders write. *)

InPayload(s) == s \in Layout /\ endByte(s) < Bytes

(* A bit of the payload that is not the signal's.                          *)
Foreign(s, b, y) == \A x \in 0 .. (s.len - 1) : Where(s, x) # <<b, y>>

(* Two payloads that differ in nothing but the signal.                     *)
SameElsewhere(s, f, g) ==
  \A b \in 0 .. (Bytes - 1) : \A y : Foreign(s, b, y) => (y \in g[b] <=> y \in f[b])

(* Two signals without a common bit.                                       *)
Apart(s, t) ==
  \A a \in 0 .. (s.len - 1), b \in 0 .. (t.len - 1) : Where(s, a) # Where(t, b)

LEMMA PayloadHolds ==
  ASSUME NEW s, InPayload(s), NEW f \in Frames
  PROVE  /\ Holds(s, f) /\ startByte(s) .. endByte(s) \subseteq 0 .. (Bytes - 1)
         /\ DOMAIN f = 0 .. (Bytes - 1)
<1>1. startByte(s) \in Nat /\ endByte(s) = startByte(s) + Touched(s) - 1 /\ Touched(s) \in Nat /\ endByte(s) < Bytes
  BY Geometry DEF InPayload
<1>2. startByte(s) .. endByte(s) \subseteq 0 .. (Bytes - 1)
  BY <1>1, BytesAssumption
<1>3. DOMAIN f = 0 .. (Bytes - 1) /\ \A b \in 0 .. (Bytes - 1) : f[b] \in SUBSET (0 .. 7)
  BY DEF Frames
<1> QED
  BY <1>2, <1>3 DEF Holds

(* setSignal of the generated code, byte by byte.                          *)
LEMMA GeneratedByte ==
  ASSUME NEW s, InPayload(s), NEW f \in Frames, NEW v
  PROVE  /\ \A j \in 1 .. Touched(s) :
              GenEncode(s, f, v)[FromLow(s, j)] =
                (f[FromLow(s, j)] \ Own(s, j))
                  \cup (Own(s, j) \cap Shl(Shr(SignStrip(s, v), Base(s, j)), Rotation(s, j)))
         /\ \A b \in 0 .. (Bytes - 1) : b \notin startByte(s) .. endByte(s) => GenEncode(s, f, v)[b] = f[b]
         /\ GenEncode(s, f, v) \in Frames
<1>1. /\ startByte(s) .. endByte(s) \subseteq 0 .. (Bytes - 1) /\ DOMAIN f = 0 .. (Bytes - 1)
      /\ s \in Layout
  BY PayloadHolds DEF InPayload
<1>2. ASSUME NEW j \in 1 .. Touched(s)
      PROVE  GenEncode(s, f, v)[FromLow(s, j)] =
                (f[FromLow(s, j)] \ Own(s, j))
                  \cup (Own(s, j) \cap Shl(Shr(SignStrip(s, v), Base(s, j)), Rotation(s, j)))
  <2>1. FromLow(s, j) \in startByte(s) .. endByte(s)
    BY <1>1, BytesOfSignal
  <2>2. /\ GenPart(s, FromLow(s, j)) = [mask |-> Own(s, j), rotate |-> Rotation(s, j), shift |-> Width(s, j)]
        /\ Position(s, FromLow(s, j)) = Base(s, j)
    BY <1>1, GeneratedPart, PositionIs
  <2> DEFINE b == FromLow(s, j)
  <2>3. b \in DOMAIN f /\ b \in startByte(s) .. endByte(s)
    BY <1>1, <2>1
  <2>4. /\ GenPart(s, b).mask = Own(s, j) /\ GenPart(s, b).rotate = Rotation(s, j)
        /\ Position(s, b) = Base(s, j)
    BY <2>2
  <2> HIDE DEF b
  <2>5. GenEncode(s, f, v)[b] =
          (f[b] \ GenPart(s, b).mask)
            \cup (GenPart(s, b).mask \cap Shl(Shr(SignStrip(s, v), Position(s, b)), GenPart(s, b).rotate))
    BY <2>3 DEF GenEncode
  <2> QED
    BY <2>4, <2>5 DEF b
<1>3. \A b \in 0 .. (Bytes - 1) : b \notin startByte(s) .. endByte(s) => GenEncode(s, f, v)[b] = f[b]
  BY <1>1 DEF GenEncode
<1>4. GenEncode(s, f, v) = [b \in 0 .. (Bytes - 1) |-> GenEncode(s, f, v)[b]]
  BY <1>1 DEF GenEncode
<1>5. ASSUME NEW b \in 0 .. (Bytes - 1) PROVE GenEncode(s, f, v)[b] \in SUBSET (0 .. 7)
  <2>1. f[b] \in SUBSET (0 .. 7)
    BY DEF Frames
  <2>2. CASE b \notin startByte(s) .. endByte(s)
    BY <1>3, <2>1, <2>2
  <2>3. CASE b \in startByte(s) .. endByte(s)
    <3>1. PICK j \in 1 .. Touched(s) : b = FromLow(s, j)
      BY <1>1, <2>3, BytesOfSignal
    <3>2. Own(s, j) \subseteq 0 .. 7
      BY <1>1, BitsOfByte DEF Own
    <3> QED
      BY <1>2, <2>1, <3>1, <3>2
  <2> QED
    BY <2>2, <2>3
<1>6. GenEncode(s, f, v) \in Frames
  <2> DEFINE E == GenEncode(s, f, v)
  <2>1. E = [b \in 0 .. (Bytes - 1) |-> E[b]] /\ \A b \in 0 .. (Bytes - 1) : E[b] \in SUBSET (0 .. 7)
    BY <1>4, <1>5
  <2> HIDE DEF E
  <2>2. E \in Frames
    BY <2>1 DEF Frames
  <2> QED
    BY <2>2 DEF E
<1> QED
  BY <1>2, <1>3, <1>6

(* Afterwards the signal has the value, and every other bit is as before.  *)
LEMMA GeneratedWrites ==
  ASSUME NEW s, InPayload(s), NEW f \in Frames, NEW v \in SUBSET Word
  PROVE  /\ GenEncode(s, f, v) \in Frames
         /\ RawOf(s, GenEncode(s, f, v)) = v \cap 0 .. (s.len - 1)
         /\ SameElsewhere(s, f, GenEncode(s, f, v))
<1> DEFINE E == GenEncode(s, f, v)
           V == SignStrip(s, v)
<1>1. s \in Layout /\ V \subseteq Nat /\ s.len \in 1 .. 31 /\ \A x \in 0 .. (s.len - 1) : x \in V <=> x \in v
  <2>1. s \in Layout
    BY DEF InPayload
  <2>2. s.len \in 1 .. 31 /\ v \subseteq Nat
    BY <2>1, Geometry DEF Word
  <2>3. V = v \/ V = v \cap 0 .. (s.len - 1)
    BY DEF SignStrip
  <2> HIDE DEF V
  <2> QED
    BY <2>1, <2>2, <2>3
<1>2. /\ \A j \in 1 .. Touched(s) :
           E[FromLow(s, j)] = (f[FromLow(s, j)] \ Own(s, j))
                                \cup (Own(s, j) \cap Shl(Shr(V, Base(s, j)), Rotation(s, j)))
      /\ \A b \in 0 .. (Bytes - 1) : b \notin startByte(s) .. endByte(s) => E[b] = f[b]
      /\ E \in Frames
  BY GeneratedByte
<1> HIDE DEF E, V
<1>3. ASSUME NEW x \in 0 .. (s.len - 1) PROVE x \in RawOf(s, E) <=> x \in V
  <2>1. PICK j \in 1 .. Touched(s) : x \in Base(s, j) .. (Base(s, j + 1) - 1)
    BY <1>1, ByteOfBit
  <2> DEFINE B == Base(s, j)
             r == Rotation(s, j)
             y == x - B + r
  <2>2. /\ B \in Nat /\ Width(s, j) \in 1 .. 8 /\ Base(s, j + 1) = B + Width(s, j) /\ r \in 0 .. 7
        /\ LastBit(s, j) \in 0 .. 7 /\ Width(s, j) = LastBit(s, j) - r + 1
    BY <1>1, BitsOfByte
  <2>3. x \in RawOf(s, E) <=> y \in E[FromLow(s, j)]
    BY <1>1, <2>1, RawOfByte
  <2> HIDE DEF B, r
  <2>4. y \in Own(s, j) /\ y \in Int /\ y - r = x - B /\ x - B \in Nat /\ (x - B) + B = x
    <3>1. x \in B .. (B + Width(s, j) - 1)
      BY <2>1, <2>2 DEF B
    <3>2. y \in r .. LastBit(s, j) /\ y \in Int /\ y - r = x - B /\ x - B \in Nat /\ (x - B) + B = x
      BY <2>2, <3>1
    <3> QED
      BY <3>2 DEF Own, r
  <2> HIDE DEF y
  <2>5. y \in E[FromLow(s, j)] <=> y \in Shl(Shr(V, B), r)
    BY <1>2, <2>4 DEF B, r
  <2>6. \A z : z \in Shr(V, B) <=> z \in Nat /\ z + B \in V
    <3>1. V \subseteq Int /\ B \in Int
      BY <1>1, <2>2
    <3> QED
      BY <3>1, InShr
  <2>7. y \in Shl(Shr(V, B), r) <=> y - r \in Shr(V, B)
    <3>1. Shr(V, B) \subseteq Int /\ r \in Nat
      BY <2>2, <2>6
    <3> QED
      BY <2>4, <3>1, InShl
  <2> QED
    BY <2>3, <2>4, <2>5, <2>6, <2>7
<1>4. RawOf(s, E) = v \cap 0 .. (s.len - 1)
  BY <1>1, <1>3 DEF RawOf
<1>5. ASSUME NEW b \in 0 .. (Bytes - 1), NEW y, Foreign(s, b, y)
      PROVE  y \in E[b] <=> y \in f[b]
  <2>1. CASE b \notin startByte(s) .. endByte(s)
    BY <1>2, <2>1
  <2>2. CASE b \in startByte(s) .. endByte(s)
    <3>1. PICK j \in 1 .. Touched(s) : b = FromLow(s, j)
      BY <1>1, <2>2, BytesOfSignal
    <3> DEFINE B == Base(s, j)
               r == Rotation(s, j)
               x == B + (y - r)
    <3>2. /\ B \in Nat /\ Width(s, j) \in 1 .. 8 /\ Base(s, j + 1) = B + Width(s, j) /\ r \in 0 .. 7
          /\ LastBit(s, j) \in 0 .. 7 /\ Width(s, j) = LastBit(s, j) - r + 1 /\ Base(s, j + 1) <= s.len
      BY <1>1, BitsOfByte
    <3>3. ASSUME y \in Own(s, j) PROVE FALSE
      <4>1. y \in r .. LastBit(s, j)
        BY <3>3 DEF Own
      <4> HIDE DEF B, r
      <4>2. x \in B .. (B + Width(s, j) - 1) /\ x - B + r = y /\ x \in 0 .. (s.len - 1)
        BY <1>1, <3>2, <4>1
      <4>3. Where(s, x) = <<b, y>>
        <5>1. x \in Base(s, j) .. (Base(s, j + 1) - 1)
          BY <3>2, <4>2 DEF B
        <5> HIDE DEF x
        <5>2. Where(s, x) = <<FromLow(s, j), x - Base(s, j) + Rotation(s, j)>>
          BY <1>1, <5>1, WhereBitsAre
        <5> QED
          BY <3>1, <4>2, <5>2 DEF B, r
      <4> HIDE DEF x
      <4> QED
        BY <1>5, <4>2, <4>3 DEF Foreign
    <3> QED
      BY <1>2, <3>1, <3>3
  <2> QED
    BY <2>1, <2>2
<1>6. SameElsewhere(s, f, E)
  BY <1>5 DEF SameElsewhere
<1> QED
  BY <1>2, <1>4, <1>6 DEF E

(* A signal that shares no bit with the one written is read as before.     *)
LEMMA OthersAreKept ==
  ASSUME NEW s, NEW t, InPayload(t), NEW f, NEW g, Apart(t, s), SameElsewhere(s, f, g)
  PROVE  RawOf(t, g) = RawOf(t, f)
<1>1. ASSUME NEW x \in 0 .. (t.len - 1)
      PROVE  Where(t, x)[2] \in g[Where(t, x)[1]] <=> Where(t, x)[2] \in f[Where(t, x)[1]]
  <2>0. t \in Layout
    BY DEF InPayload
  <2>1. PICK j \in 1 .. Touched(t) : x \in Base(t, j) .. (Base(t, j + 1) - 1)
    BY <2>0, ByteOfBit
  <2> DEFINE b == FromLow(t, j)
             y == x - Base(t, j) + Rotation(t, j)
  <2>2. Where(t, x) = <<b, y>>
    BY <2>0, <2>1, WhereBitsAre
  <2>3. b \in 0 .. (Bytes - 1)
    <3>1. b \in startByte(t) .. endByte(t) /\ startByte(t) \in Nat /\ endByte(t) < Bytes
          /\ endByte(t) = startByte(t) + Touched(t) - 1 /\ Touched(t) \in Nat
      BY <2>0, BytesOfSignal, Geometry DEF InPayload
    <3> HIDE DEF b
    <3> QED
      BY <3>1, BytesAssumption
  <2>4. Foreign(s, b, y)
    BY <2>2 DEF Foreign, Apart
  <2> HIDE DEF b, y
  <2> QED
    BY <2>2, <2>3, <2>4 DEF SameElsewhere
<1> QED
  BY <1>1 DEF RawOf

(* The signals for which encodeCanMessage is used.                         *)
Sendable(s) == ~ s.big /\ (startByte(s) # endByte(s) => startOffset(s) = 0 /\ endOffset(s) = 7)

LEMMA PanelByte ==
  ASSUME NEW s \in Layout, Sendable(s), NEW j \in 1 .. Touched(s), NEW raw, raw \subseteq Int
  PROVE  LET p == PanelLittle(s, FromLow(s, j), raw)
         IN  /\ p.mask = Own(s, j) /\ p.data = Shl(raw, Rotation(s, j))
             /\ Touched(s) # 1 => p.shift = 8 /\ Rotation(s, j) = 0 /\ Base(s, j) = 8 * (j - 1)
<1> DEFINE n == Touched(s)
           b == FromLow(s, j)
           so == startOffset(s)
           eo == endOffset(s)
           p == PanelLittle(s, b, raw)
<1>1. /\ lowOffset(s) = so /\ topOffset(s) = eo /\ ~ s.big
  BY DEF lowOffset, topOffset, Sendable
<1>2. /\ n \in Nat \ {0} /\ so \in 0 .. 7 /\ eo \in 0 .. 7 /\ j \in 1 .. n
      /\ startByte(s) \in Nat /\ endByte(s) = startByte(s) + n - 1
  BY <1>1, Geometry
<1>3. Rotation(s, j) = (IF j = 1 THEN so ELSE 0) /\ Own(s, j) = Rotation(s, j) .. (IF j = n THEN eo ELSE 7)
  BY <1>1 DEF Rotation, Own, LastBit
<1>4. Byte(Shl(Low(7 - eo + so), so)) = so .. eo
  BY <1>2, MaskIs
<1>5. Shl(raw, 0) = raw
  <2>1. \A x \in Int : x \in Shl(raw, 0) <=> x - 0 \in raw
    <3>1. 0 \in Nat
      OBVIOUS
    <3> QED
      BY <3>1, InShl
  <2>2. Shl(raw, 0) \subseteq Int /\ \A x \in Int : x - 0 = x
    BY DEF Shl
  <2> QED
    BY <2>1, <2>2
<1>6. CASE n = 1
  <2>1. j = 1 /\ startByte(s) = endByte(s) /\ b = startByte(s)
    <3>1. j = 1 /\ startByte(s) = endByte(s)
      BY <1>2, <1>6
    <3>2. b = startByte(s) + 1 - 1
      BY <1>1, <3>1 DEF FromLow
    <3> HIDE DEF b
    <3> QED
      BY <1>2, <3>1, <3>2
  <2> HIDE DEF n, b, so, eo
  <2>2. CASE so # 0 \/ eo # 7
    <3>1. p = [mask |-> so .. eo, data |-> Shl(raw, so), shift |-> so]
      BY <1>4, <2>1, <2>2 DEF PanelLittle, so, eo
    <3> QED
      BY <1>3, <1>6, <2>1, <3>1 DEF n, b
  <2>3. CASE ~ (so # 0 \/ eo # 7)
    <3>1. p = [mask |-> 0 .. 7, data |-> raw, shift |-> 8]
      BY <2>1, <2>3 DEF PanelLittle, so, eo
    <3>2. Rotation(s, j) = 0 /\ Own(s, j) = 0 .. 7
      BY <1>3, <1>6, <2>1, <2>3
    <3> QED
      BY <1>5, <1>6, <3>1, <3>2 DEF n, b
  <2> QED
    BY <2>2, <2>3
<1>7. CASE n # 1
  <2>1. so = 0 /\ eo = 7 /\ startByte(s) # endByte(s)
    <3>1. startByte(s) # endByte(s)
      BY <1>2, <1>7
    <3> QED
      BY <3>1 DEF Sendable
  <2>2. p = [mask |-> 0 .. 7, data |-> raw, shift |-> 8]
    BY <2>1 DEF PanelLittle
  <2>3. Rotation(s, j) = 0 /\ Own(s, j) = 0 .. 7
    BY <1>3, <2>1
  <2>4. Base(s, j) = 8 * (j - 1)
    <3>1. Base(s, j) = IF j = 1 THEN 0 ELSE IF j = n + 1 THEN s.len ELSE 8 * (j - 1) - 0
      BY <1>1, <2>1 DEF Base
    <3> HIDE DEF n
    <3> QED
      BY <1>2, <3>1
  <2> QED
    BY <1>5, <2>2, <2>3, <2>4
<1> QED
  BY <1>6, <1>7

(* For them, it writes what setSignal writes.                              *)
LEMMA PanelWrites ==
  ASSUME NEW s, InPayload(s), Sendable(s), NEW f \in Frames, NEW v \in SUBSET Word
  PROVE  PanelPut(s, f, v) = GenEncode(s, f, v)
<1> DEFINE n == Touched(s)
           sb == startByte(s)
           V == SignStrip(s, v)
           E == GenEncode(s, f, v)
           Start == [raw |-> V, f |-> f]
           Written(k) == [b \in 0 .. (Bytes - 1) |-> IF b \in sb .. (sb + k - 1) THEN E[b] ELSE f[b]]
           Rest(k) == IF k = 0 THEN V ELSE IF n = 1 THEN PutByte(s, sb, Start).raw ELSE Shr(V, 8 * k)
           g == [k \in 0 .. n |-> [raw |-> Rest(k), f |-> Written(k)]]
           Next1(a) == [k \in 0 .. n |-> IF k = 0 THEN Start ELSE PutByte(s, FromLow(s, k), a[k - 1])]
           A == CHOOSE a : a = Next1(a)
<1>1. /\ s \in Layout /\ ~ s.big /\ n \in Nat \ {0} /\ sb \in Nat /\ endByte(s) = sb + n - 1
      /\ sb .. endByte(s) \subseteq 0 .. (Bytes - 1) /\ DOMAIN f = 0 .. (Bytes - 1)
  BY PayloadHolds, Geometry DEF InPayload, Sendable
<1>2. V \subseteq Nat /\ V \subseteq Int
  <2>1. V = v \/ V = v \cap 0 .. (s.len - 1)
    BY DEF SignStrip
  <2>2. v \subseteq Nat /\ v \subseteq Int
    BY DEF Word
  <2> HIDE DEF V
  <2> QED
    BY <2>1, <2>2, Zenon
<1>3. E \in Frames /\ \A b \in 0 .. (Bytes - 1) : b \notin sb .. endByte(s) => E[b] = f[b]
  BY GeneratedByte
<1>4. \A j \in 1 .. n : FromLow(s, j) = sb + j - 1 /\ sb + j - 1 \in sb .. endByte(s)
  <2>1. \A j \in 1 .. n : FromLow(s, j) = sb + j - 1
    BY <1>1 DEF FromLow
  <2> HIDE DEF n, sb
  <2> QED
    BY <1>1, <2>1
<1>5. \A j \in 1 .. n :
        E[sb + j - 1] = (f[sb + j - 1] \ Own(s, j))
                          \cup (Own(s, j) \cap Shl(Shr(V, Base(s, j)), Rotation(s, j)))
  BY <1>4, GeneratedByte
<1>6. Written(0) = f /\ Written(n) = E
  <2> HIDE DEF n, sb, E
  <2>1. sb .. (sb + 0 - 1) = {} /\ sb + n - 1 = endByte(s)
    BY <1>1
  <2>2. Written(0) = [b \in 0 .. (Bytes - 1) |-> f[b]]
    BY <2>1
  <2>3. \A b \in 0 .. (Bytes - 1) : (IF b \in sb .. (sb + n - 1) THEN E[b] ELSE f[b]) = E[b]
    BY <1>3, <2>1
  <2>4. Written(n) = [b \in 0 .. (Bytes - 1) |-> E[b]]
    BY <2>3
  <2>5. f = [b \in 0 .. (Bytes - 1) |-> f[b]] /\ E = [b \in 0 .. (Bytes - 1) |-> E[b]]
    BY <1>3 DEF Frames
  <2> QED
    BY <2>2, <2>4, <2>5
<1>7. ASSUME NEW k \in 1 .. n
      PROVE  [raw |-> Rest(k), f |-> Written(k)] = PutByte(s, FromLow(s, k), [raw |-> Rest(k - 1), f |-> Written(k - 1)])
  <2> DEFINE b == sb + k - 1
             raw == Rest(k - 1)
             p == PanelLittle(s, b, raw)
  <2>1. /\ b \in 0 .. (Bytes - 1) /\ FromLow(s, k) = b /\ k - 1 \in 0 .. n
        /\ b \notin sb .. (sb + (k - 1) - 1) /\ b \in sb .. (sb + k - 1)
        /\ \A c \in 0 .. (Bytes - 1) : c # b => (c \in sb .. (sb + k - 1) <=> c \in sb .. (sb + (k - 1) - 1))
    <3>1. FromLow(s, k) = b /\ b \in 0 .. (Bytes - 1)
      BY <1>1, <1>4
    <3> HIDE DEF n, sb
    <3> QED
      BY <1>1, <3>1
  <2>2. raw \subseteq Int /\ raw = Shr(V, Base(s, k))
    <3>1. CASE k = 1
      <4>1. raw = V /\ Base(s, k) = 0
        BY <3>1 DEF Base
      <4>2. Shr(V, 0) = V
        <5>1. \A x : x \in Shr(V, 0) <=> x \in Nat /\ x + 0 \in V
          <6>1. 0 \in Int
            OBVIOUS
          <6> QED
            BY <1>2, <6>1, InShr
        <5>2. \A x \in Nat : x + 0 = x
          OBVIOUS
        <5> HIDE DEF V
        <5> QED
          BY <1>2, <5>1, <5>2
      <4> QED
        BY <1>2, <4>1, <4>2
    <3>2. CASE k # 1
      <4>1. k - 1 # 0 /\ n # 1 /\ 8 * (k - 1) \in Int
        BY <1>1, <3>2
      <4>2. raw = Shr(V, 8 * (k - 1))
        BY <4>1
      <4>3. Base(s, k) = 8 * (k - 1)
        BY <1>1, <4>1, PanelByte
      <4>4. \A x : x \in Shr(V, 8 * (k - 1)) <=> x \in Nat /\ x + 8 * (k - 1) \in V
        BY <1>2, <4>1, InShr
      <4> QED
        BY <4>2, <4>3, <4>4
    <3> QED
      BY <3>1, <3>2
  <2>3. /\ p.mask = Own(s, k) /\ p.data = Shl(raw, Rotation(s, k))
        /\ n # 1 => p.shift = 8
    <3> HIDE DEF raw, b
    <3>1. LET q == PanelLittle(s, FromLow(s, k), raw)
          IN  q.mask = Own(s, k) /\ q.data = Shl(raw, Rotation(s, k)) /\ (n # 1 => q.shift = 8)
      BY <1>1, <2>2, PanelByte
    <3> QED
      BY <2>1, <3>1, Zenon
  <2>4. PutByte(s, b, [raw |-> raw, f |-> Written(k - 1)]) =
          [raw |-> Shr(raw, p.shift),
           f |-> [Written(k - 1) EXCEPT ![b] = (@ \ p.mask) \cup (p.data \cap p.mask)]]
    BY <1>1 DEF PutByte
  <2>5. E[b] = (f[b] \ p.mask) \cup (p.data \cap p.mask)
    <3>1. E[b] = (f[b] \ Own(s, k)) \cup (Own(s, k) \cap Shl(raw, Rotation(s, k)))
      BY <1>5, <2>2
    <3> HIDE DEF raw, b, E, p
    <3> QED
      BY <2>3, <3>1
  <2>6. Written(k) = [Written(k - 1) EXCEPT ![b] = (@ \ p.mask) \cup (p.data \cap p.mask)]
    <3> DEFINE W == Written(k - 1)
    <3>1. W[b] = f[b] /\ DOMAIN W = 0 .. (Bytes - 1)
      BY <2>1
    <3>2. [W EXCEPT ![b] = (@ \ p.mask) \cup (p.data \cap p.mask)]
            = [c \in 0 .. (Bytes - 1) |-> IF c = b THEN E[b] ELSE W[c]]
      <4> HIDE DEF W, p, E, b
      <4> QED
        BY <2>5, <3>1
    <3>3. \A c \in 0 .. (Bytes - 1) : (IF c = b THEN E[b] ELSE W[c]) = IF c \in sb .. (sb + k - 1) THEN E[c] ELSE f[c]
      <4> HIDE DEF b, E, sb
      <4> QED
        BY <2>1
    <3>4. Written(k) = [c \in 0 .. (Bytes - 1) |-> IF c = b THEN E[b] ELSE W[c]]
      <4> HIDE DEF W, b, E, sb, p
      <4> QED
        BY <3>3
    <3> HIDE DEF W, b, E, sb, p, Written
    <3> QED
      BY <3>2, <3>4, Zenon DEF W
  <2>7. Rest(k) = Shr(raw, p.shift)
    <3>1. CASE n = 1
      <4>1. k = 1 /\ b = sb /\ k # 0
        <5> HIDE DEF n, sb
        <5> QED
          BY <1>1, <3>1
      <4>2. raw = V /\ Rest(k) = PutByte(s, sb, Start).raw
        BY <3>1, <4>1
      <4>3. PutByte(s, sb, Start).raw = Shr(V, PanelLittle(s, sb, V).shift)
        BY <1>1 DEF PutByte
      <4> QED
        BY <4>1, <4>2, <4>3
    <3>2. CASE n # 1
      <4>1. raw = Shr(V, 8 * (k - 1)) /\ Rest(k) = Shr(V, 8 * k)
        <5>1. Base(s, k) = 8 * (k - 1)
          BY <1>1, <2>2, <3>2, PanelByte
        <5>2. k # 0
          OBVIOUS
        <5> QED
          BY <2>2, <3>2, <5>1, <5>2
      <4> HIDE DEF raw, V
      <4>2. \A x : x \in raw <=> x \in Nat /\ x + 8 * (k - 1) \in V
        <5>1. 8 * (k - 1) \in Int
          OBVIOUS
        <5> QED
          BY <1>2, <4>1, <5>1, InShr
      <4>3. \A x : x \in Shr(V, 8 * k) <=> x \in Nat /\ x + 8 * k \in V
        <5>1. 8 * k \in Int
          OBVIOUS
        <5> QED
          BY <1>2, <5>1, InShr
      <4>4. \A x : x \in Shr(raw, 8) <=> x \in Nat /\ x + 8 \in raw
        <5>1. 8 \in Int
          OBVIOUS
        <5> QED
          BY <2>2, <5>1, InShr
      <4>5. \A x \in Nat : x + 8 \in Nat /\ (x + 8) + 8 * (k - 1) = x + 8 * k
        OBVIOUS
      <4>6. Shr(raw, 8) = Shr(V, 8 * k)
        BY <4>2, <4>3, <4>4, <4>5, Zenon
      <4> QED
        BY <2>3, <3>2, <4>1, <4>6, Zenon
    <3> QED
      BY <3>1, <3>2
  <2> HIDE DEF Rest, Written, p, raw, b
  <2> QED
    BY <2>1, <2>4, <2>6, <2>7 DEF raw
<1>8. g = Next1(g)
  <2>1. \A k \in 0 .. n : g[k] = IF k = 0 THEN Start ELSE PutByte(s, FromLow(s, k), g[k - 1])
    <3>1. g[0] = Start
      <4>1. 0 \in 0 .. n /\ Rest(0) = V
        BY <1>1
      <4> HIDE DEF Rest, Written, n
      <4> QED
        BY <1>6, <4>1
    <3>2. ASSUME NEW k \in 1 .. n PROVE g[k] = PutByte(s, FromLow(s, k), g[k - 1])
      <4>1. k \in 0 .. n /\ k - 1 \in 0 .. n
        BY <1>1
      <4> HIDE DEF Rest, Written, n
      <4>2. g[k] = [raw |-> Rest(k), f |-> Written(k)] /\ g[k - 1] = [raw |-> Rest(k - 1), f |-> Written(k - 1)]
        BY <4>1
      <4> HIDE DEF g
      <4> QED
        BY <1>7, <4>2, Zenon
    <3> HIDE DEF g, Start, n
    <3>3. \A k \in 0 .. n : k = 0 \/ (k # 0 /\ k \in 1 .. n)
      BY <1>1
    <3> QED
      BY <3>1, <3>2, <3>3, Zenon
  <2>2. g = [k \in 0 .. n |-> g[k]]
    OBVIOUS
  <2> HIDE DEF g, Start
  <2> QED
    BY <2>1, <2>2
<1>9. A = Next1(A)
  <2> HIDE DEF g, Next1
  <2> QED
    BY <1>8
<1>10. A[n] = g[n]
  <2>1. Alike(n, A, g)
    <3> HIDE DEF A, g, Start
    <3>1. 0 \in 0 .. n /\ \A k \in 1 .. n : k \in 0 .. n /\ k # 0
      BY <1>1
    <3>2. \A k \in 0 .. n : A[k] = IF k = 0 THEN Start ELSE PutByte(s, FromLow(s, k), A[k - 1])
      BY <1>9
    <3>3. \A k \in 0 .. n : g[k] = IF k = 0 THEN Start ELSE PutByte(s, FromLow(s, k), g[k - 1])
      BY <1>8
    <3> HIDE DEF n
    <3> QED
      BY <3>1, <3>2, <3>3, Zenon DEF Alike
  <2> HIDE DEF A, g
  <2>2. n \in Nat /\ n \in 0 .. n
    BY <1>1
  <2>3. \A k \in 0 .. n : A[k] = g[k]
    BY <2>1, <2>2, Agree
  <2> QED
    BY <2>2, <2>3
<1>11. PanelPut(s, f, v) = A[n].f
  BY DEF PanelPut
<1>12. g[n] = [raw |-> Rest(n), f |-> E]
  <2>1. n \in 0 .. n
    BY <1>1
  <2> HIDE DEF n, Rest, Written, E
  <2> QED
    BY <1>6, <2>1
<1> HIDE DEF A, g, Rest, E
<1> QED
  BY <1>10, <1>11, <1>12 DEF E

-----------------------------------------------------------------------------
(* All signals of a message. *)

(* The values that a signal can have, sign bits included.                  *)
Fits(s, v) == v \in SUBSET Word /\ v = SignExtend(s, v \cap 0 .. (s.len - 1))
AllFit(m, values) == \A i \in DOMAIN m : Fits(m[i], values[i])

(* A payload that has all of the values.                                   *)
Carries(f, m, values) == f \in Frames /\ \A i \in DOMAIN m : values[i] = Drawn(m[i], f)

(* The payload after each signal, when one is written after the other.     *)
Writes(g, m, values, start) ==
  g[0] = start /\ \A i \in 1 .. Len(m) : g[i] = GenEncode(m[i], g[i - 1], values[i])

LEMMA SignalsFit ==
  ASSUME NEW m \in Messages
  PROVE  /\ m \in Seq(Signal) /\ Len(m) \in Nat /\ DOMAIN m = 1 .. Len(m)
         /\ \A i \in DOMAIN m : InPayload(m[i])
         /\ \A i, j \in DOMAIN m : i # j => Apart(m[i], m[j])
         /\ m \in Sent => \A i \in DOMAIN m : Sendable(m[i])
<1>1. m \in Seq(Signal) /\ \A i \in DOMAIN m : m[i].len < 32
  BY MessagesAssumption
<1>2. Len(m) \in Nat /\ DOMAIN m = 1 .. Len(m) /\ \A i \in DOMAIN m : m[i] \in Signal
  BY <1>1
<1>3. \A i \in DOMAIN m : InPayload(m[i])
  BY <1>1, <1>2, LayoutAssumption DEF InPayload, Layout
<1>4. ASSUME NEW i \in DOMAIN m, NEW j \in DOMAIN m, i # j
      PROVE  Apart(m[i], m[j])
  BY <1>4, LayoutAssumption DEF Apart
<1>5. m \in Sent => \A i \in DOMAIN m : Sendable(m[i])
  BY SentAssumption DEF Sendable
<1> QED
  BY <1>1, <1>2, <1>3, <1>4, <1>5

LEMMA Extended ==
  ASSUME NEW s \in Layout, NEW X, X \subseteq 0 .. (s.len - 1)
  PROVE  Fits(s, SignExtend(s, X)) /\ SignExtend(s, X) \cap 0 .. (s.len - 1) = X
<1>1. s.len \in 1 .. 31
  BY Geometry
<1>2. SignExtend(s, X) = X \/ SignExtend(s, X) = X \cup (s.len .. 31)
  BY DEF SignExtend
<1>3. SignExtend(s, X) \in SUBSET Word /\ SignExtend(s, X) \cap 0 .. (s.len - 1) = X
  <2> DEFINE high == s.len .. 31
  <2>1. X \subseteq Word /\ high \subseteq Word /\ high \cap 0 .. (s.len - 1) = {}
    BY <1>1 DEF Word
  <2> HIDE DEF high
  <2>2. SignExtend(s, X) = X \/ SignExtend(s, X) = X \cup high
    BY <1>2 DEF high
  <2> QED
    BY <2>1, <2>2
<1> QED
  BY <1>3 DEF Fits

(* Each signal is written after the other, and none spoils another.        *)
LEMMA AllWritten ==
  ASSUME NEW m \in Messages, NEW values, AllFit(m, values),
         NEW start \in Frames, NEW F, Writes(F, m, values, start)
  PROVE  Carries(F[Len(m)], m, values)
<1> DEFINE n == Len(m)
           Value(i) == values[i] \cap 0 .. (m[i].len - 1)
           S == {k \in 0 .. n : F[k] \in Frames /\ \A i \in 1 .. k : RawOf(m[i], F[k]) = Value(i)}
<1>1. /\ n \in Nat /\ DOMAIN m = 1 .. n
      /\ \A i \in 1 .. n : InPayload(m[i]) /\ values[i] \in SUBSET Word
      /\ \A i, j \in 1 .. n : i # j => Apart(m[i], m[j])
  <2>1. n \in Nat /\ DOMAIN m = 1 .. n
    BY SignalsFit
  <2>2. \A i \in 1 .. n : InPayload(m[i]) /\ values[i] \in SUBSET Word
    BY <2>1, SignalsFit DEF Fits, AllFit
  <2>3. \A i, j \in 1 .. n : i # j => Apart(m[i], m[j])
    <3> HIDE DEF n
    <3> QED
      BY <2>1, SignalsFit, Zenon
  <2> QED
    BY <2>1, <2>2, <2>3, Zenon
<1>0. F[0] = start /\ \A i \in 1 .. n : F[i] = GenEncode(m[i], F[i - 1], values[i])
  BY DEF Writes
<1> HIDE DEF n
<1>2. 0 \in S
  BY <1>0, <1>1
<1>3. ASSUME NEW k \in 1 .. n, k - 1 \in S PROVE k \in S
  <2>1. /\ k - 1 \in 0 .. n /\ F[k - 1] \in Frames /\ F[k] = GenEncode(m[k], F[k - 1], values[k])
        /\ \A i \in 1 .. (k - 1) : RawOf(m[i], F[k - 1]) = Value(i)
    BY <1>0, <1>3
  <2> HIDE DEF Value
  <2>2. F[k] \in Frames /\ RawOf(m[k], F[k]) = Value(k) /\ SameElsewhere(m[k], F[k - 1], F[k])
    <3>1. LET E == GenEncode(m[k], F[k - 1], values[k])
          IN  /\ E \in Frames /\ RawOf(m[k], E) = values[k] \cap 0 .. (m[k].len - 1)
              /\ SameElsewhere(m[k], F[k - 1], E)
      BY <1>1, <2>1, GeneratedWrites
    <3> QED
      BY <2>1, <3>1, Zenon DEF Value
  <2>3. ASSUME NEW i \in 1 .. k PROVE RawOf(m[i], F[k]) = Value(i)
    <3>1. CASE i = k
      BY <2>2, <3>1
    <3>2. CASE i # k
      <4>1. i \in 1 .. (k - 1) /\ i \in 1 .. n /\ k \in 1 .. n
        BY <1>1, <3>2
      <4>2. InPayload(m[i]) /\ Apart(m[i], m[k])
        BY <1>1, <3>2, <4>1
      <4>3. RawOf(m[i], F[k]) = RawOf(m[i], F[k - 1])
        <5>1. SameElsewhere(m[k], F[k - 1], F[k])
          BY <2>2
        <5> QED
          BY <4>2, <5>1, OthersAreKept
      <4> QED
        BY <2>1, <4>1, <4>3
    <3> QED
      BY <3>1, <3>2
  <2> QED
    BY <2>1, <2>2, <2>3
<1>4. n \in S
  <2> HIDE DEF S
  <2>1. \A k \in 0 .. n : k \in S
    BY <1>1, <1>2, <1>3, UpTo
  <2> QED
    BY <1>1, <2>1
<1>5. \A i \in 1 .. n : values[i] = SignExtend(m[i], Value(i))
  BY <1>1 DEF Fits, AllFit
<1>6. \A i \in 1 .. n : Drawn(m[i], F[n]) = SignExtend(m[i], RawOf(m[i], F[n]))
  BY DEF Drawn, RawOf
<1> HIDE DEF Value
<1> QED
  BY <1>1, <1>4, <1>5, <1>6 DEF n, Carries

LEMMA WritesExist ==
  ASSUME NEW m \in Messages, NEW values, AllFit(m, values), NEW start \in Frames
  PROVE  \E g \in [0 .. Len(m) -> Frames] : Writes(g, m, values, start)
<1> DEFINE n == Len(m)
           step == [i \in 1 .. n |-> [f \in Frames |-> GenEncode(m[i], f, values[i])]]
<1>1. n \in Nat /\ \A i \in 1 .. n : InPayload(m[i]) /\ values[i] \in SUBSET Word
  BY SignalsFit DEF Fits, AllFit
<1>2. \A i \in 1 .. n : \A f \in Frames : GenEncode(m[i], f, values[i]) \in Frames
  BY <1>1, GeneratedWrites
<1> HIDE DEF n
<1>3. /\ step \in [1 .. n -> [Frames -> Frames]]
      /\ \A i \in 1 .. n : \A f \in Frames : step[i][f] = GenEncode(m[i], f, values[i])
  BY <1>2
<1> HIDE DEF step
<1>4. PICK g : Run(g, Frames, start, n, step)
  BY <1>1, <1>3, Rounds, Zenon
<1>5. g \in [0 .. n -> Frames] /\ g[0] = start /\ \A i \in 1 .. n : g[i] = step[i][g[i - 1]]
  BY <1>4, Zenon DEF Run
<1>6. \A i \in 1 .. n : g[i - 1] \in Frames
  BY <1>1, <1>5
<1>7. \A i \in 1 .. n : g[i] = GenEncode(m[i], g[i - 1], values[i])
  BY <1>3, <1>5, <1>6, Zenon
<1> QED
  BY <1>5, <1>7 DEF n, Writes

LEMMA DefaultsWritten ==
  ASSUME NEW m \in Messages, NEW start, AllFit(m, start)
  PROVE  Carries(Defaults(m, start), m, start)
<1> DEFINE n == Len(m)
           first == [b \in 0 .. (Bytes - 1) |-> {}]
           Next1(a) == [i \in 0 .. n |-> IF i = 0 THEN first ELSE GenEncode(m[i], a[i - 1], start[i])]
           F == CHOOSE F : F = Next1(F)
<1>1. n \in Nat /\ n \in 0 .. n /\ 0 \in 0 .. n /\ \A i \in 1 .. n : i \in 0 .. n /\ i # 0
  BY SignalsFit
<1>2. first \in Frames
  BY DEF Frames
<1> HIDE DEF first
<1>3. PICK g \in [0 .. n -> Frames] : Writes(g, m, start, first)
  BY <1>2, WritesExist
<1>9. g[0] = first /\ \A i \in 1 .. n : g[i] = GenEncode(m[i], g[i - 1], start[i])
  BY <1>3 DEF Writes
<1> HIDE DEF n
<1>4. g = Next1(g)
  <2>1. \A i \in 0 .. n : i = 0 \/ (i # 0 /\ i \in 1 .. n)
    BY <1>1
  <2>2. \A i \in 0 .. n : g[i] = IF i = 0 THEN first ELSE GenEncode(m[i], g[i - 1], start[i])
    BY <1>9, <2>1, Zenon
  <2> QED
    BY <1>3, <2>2
<1>5. F = Next1(F)
  <2> HIDE DEF Next1
  <2> QED
    BY <1>4
<1>6. F[0] = first /\ \A i \in 1 .. n : F[i] = GenEncode(m[i], F[i - 1], start[i])
  <2> HIDE DEF F
  <2>1. \A i \in 0 .. n : F[i] = IF i = 0 THEN first ELSE GenEncode(m[i], F[i - 1], start[i])
    BY <1>5
  <2> QED
    BY <1>1, <2>1, Zenon
<1>7. Defaults(m, start) = F[n]
  BY DEF Defaults, n, first
<1> HIDE DEF F
<1>8. Carries(F[n], m, start)
  <2>1. Writes(F, m, start, first)
    BY <1>6 DEF Writes, n
  <2> QED
    BY <1>2, <2>1, AllWritten DEF n
<1> QED
  BY <1>7, <1>8

LEMMA PanelWritten ==
  ASSUME NEW m \in Sent, NEW values, AllFit(m, values)
  PROVE  Carries(PanelEncode(m, values), m, values)
<1> DEFINE n == Len(m)
           first == [b \in 0 .. (Bytes - 1) |-> 0 .. 7]
           Next1(a) == [i \in 0 .. n |-> IF i = 0 THEN first ELSE PanelPut(m[i], a[i - 1], values[i])]
           F == CHOOSE F : F = Next1(F)
<1>0. m \in Messages
  BY WritersAssumption
<1>1. /\ n \in Nat /\ n \in 0 .. n /\ 0 \in 0 .. n /\ \A i \in 1 .. n : i \in 0 .. n /\ i # 0
      /\ \A i \in 1 .. n : InPayload(m[i]) /\ Sendable(m[i]) /\ values[i] \in SUBSET Word
  <2>1. n \in Nat /\ DOMAIN m = 1 .. n
    BY <1>0, SignalsFit
  <2>2. \A i \in 1 .. n : InPayload(m[i]) /\ Sendable(m[i]) /\ values[i] \in SUBSET Word
    BY <1>0, <2>1, SignalsFit DEF Fits, AllFit
  <2> HIDE DEF n
  <2> QED
    BY <2>1, <2>2
<1>2. first \in Frames
  BY DEF Frames
<1> HIDE DEF first
<1>3. PICK g \in [0 .. n -> Frames] : Writes(g, m, values, first)
  BY <1>0, <1>2, WritesExist
<1>11. g[0] = first /\ \A i \in 1 .. n : g[i] = GenEncode(m[i], g[i - 1], values[i])
  BY <1>3 DEF Writes
<1>10. Carries(g[n], m, values)
  BY <1>0, <1>2, <1>3, AllWritten
<1> HIDE DEF n
<1>4. \A i \in 1 .. n : g[i] = PanelPut(m[i], g[i - 1], values[i])
  <2>1. \A i \in 1 .. n : g[i - 1] \in Frames
    BY <1>1, <1>3
  <2> QED
    BY <1>1, <1>11, <2>1, PanelWrites
<1>5. g = Next1(g)
  <2>1. \A i \in 0 .. n : i = 0 \/ (i # 0 /\ i \in 1 .. n)
    BY <1>1
  <2>2. \A i \in 0 .. n : g[i] = IF i = 0 THEN first ELSE PanelPut(m[i], g[i - 1], values[i])
    BY <1>4, <1>11, <2>1, Zenon
  <2> QED
    BY <1>3, <2>2
<1>6. F = Next1(F)
  <2> HIDE DEF Next1
  <2> QED
    BY <1>5
<1>7. PanelEncode(m, values) = F[n]
  BY DEF PanelEncode, n, first
<1> HIDE DEF F
<1>8. F[0] = first /\ \A i \in 1 .. n : F[i] = PanelPut(m[i], F[i - 1], values[i])
  <2>1. \A i \in 0 .. n : F[i] = IF i = 0 THEN first ELSE PanelPut(m[i], F[i - 1], values[i])
    BY <1>6
  <2> QED
    BY <1>1, <2>1, Zenon
<1>9. \A i \in 0 .. n : F[i] = g[i]
  <2>1. Alike(n, F, g)
    BY <1>4, <1>8, <1>11, Zenon DEF Alike
  <2>2. n \in Nat
    BY <1>1
  <2>3. \A k \in 0 .. n : F[k] = g[k]
    BY <2>1, <2>2, Agree
  <2> QED
    BY <2>3
<1> QED
  BY <1>1, <1>7, <1>9, <1>10

-----------------------------------------------------------------------------
(* The message on its way. *)

LEMMA Readers ==
  ASSUME NEW m \in Messages, NEW i \in DOMAIN m, NEW f \in Frames
  PROVE  /\ GenAsserts(m[i])
         /\ LibDecode(m[i], f) = Drawn(m[i], f) /\ PanelDecode(m[i], f) = Drawn(m[i], f)
         /\ GenDecode(m[i], f) = Drawn(m[i], f)
         /\ Fits(m[i], Drawn(m[i], f))
<1> DEFINE s == m[i]
<1>1. InPayload(s) /\ s \in Layout
  BY SignalsFit DEF InPayload
<1> HIDE DEF s
<1>2. Holds(s, f)
  BY <1>1, PayloadHolds
<1>3. Fits(s, Drawn(s, f))
  BY <1>1, Extended DEF Drawn
<1> QED
  BY <1>1, <1>2, <1>3, AssertionsHold, LibReads, GeneratedReads DEF s

(* What is held is in the payload, and the values are those of signals.    *)
IInv ==
  /\ TypeOK
  /\ \A i \in held : value[i] = Drawn(msg[i], frame)

LEMMA TypesAre ==
  TypeOK <=> /\ msg \in Messages /\ frame \in Frames /\ held \subseteq DOMAIN msg
             /\ DOMAIN value = DOMAIN msg /\ AllFit(msg, value)
BY DEF TypeOK, AllFit, Fits

LEMMA SamplesFit ==
  ASSUME NEW m \in Messages, NEW i \in DOMAIN m, NEW name \in Samples
  PROVE  Fits(m[i], Sample(name, m[i]))
<1> DEFINE s == m[i]
           X == CASE name = "thirds" -> {k \in 0 .. (s.len - 1) : k % 3 = 0}
                  [] name = "others" -> {k \in 0 .. (s.len - 1) : k % 3 # 0}
<1>1. s \in Layout
  BY SignalsFit DEF InPayload
<1>2. X \subseteq 0 .. (s.len - 1)
  BY DEF Samples
<1>3. Sample(name, s) = SignExtend(s, X)
  BY DEF Sample
<1> HIDE DEF X, s
<1>4. Fits(s, SignExtend(s, X))
  BY <1>1, <1>2, Extended
<1> QED
  BY <1>3, <1>4 DEF s

LEMMA InitInv == Init => IInv
<1> SUFFICES ASSUME Init PROVE IInv
  OBVIOUS
<1>1. msg \in Messages /\ held = {} /\ value = [i \in DOMAIN msg |-> {}] /\ frame \in Pattern
  BY DEF Init
<1>2. Pattern \subseteq Frames
  <2> DEFINE D == 0 .. (Bytes - 1)
             none == [b \in D |-> {}]
             all == [b \in D |-> 0 .. 7]
             mixed == [b \in D |-> IF b % 2 = 0 THEN {0, 1, 5} ELSE {1, 2, 4, 7}]
  <2>1. Pattern = {none, all, mixed} /\ Frames = [D -> SUBSET (0 .. 7)]
    BY DEF Pattern, Frames
  <2> HIDE DEF D
  <2>2. none \in [D -> SUBSET (0 .. 7)] /\ all \in [D -> SUBSET (0 .. 7)] /\ mixed \in [D -> SUBSET (0 .. 7)]
    OBVIOUS
  <2> QED
    BY <2>1, <2>2
<1>3. ASSUME NEW i \in DOMAIN msg PROVE Fits(msg[i], {})
  <2>1. msg[i] \in Layout
    BY <1>1, SignalsFit DEF InPayload
  <2>2. SignExtend(msg[i], {}) = {} /\ {} \subseteq 0 .. (msg[i].len - 1)
    BY DEF SignExtend
  <2> QED
    BY <2>1, <2>2, Extended
<1>4. AllFit(msg, value)
  BY <1>1, <1>3 DEF AllFit
<1> QED
  BY <1>1, <1>2, <1>4, TypesAre DEF IInv

(* A slider is moved, or one signal of a generated message is set.         *)
LEMMA SignalSteps ==
  ASSUME IInv, NEW i \in DOMAIN msg, NEW v \in Values(msg[i]), Ask(i, v) \/ SetSignal(i, v)
  PROVE  IInv'
<1>1. /\ msg \in Messages /\ frame \in Frames /\ held \subseteq DOMAIN msg
      /\ DOMAIN value = DOMAIN msg /\ AllFit(msg, value)
      /\ \A k \in held : value[k] = Drawn(msg[k], frame)
  BY TypesAre DEF IInv
<1>2. Fits(msg[i], v)
  BY <1>1, SamplesFit DEF Values
<1>3. msg' = msg /\ value' = [value EXCEPT ![i] = v]
  BY DEF Ask, SetSignal
<1>4. DOMAIN value' = DOMAIN msg /\ value'[i] = v /\ \A k \in DOMAIN msg \ {i} : value'[k] = value[k]
  BY <1>1, <1>3
<1>5. AllFit(msg, value')
  BY <1>1, <1>2, <1>4 DEF AllFit
<1>6. CASE Ask(i, v)
  <2>1. frame' = frame /\ held' = held \ {i}
    BY <1>6 DEF Ask
  <2> QED
    BY <1>1, <1>3, <1>4, <1>5, <2>1, TypesAre DEF IInv, TypeOK, AllFit, Fits
<1>7. CASE SetSignal(i, v)
  <2> DEFINE E == GenEncode(msg[i], frame, v)
  <2>1. frame' = E /\ held' = held \cup {i}
    BY <1>7 DEF SetSignal
  <2>2. InPayload(msg[i]) /\ v \in SUBSET Word
    BY <1>1, <1>2, SignalsFit DEF Fits
  <2>3. /\ E \in Frames /\ RawOf(msg[i], E) = v \cap 0 .. (msg[i].len - 1)
        /\ SameElsewhere(msg[i], frame, E)
    BY <1>1, <2>2, GeneratedWrites
  <2> HIDE DEF E
  <2>4. v = Drawn(msg[i], E)
    BY <1>2, <2>3 DEF Fits, Drawn, RawOf
  <2>5. ASSUME NEW k \in held, k # i PROVE value[k] = Drawn(msg[k], E)
    <3>1. InPayload(msg[k]) /\ Apart(msg[k], msg[i])
      BY <1>1, <2>5, SignalsFit
    <3>2. RawOf(msg[k], E) = RawOf(msg[k], frame)
      BY <2>3, <3>1, OthersAreKept
    <3>3. Drawn(msg[k], E) = Drawn(msg[k], frame)
      BY <3>2 DEF Drawn, RawOf
    <3> QED
      BY <1>1, <3>3
  <2>6. \A k \in held' : value'[k] = Drawn(msg[k], E)
    BY <1>1, <1>4, <2>1, <2>4, <2>5
  <2>7. held' \subseteq DOMAIN msg
    BY <1>1, <2>1
  <2> QED
    BY <1>1, <1>3, <1>4, <1>5, <2>1, <2>3, <2>6, <2>7 DEF IInv, TypeOK, AllFit, Fits
<1> QED
  BY <1>6, <1>7

(* The whole message is written, or read.                                  *)
LEMMA MessageSteps ==
  ASSUME IInv,
         \/ PanelSend
         \/ \E name \in Samples : SetDefaults([i \in DOMAIN msg |-> Sample(name, msg[i])])
         \/ Store
  PROVE  IInv'
<1>1. /\ msg \in Messages /\ frame \in Frames /\ held \subseteq DOMAIN msg
      /\ DOMAIN value = DOMAIN msg /\ AllFit(msg, value)
  BY TypesAre DEF IInv
<1> DEFINE Carried == /\ msg' = msg /\ held' = DOMAIN msg /\ DOMAIN value' = DOMAIN msg
                      /\ AllFit(msg, value') /\ Carries(frame', msg, value')
<1>2. Carried
  <2>1. CASE PanelSend
    <3>1. msg \in Sent /\ msg' = msg /\ value' = value /\ frame' = PanelEncode(msg, value) /\ held' = DOMAIN msg
      BY <2>1 DEF PanelSend
    <3> QED
      BY <1>1, <3>1, PanelWritten
  <2>2. ASSUME NEW name \in Samples, SetDefaults([i \in DOMAIN msg |-> Sample(name, msg[i])])
        PROVE  Carried
    <3> DEFINE start == [i \in DOMAIN msg |-> Sample(name, msg[i])]
    <3>1. msg' = msg /\ value' = start /\ frame' = Defaults(msg, start) /\ held' = DOMAIN msg
      BY <2>2 DEF SetDefaults
    <3>2. DOMAIN start = DOMAIN msg /\ AllFit(msg, start)
      BY <1>1, SamplesFit DEF AllFit
    <3> HIDE DEF start
    <3> QED
      BY <1>1, <3>1, <3>2, DefaultsWritten
  <2>3. CASE Store
    <3>1. /\ msg' = msg /\ frame' = frame /\ held' = DOMAIN msg
          /\ value' = [i \in DOMAIN msg |-> PanelDecode(msg[i], frame)]
      BY <2>3 DEF Store
    <3>2. \A i \in DOMAIN msg : value'[i] = Drawn(msg[i], frame) /\ Fits(msg[i], value'[i])
      BY <1>1, <3>1, Readers
    <3> QED
      BY <1>1, <3>1, <3>2 DEF AllFit, Carries
  <2> QED
    BY <2>1, <2>2, <2>3
<1> QED
  BY <1>1, <1>2 DEF IInv, TypeOK, AllFit, Fits, Carries

(* What is held is in the payload in every state.                          *)
THEOREM Inductive == Spec => []IInv
<1>1. IInv /\ [Next]_vars => IInv'
  <2> SUFFICES ASSUME IInv, [Next]_vars PROVE IInv'
    OBVIOUS
  <2>1. CASE UNCHANGED vars
    BY <2>1 DEF IInv, TypeOK, vars
  <2>2. CASE Next
    BY <2>2, SignalSteps, MessageSteps DEF Next
  <2> QED
    BY <2>1, <2>2
<1> QED
  BY <1>1, InitInv, PTL DEF Spec

(* Every decoder reads the value that the drawing defines, whatever the    *)
(* payload, in every layout that fits; and the assertions behind the loops *)
(* of dbcgen hold (messageDecoder.c, CarState.cpp, dbcgen).                *)
THEOREM DecodersAgreeHolds == Spec => []DecodersAgree
<1>1. IInv => DecodersAgree
  BY TypesAre, Readers DEF IInv, DecodersAgree, SpyDecode
<1> QED
  BY <1>1, Inductive, PTL

(* A value that was written is read until its signal is written again,     *)
(* whatever else is written to the message.                                *)
THEOREM ValuesTravelHolds == Spec => []ValuesTravel
<1>1. IInv => ValuesTravel
  BY TypesAre, Readers DEF IInv, ValuesTravel
<1> QED
  BY <1>1, Inductive, PTL

(* What the panel sends, it decodes to the same values.                    *)
THEOREM PanelRoundTripHolds == Spec => []PanelRoundTrip
<1>1. IInv => PanelRoundTrip
  BY TypesAre, Readers DEF IInv, PanelRoundTrip
<1> QED
  BY <1>1, Inductive, PTL

=============================================================================
