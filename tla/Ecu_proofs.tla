----------------------------- MODULE Ecu_proofs -----------------------------
(***************************************************************************)
(* Theorems about the inside of the ECU process, for every set of byte     *)
(* duties, every traffic on the bus and every number of delegates.         *)
(***************************************************************************)
EXTENDS Ecu, FiniteSetTheorems, TLAPS

-----------------------------------------------------------------------------
(* What the accessors read in a message that has travelled, for every      *)
(* content, whatever was in the memory of the sender and of the receiver   *)
(* before.                                                                 *)

(* A memory holds a field.                                                 *)
Holds(mem, at, n, v) ==
  \A a \in at .. at + n - 1 : a \in DOMAIN mem /\ mem[a] = <<v, a - at>>

(* The addresses of a memory after stores.                                 *)
LEMMA StoreDomain ==
  ASSUME NEW mem, NEW fields
  PROVE  DOMAIN Store(mem, fields) = DOMAIN mem \cup UNION { DOMAIN f : f \in fields }
BY DEF Store

(* What is stored over a memory is there when the other stores leave it    *)
(* alone ...                                                               *)
LEMMA StoredIsHeld ==
  ASSUME NEW at \in Nat, NEW n \in Nat, NEW v, NEW mem, NEW fields, NEW f \in fields,
         Holds(f, at, n, v),
         \A g \in fields : g = f \/ \A a \in at .. at + n - 1 : a \notin DOMAIN g
  PROVE  Holds(Store(mem, fields), at, n, v)
<1> SUFFICES ASSUME NEW a \in at .. at + n - 1
             PROVE  a \in DOMAIN Store(mem, fields) /\ Store(mem, fields)[a] = <<v, a - at>>
  BY DEF Holds
<1>1. a \in DOMAIN f /\ f[a] = <<v, a - at>> BY DEF Holds
<1>2. a \in DOMAIN Store(mem, fields)
  <2> DEFINE all == DOMAIN mem \cup UNION { DOMAIN g : g \in fields }
  <2>1. a \in all BY <1>1
  <2>2. DOMAIN Store(mem, fields) = all BY StoreDomain
  <2> HIDE DEF all
  <2> QED BY <2>1, <2>2
<1>3. \A g \in fields : a \in DOMAIN g => g = f OBVIOUS
<1>4. (CHOOSE g \in fields : a \in DOMAIN g) = f BY <1>1, <1>3
<1> QED BY <1>1, <1>2, <1>4 DEF Store

(* ... and what was there before is there where nothing was stored.        *)
LEMMA HeldIsKept ==
  ASSUME NEW at \in Nat, NEW n \in Nat, NEW v, NEW mem, NEW fields,
         Holds(mem, at, n, v),
         \A g \in fields : \A a \in at .. at + n - 1 : a \notin DOMAIN g
  PROVE  Holds(Store(mem, fields), at, n, v)
BY StoreDomain DEF Holds, Store

(* A field by itself.                                                      *)
LEMMA FieldIsHeld ==
  ASSUME NEW at \in Nat, NEW n \in Nat, NEW v
  PROVE  Holds(Field(at, n, v), at, n, v) /\ DOMAIN Field(at, n, v) = at .. at + n - 1
BY DEF Holds, Field

LEMMA BytesAreHeld ==
  ASSUME NEW at \in Nat, NEW s, Len(s) \in Nat
  PROVE  /\ DOMAIN BytesAt(at, s) = at .. at + Len(s) - 1
         /\ \A k \in 1 .. Len(s) : Holds(BytesAt(at, s), at + k - 1, 1, s[k])
BY DEF Holds, BytesAt

(* The value of a field that is held.                                      *)
LEMMA ValueIsRead ==
  ASSUME NEW mem, NEW at \in Nat, NEW n \in Nat \ {0}, NEW v, Holds(mem, at, n, v)
  PROVE  Value(mem, at, n) = v
<1>1. mem[at] = <<v, 0>> BY DEF Holds
<1>2. \A j \in 0 .. n - 1 : at + j \in at .. at + n - 1 /\ at + j - at = j OBVIOUS
<1>3. \A j \in 0 .. n - 1 : mem[at + j] = <<v, j>> BY <1>2 DEF Holds
<1> QED BY <1>1, <1>3 DEF Value

(* What is within the length that is sent is in the datagram.              *)
LEMMA SentIsHeld ==
  ASSUME NEW mem, NEW src, NEW at \in Nat, NEW n \in Nat, NEW v,
         Holds(Store(mem, {Field(4, 4, src)}), at, n, v),
         msg_len(mem) \in Nat, at + n <= msg_len(mem)
  PROVE  Holds(send(mem, src), at, n, v)
<1> DEFINE full == Store(mem, {Field(4, 4, src)})
           length == msg_len(mem)
<1>1. send(mem, src) = [a \in 0 .. length - 1 |-> full[a]] BY DEF send
<1>2. \A a \in at .. at + n - 1 : a \in 0 .. length - 1 OBVIOUS
<1>3. \A a \in at .. at + n - 1 : full[a] = <<v, a - at>> BY DEF Holds
<1> HIDE DEF full, length
<1> QED BY <1>1, <1>2, <1>3 DEF Holds

(* A field within the length that is sent, and not the sender's number,    *)
(* arrives.                                                                *)
LEMMA FieldTravels ==
  ASSUME NEW mem, NEW old, NEW src, NEW at \in Nat, NEW n \in Nat, NEW v,
         Holds(mem, at, n, v), msg_len(mem) \in Nat, at + n <= msg_len(mem),
         at + n <= 4 \/ at >= 8
  PROVE  Holds(receive(old, send(mem, src)), at, n, v)
<1>1. Holds(Store(mem, {Field(4, 4, src)}), at, n, v)
  BY FieldIsHeld, HeldIsKept
<1>2. Holds(send(mem, src), at, n, v)
  BY <1>1, SentIsHeld
<1> QED BY <1>2, StoredIsHeld DEF receive

(* The sender's number is put into every message of a header at least.     *)
LEMMA SourceTravels ==
  ASSUME NEW mem, NEW old, NEW src, msg_len(mem) \in Nat, msg_len(mem) >= 8
  PROVE  getSysId(receive(old, send(mem, src))) = src
<1>1. Holds(Store(mem, {Field(4, 4, src)}), 4, 4, src)
  BY FieldIsHeld, StoredIsHeld
<1>2. Holds(send(mem, src), 4, 4, src)
  BY <1>1, SentIsHeld
<1>3. Holds(receive(old, send(mem, src)), 4, 4, src)
  BY <1>2, StoredIsHeld DEF receive
<1> QED BY <1>3, ValueIsRead DEF getSysId

(* What createCanMsg stores, with a payload and without one.               *)
LEMMA CanIsLaidOut ==
  ASSUME NEW mem, NEW id, NEW bus, NEW dlc \in Nat, NEW bytes,
         Len(bytes) \in Nat, dlc <= Len(bytes),
         NEW c, c = Store(mem, CanHeader(id, bus, dlc) \cup {BytesAt(14, bytes)})
  PROVE  /\ Holds(c, 0, 4, "can") /\ Holds(c, 8, 4, id) /\ Holds(c, 12, 1, bus)
         /\ Holds(c, 13, 1, dlc)
         /\ \A k \in 1 .. dlc : Holds(c, 14 + k - 1, 1, bytes[k])
<1> DEFINE fields == CanHeader(id, bus, dlc) \cup {BytesAt(14, bytes)}
<1>1. c = Store(mem, fields) OBVIOUS
<1>2. \A g \in fields :
        \/ g = Type("can") /\ DOMAIN g = 0 .. 3
        \/ g = Field(8, 4, id) /\ DOMAIN g = 8 .. 11
        \/ g = Field(12, 1, bus) /\ DOMAIN g = 12 .. 12
        \/ g = Field(13, 1, dlc) /\ DOMAIN g = 13 .. 13
        \/ g = BytesAt(14, bytes) /\ DOMAIN g = 14 .. 13 + Len(bytes)
  <2>1. /\ DOMAIN Field(0, 4, "can") = 0 .. 3 /\ DOMAIN Field(8, 4, id) = 8 .. 11
        /\ DOMAIN Field(12, 1, bus) = 12 .. 12
        /\ DOMAIN Field(13, 1, dlc) = 13 .. 13
    BY DEF Field
  <2>2. DOMAIN BytesAt(14, bytes) = 14 .. 13 + Len(bytes)
    BY BytesAreHeld
  <2> QED BY <2>1, <2>2 DEF CanHeader, Type
<1>3. Holds(c, 0, 4, "can")
  <2>1. Holds(Type("can"), 0, 4, "can") /\ Type("can") \in fields
    BY FieldIsHeld DEF Type, CanHeader
  <2> HIDE DEF fields
  <2> QED BY <1>1, <1>2, <2>1, StoredIsHeld
<1>4. Holds(c, 8, 4, id)
  <2>1. Holds(Field(8, 4, id), 8, 4, id) /\ Field(8, 4, id) \in fields
    BY FieldIsHeld DEF CanHeader
  <2> HIDE DEF fields
  <2> QED BY <1>1, <1>2, <2>1, StoredIsHeld
<1>5. Holds(c, 12, 1, bus)
  <2>1. Holds(Field(12, 1, bus), 12, 1, bus) /\ Field(12, 1, bus) \in fields
    BY FieldIsHeld DEF CanHeader
  <2> HIDE DEF fields
  <2> QED BY <1>1, <1>2, <2>1, StoredIsHeld
<1>6. Holds(c, 13, 1, dlc)
  <2>1. Holds(Field(13, 1, dlc), 13, 1, dlc) /\ Field(13, 1, dlc) \in fields
    BY FieldIsHeld DEF CanHeader
  <2> HIDE DEF fields
  <2> QED BY <1>1, <1>2, <2>1, StoredIsHeld
<1>7. ASSUME NEW k \in 1 .. dlc PROVE Holds(c, 14 + k - 1, 1, bytes[k])
  <2>1. k \in 1 .. Len(bytes) OBVIOUS
  <2>2. Holds(BytesAt(14, bytes), 14 + k - 1, 1, bytes[k]) /\ BytesAt(14, bytes) \in fields
    BY <2>1, BytesAreHeld
  <2>3. 14 + k - 1 \in Nat /\ 14 + k - 1 >= 14 OBVIOUS
  <2> HIDE DEF fields
  <2> QED BY <1>1, <1>2, <2>2, <2>3, StoredIsHeld
<1> QED BY <1>3, <1>4, <1>5, <1>6, <1>7

(* A laid out CAN message is read as it was made.                          *)
LEMMA LaidOutCanTravels ==
  ASSUME NEW c, NEW old, NEW src, NEW id, NEW bus, NEW dlc \in Nat, NEW bytes,
         Holds(c, 0, 4, "can"), Holds(c, 8, 4, id), Holds(c, 12, 1, bus),
         Holds(c, 13, 1, dlc), \A k \in 1 .. dlc : Holds(c, 14 + k - 1, 1, bytes[k])
  PROVE  LET r == receive(old, send(c, src)) IN
         /\ msg_len(c) = 14 + dlc
         /\ getMsgType(r) = "can" /\ getSysId(r) = src
         /\ getCanInfo(r) = [id |-> id, bus |-> bus, payload |-> [k \in 1 .. dlc |-> bytes[k]]]
<1> DEFINE r == receive(old, send(c, src))
<1>1. msg_len(c) = 14 + dlc
  <2>1. getMsgType(c) = "can" /\ Value(c, 13, 1) = dlc
    BY ValueIsRead DEF getMsgType
  <2> QED BY <2>1 DEF msg_len, HeaderSize, CanFixed
<1>2. /\ Holds(r, 0, 4, "can") /\ Holds(r, 8, 4, id) /\ Holds(r, 12, 1, bus)
      /\ Holds(r, 13, 1, dlc)
  <2>1. msg_len(c) \in Nat /\ msg_len(c) >= 14 BY <1>1
  <2> QED BY <2>1, FieldTravels
<1>3. \A k \in 1 .. dlc : Holds(r, 14 + k - 1, 1, bytes[k])
  <2> SUFFICES ASSUME NEW k \in 1 .. dlc PROVE Holds(r, 14 + k - 1, 1, bytes[k])
    OBVIOUS
  <2>1. 14 + k - 1 \in Nat /\ 14 + k - 1 + 1 <= msg_len(c) /\ 14 + k - 1 >= 8 /\ msg_len(c) \in Nat
    BY <1>1
  <2>2. Holds(c, 14 + k - 1, 1, bytes[k]) OBVIOUS
  <2> QED BY <2>1, <2>2, FieldTravels
<1>4. getSysId(r) = src BY <1>1, SourceTravels
<1> HIDE DEF r
<1>5. /\ Value(r, 0, 4) = "can" /\ Value(r, 8, 4) = id /\ Value(r, 12, 1) = bus
      /\ Value(r, 13, 1) = dlc
  BY <1>2, ValueIsRead
<1>6. \A k \in 1 .. dlc : Value(r, 14 + k - 1, 1) = bytes[k]
  <2> SUFFICES ASSUME NEW k \in 1 .. dlc PROVE Value(r, 14 + k - 1, 1) = bytes[k]
    OBVIOUS
  <2>1. 14 + k - 1 \in Nat OBVIOUS
  <2> QED BY <1>3, <2>1, ValueIsRead
<1>7. BytesFrom(r, 14, dlc) = [k \in 1 .. dlc |-> bytes[k]] BY <1>6 DEF BytesFrom
<1>8. getMsgType(r) = "can" BY <1>5 DEF getMsgType
<1>9. getCanInfo(r) = [id |-> id, bus |-> bus, payload |-> [k \in 1 .. dlc |-> bytes[k]]]
  BY <1>5, <1>7 DEF getCanInfo
<1> QED BY <1>1, <1>4, <1>8, <1>9 DEF r

(* A CAN message is read as it was made ...                                *)
THEOREM CanTravels ==
  ASSUME NEW mem, NEW old, NEW src, NEW S, NEW id, NEW bus, NEW payload \in Seq(S)
  PROVE  LET c == createCanMsg(mem, id, payload, bus)
             r == receive(old, send(c, src)) IN
         /\ msg_len(c) = 14 + Len(payload)
         /\ getMsgType(r) = "can" /\ getSysId(r) = src
         /\ getCanInfo(r) = [id |-> id, bus |-> bus, payload |-> payload]
<1> DEFINE n == Len(payload)
           c == createCanMsg(mem, id, payload, bus)
<1>1. /\ n \in Nat /\ Len(payload) \in Nat /\ n <= Len(payload)
      /\ payload = [k \in 1 .. n |-> payload[k]]
  OBVIOUS
<1>2. c = Store(mem, CanHeader(id, bus, n) \cup {BytesAt(14, payload)})
  BY DEF createCanMsg
<1> HIDE DEF c, n
<1>3. /\ Holds(c, 0, 4, "can") /\ Holds(c, 8, 4, id) /\ Holds(c, 12, 1, bus)
      /\ Holds(c, 13, 1, n)
      /\ \A k \in 1 .. n : Holds(c, 14 + k - 1, 1, payload[k])
  BY <1>1, <1>2, CanIsLaidOut
<1>4. LET r == receive(old, send(c, src)) IN
      /\ msg_len(c) = 14 + n /\ getMsgType(r) = "can" /\ getSysId(r) = src
      /\ getCanInfo(r) = [id |-> id, bus |-> bus, payload |-> [k \in 1 .. n |-> payload[k]]]
  BY <1>1, <1>3, LaidOutCanTravels
<1> QED BY <1>1, <1>4 DEF c, n

(* ... and without a payload, as zeros.                                    *)
THEOREM EmptyCanTravels ==
  ASSUME NEW mem, NEW old, NEW src, NEW id, NEW bus, NEW dlc \in 0 .. MaxDlc
  PROVE  LET c == createEmptyCanMsg(mem, id, dlc, bus)
             r == receive(old, send(c, src)) IN
         /\ msg_len(c) = 14 + dlc
         /\ getMsgType(r) = "can" /\ getSysId(r) = src
         /\ getCanInfo(r) = [id |-> id, bus |-> bus, payload |-> [k \in 1 .. dlc |-> 0]]
<1> DEFINE zeros == [k \in 1 .. MaxDlc |-> 0]
           c == createEmptyCanMsg(mem, id, dlc, bus)
<1>1. /\ dlc \in Nat /\ Len(zeros) \in Nat /\ dlc <= Len(zeros)
      /\ \A k \in 1 .. dlc : zeros[k] = 0
  BY DEF MaxDlc
<1>2. c = Store(mem, CanHeader(id, bus, dlc) \cup {BytesAt(14, zeros)})
  BY DEF createEmptyCanMsg
<1> HIDE DEF c, zeros
<1>3. /\ Holds(c, 0, 4, "can") /\ Holds(c, 8, 4, id) /\ Holds(c, 12, 1, bus)
      /\ Holds(c, 13, 1, dlc)
      /\ \A k \in 1 .. dlc : Holds(c, 14 + k - 1, 1, zeros[k])
  BY <1>1, <1>2, CanIsLaidOut
<1>4. LET r == receive(old, send(c, src)) IN
      /\ msg_len(c) = 14 + dlc /\ getMsgType(r) = "can" /\ getSysId(r) = src
      /\ getCanInfo(r) = [id |-> id, bus |-> bus, payload |-> [k \in 1 .. dlc |-> zeros[k]]]
  BY <1>1, <1>3, LaidOutCanTravels
<1>5. [k \in 1 .. dlc |-> zeros[k]] = [k \in 1 .. dlc |-> 0] BY <1>1
<1> QED BY <1>4, <1>5 DEF c

(* Nothing is written behind a message that is long enough.                *)
LEMMA NothingBehind ==
  ASSUME NEW c, NEW old, NEW src, DOMAIN old = Address, msg_len(c) \in 0 .. FullSize
  PROVE  DOMAIN receive(old, send(c, src)) = Address
<1> DEFINE length == msg_len(c)
<1>1. DOMAIN send(c, src) = 0 .. length - 1 BY DEF send
<1>2. FullSize \in Int
  BY SizeAssumption DEF FullSize, MaxLength, HeaderSize
<1>3. DOMAIN receive(old, send(c, src)) = DOMAIN old \cup DOMAIN send(c, src)
  <2> DEFINE d == send(c, src)
             fields == {d}
  <2>1. UNION { DOMAIN f : f \in fields } = DOMAIN d OBVIOUS
  <2>2. receive(old, d) = Store(old, fields) BY DEF receive
  <2> HIDE DEF d, fields
  <2>3. DOMAIN receive(old, d) = DOMAIN old \cup DOMAIN d BY <2>1, <2>2, StoreDomain
  <2> QED BY <2>3 DEF d
<1> HIDE DEF length
<1>4. \A a \in 0 .. length - 1 : a \in 0 .. FullSize - 1
  <2>1. length \in 0 .. FullSize BY DEF length
  <2>2. length \in Int /\ length <= FullSize BY <1>2, <2>1
  <2> QED BY <1>2, <2>2
<1>5. DOMAIN send(c, src) \subseteq Address
  BY <1>1, <1>4 DEF Address
<1> QED BY <1>3, <1>5

(* The header, the length and the bytes of a text.                         *)
LEMMA TextIsLaidOut ==
  ASSUME NEW mem, NEW string, Len(Cut(string)) \in Nat
  PROVE  LET c == createTextMsg(mem, string) IN
         /\ Holds(c, 0, 4, "text") /\ Holds(c, 8, 2, Len(Cut(string)))
         /\ \A k \in 1 .. Len(Cut(string)) : Holds(c, 10 + k - 1, 1, Cut(string)[k])
<1> DEFINE text == Cut(string)
           length == Field(8, 2, Len(text))
           fields == {Type("text"), length, BytesAt(10, text)}
           c == createTextMsg(mem, string)
<1>1. c = Store(mem, fields) BY DEF createTextMsg
<1> HIDE DEF text, c
<1>2. DOMAIN Type("text") = 0 .. 3 /\ DOMAIN length = 8 .. 9 BY DEF Type, Field
<1>3. DOMAIN BytesAt(10, text) = 10 .. 9 + Len(text) BY BytesAreHeld DEF text
<1>4. Holds(c, 0, 4, "text")
  <2>1. Holds(Type("text"), 0, 4, "text") BY FieldIsHeld DEF Type
  <2>2. \A g \in fields : g = Type("text") \/ \A a \in 0 .. 4 - 1 : a \notin DOMAIN g
    BY <1>2, <1>3 DEF text
  <2>3. Type("text") \in fields OBVIOUS
  <2> HIDE DEF fields
  <2> QED BY <1>1, <2>1, <2>2, <2>3, StoredIsHeld
<1>5. Holds(c, 8, 2, Len(text))
  <2>1. Holds(length, 8, 2, Len(text)) BY FieldIsHeld
  <2>2. \A g \in fields : g = length \/ \A a \in 8 .. 8 + 2 - 1 : a \notin DOMAIN g
    BY <1>2, <1>3 DEF text
  <2>3. length \in fields OBVIOUS
  <2> HIDE DEF fields, length
  <2> QED BY <1>1, <2>1, <2>2, <2>3, StoredIsHeld DEF length
<1>6. ASSUME NEW k \in 1 .. Len(text) PROVE Holds(c, 10 + k - 1, 1, text[k])
  <2>1. Holds(BytesAt(10, text), 10 + k - 1, 1, text[k]) BY BytesAreHeld DEF text
  <2>2. 10 + k - 1 \in Nat /\ 10 + k - 1 >= 10 BY DEF text
  <2>3. \A g \in fields : \/ g = BytesAt(10, text)
                          \/ \A a \in 10 + k - 1 .. 10 + k - 1 + 1 - 1 : a \notin DOMAIN g
    BY <1>2, <2>2
  <2> QED BY <1>1, <2>1, <2>2, <2>3, StoredIsHeld
<1> QED BY <1>4, <1>5, <1>6 DEF text, c

(* A text is read up to the limit of its length.                           *)
THEOREM TextTravels ==
  ASSUME NEW mem, NEW old, NEW src, NEW S, NEW string \in Seq(S)
  PROVE  LET c == createTextMsg(mem, string)
             r == receive(old, send(c, src)) IN
         /\ msg_len(c) = 10 + Len(Cut(string)) /\ Len(Cut(string)) \in 0 .. MaxLength
         /\ getMsgType(r) = "text" /\ getSysId(r) = src
         /\ BytesFrom(r, 10, LengthOf(r)) = Cut(string)
<1> DEFINE text == Cut(string)
           n == Len(text)
           c == createTextMsg(mem, string)
           r == receive(old, send(c, src))
<1>1. n \in Nat /\ text = [k \in 1 .. n |-> text[k]]
  <2>1. MaxLength \in Nat BY SizeAssumption DEF MaxLength, HeaderSize
  <2>2. CASE Len(string) < MaxLength
    <3>1. string \in Seq(S \cup {"nul"}) OBVIOUS
    <3>2. Append(string, "nul") \in Seq(S \cup {"nul"}) BY <3>1
    <3>3. text = Append(string, "nul") BY <2>2 DEF Cut
    <3> HIDE DEF text
    <3>4. text \in Seq(S \cup {"nul"}) BY <3>2, <3>3
    <3> QED BY <3>4
  <2>3. CASE ~(Len(string) < MaxLength)
    <3>1. SubSeq(string, 1, MaxLength) \in Seq(S) BY <2>1, <2>3
    <3>2. text = SubSeq(string, 1, MaxLength) BY <2>3 DEF Cut
    <3> HIDE DEF text
    <3>3. text \in Seq(S) BY <3>1, <3>2
    <3> QED BY <3>3
  <2> QED BY <2>2, <2>3
<1>2. /\ Holds(c, 0, 4, "text") /\ Holds(c, 8, 2, n)
      /\ \A k \in 1 .. n : Holds(c, 10 + k - 1, 1, text[k])
  BY <1>1, TextIsLaidOut
<1> HIDE DEF c, text
<1>3. msg_len(c) = 10 + n
  <2>1. getMsgType(c) = "text" /\ LengthOf(c) = n
    BY <1>2, ValueIsRead DEF getMsgType, LengthOf
  <2> QED BY <1>1, <2>1 DEF msg_len, HeaderSize
<1>4. msg_len(c) \in Nat /\ msg_len(c) >= 10 BY <1>1, <1>3
<1>5. Holds(r, 0, 4, "text") /\ Holds(r, 8, 2, n) BY <1>2, <1>4, FieldTravels
<1>6. \A k \in 1 .. n : Holds(r, 10 + k - 1, 1, text[k])
  <2> SUFFICES ASSUME NEW k \in 1 .. n PROVE Holds(r, 10 + k - 1, 1, text[k])
    OBVIOUS
  <2>1. 10 + k - 1 \in Nat /\ 10 + k - 1 + 1 <= msg_len(c) /\ 10 + k - 1 >= 8
    BY <1>1, <1>3
  <2>2. Holds(c, 10 + k - 1, 1, text[k]) BY <1>2
  <2> QED BY <1>4, <2>1, <2>2, FieldTravels
<1>7. getSysId(r) = src BY <1>4, SourceTravels
<1> HIDE DEF r, n
<1>8. getMsgType(r) = "text" /\ LengthOf(r) = n
  BY <1>5, ValueIsRead DEF getMsgType, LengthOf
<1>9. \A k \in 1 .. n : Value(r, 10 + k - 1, 1) = text[k]
  <2> SUFFICES ASSUME NEW k \in 1 .. n PROVE Value(r, 10 + k - 1, 1) = text[k]
    OBVIOUS
  <2>1. 10 + k - 1 \in Nat BY <1>1
  <2> QED BY <1>6, <2>1, ValueIsRead
<1>10. BytesFrom(r, 10, n) = text BY <1>1, <1>9 DEF BytesFrom
<1>11. n \in 0 .. MaxLength
  <2>1. MaxLength \in Nat BY SizeAssumption DEF MaxLength, HeaderSize
  <2>2. Len(text) <= MaxLength BY <2>1 DEF text, Cut
  <2> QED BY <1>1, <2>1, <2>2 DEF n
<1> QED BY <1>3, <1>7, <1>8, <1>10, <1>11 DEF r, c, n, text

-----------------------------------------------------------------------------
(* Signals *)

(* Where a signal lies, and that no two lie over one another.              *)
LEMMA SignalsAreApart ==
  /\ \A k \in Nat \ {0} : SignalAt(k) \in Nat /\ SignalAt(k) >= 10
  /\ \A k, j \in Nat \ {0} : k < j => SignalAt(k) + 8 <= SignalAt(j)
BY DEF SignalAt, SignalSize

LEMMA MaxCountIsNat == MaxCount \in Nat /\ 10 + 8 * MaxCount <= FullSize
BY SizeAssumption DEF MaxCount, FullSize, MaxLength, HeaderSize, SignalSize

(* What createPwmMsg and createAdcMsg store: the signals, or none.         *)
Taken(s) == IF CountAllowed(Len(s)) THEN s ELSE <<>>

LEMMA SignalsAreLaidOut ==
  ASSUME NEW mem, NEW type, NEW s, Len(s) \in Nat, CountAllowed(Len(s))
  PROVE  LET c == createSignalMsg(mem, type, s) IN
         /\ Holds(c, 0, 4, type) /\ Holds(c, 8, 2, Len(s))
         /\ \A k \in 1 .. Len(s) : Holds(c, SignalAt(k), 8, s[k])
<1> DEFINE c == createSignalMsg(mem, type, s)
           count == Field(8, 2, Len(s))
           signals == { Field(SignalAt(k), 8, s[k]) : k \in 1 .. Len(s) }
           fields == {Type(type), count} \cup signals
<1>1. c = Store(Zeroed(mem), fields) BY DEF createSignalMsg, SignalSize
<1>2. DOMAIN Type(type) = 0 .. 3 /\ DOMAIN count = 8 .. 9 BY DEF Type, Field
<1>3. \A j \in 1 .. Len(s) : SignalAt(j) \in Nat /\ SignalAt(j) >= 10
  BY SignalsAreApart
<1>4. \A j \in 1 .. Len(s) :
        DOMAIN Field(SignalAt(j), 8, s[j]) = SignalAt(j) .. SignalAt(j) + 7
  BY <1>3 DEF Field
<1>5. \A g \in signals : \A a \in DOMAIN g : a \in Nat /\ a >= 10
  BY <1>3, <1>4
<1> HIDE DEF c
<1>6. Holds(c, 0, 4, type)
  <2>1. Holds(Type(type), 0, 4, type) BY FieldIsHeld DEF Type
  <2>2. \A g \in fields : g = Type(type) \/ \A a \in 0 .. 4 - 1 : a \notin DOMAIN g
    BY <1>2, <1>5
  <2> HIDE DEF signals
  <2>3. Type(type) \in fields OBVIOUS
  <2> HIDE DEF fields
  <2> QED BY <1>1, <2>1, <2>2, <2>3, StoredIsHeld
<1>7. Holds(c, 8, 2, Len(s))
  <2>1. Holds(count, 8, 2, Len(s)) BY FieldIsHeld
  <2>2. \A g \in fields : g = count \/ \A a \in 8 .. 8 + 2 - 1 : a \notin DOMAIN g
    BY <1>2, <1>5
  <2> HIDE DEF signals
  <2>3. count \in fields OBVIOUS
  <2> HIDE DEF fields
  <2> QED BY <1>1, <2>1, <2>2, <2>3, StoredIsHeld
<1>8. ASSUME NEW k \in 1 .. Len(s) PROVE Holds(c, SignalAt(k), 8, s[k])
  <2> DEFINE f == Field(SignalAt(k), 8, s[k])
  <2>1. f \in fields /\ Holds(f, SignalAt(k), 8, s[k])
    BY <1>3, FieldIsHeld
  <2>2. ASSUME NEW g \in fields, NEW a \in SignalAt(k) .. SignalAt(k) + 8 - 1,
               a \in DOMAIN g
        PROVE  g = f
    <3>1. g # Type(type) /\ g # count BY <1>2, <1>3, <2>2
    <3>2. PICK j \in 1 .. Len(s) : g = Field(SignalAt(j), 8, s[j]) BY <3>1
    <3>3. a \in SignalAt(j) .. SignalAt(j) + 7 BY <1>4, <2>2, <3>2
    <3>4. j = k
      <4>1. k < j => SignalAt(k) + 8 <= SignalAt(j) BY SignalsAreApart
      <4>2. j < k => SignalAt(j) + 8 <= SignalAt(k) BY SignalsAreApart
      <4> QED BY <1>3, <3>3, <4>1, <4>2
    <3> QED BY <3>2, <3>4
  <2>3. SignalAt(k) \in Nat BY <1>3
  <2> HIDE DEF f, fields
  <2> QED BY <1>1, <2>1, <2>2, <2>3, StoredIsHeld
<1> QED BY <1>6, <1>7, <1>8 DEF c

SignalTypes == {"pwm", "adc"}

(* Signals are read as they were put in, and none if they were too many.   *)
THEOREM SignalsTravel ==
  ASSUME NEW mem, NEW old, NEW src, NEW type \in SignalTypes, NEW S, NEW s \in Seq(S)
  PROVE  LET c == createSignalMsg(mem, type, s)
             r == receive(old, send(c, src)) IN
         /\ msg_len(c) = 10 + 8 * Len(Taken(s)) /\ Len(Taken(s)) \in 0 .. MaxCount
         /\ getMsgType(r) = type /\ getSysId(r) = src
         /\ SignalsOf(r) = Taken(s)
<1> DEFINE n == Len(Taken(s))
           c == createSignalMsg(mem, type, s)
           r == receive(old, send(c, src))
<1>1. n \in Nat /\ Taken(s) = [k \in 1 .. n |-> Taken(s)[k]]
  <2>1. Taken(s) \in Seq(S) BY DEF Taken
  <2> QED BY <2>1
<1>2. /\ Holds(c, 0, 4, type) /\ Holds(c, 8, 2, n)
      /\ \A k \in 1 .. n : Holds(c, SignalAt(k), 8, Taken(s)[k])
  <2>1. CASE CountAllowed(Len(s))
    <3>1. Taken(s) = s BY <2>1 DEF Taken
    <3> HIDE DEF c
    <3> QED BY <2>1, <3>1, SignalsAreLaidOut DEF c
  <2>2. CASE ~CountAllowed(Len(s))
    <3> DEFINE count == Field(8, 2, 0)
    <3>1. n = 0 BY <2>2 DEF Taken
    <3>2. c = Store(mem, {Type(type), count}) BY <2>2 DEF createSignalMsg
    <3>3. DOMAIN Type(type) = 0 .. 3 /\ DOMAIN count = 8 .. 9 BY DEF Type, Field
    <3>4. Holds(Type(type), 0, 4, type) BY FieldIsHeld DEF Type
    <3>5. Holds(count, 8, 2, 0) BY FieldIsHeld
    <3> DEFINE fields == {Type(type), count}
    <3>8. \A g \in fields : g = Type(type) \/ \A a \in 0 .. 4 - 1 : a \notin DOMAIN g
      BY <3>3
    <3>9. \A g \in fields : g = count \/ \A a \in 8 .. 8 + 2 - 1 : a \notin DOMAIN g
      BY <3>3
    <3>10. Type(type) \in fields /\ count \in fields OBVIOUS
    <3> HIDE DEF c, n, fields, count
    <3>6. Holds(c, 0, 4, type)
      <4>1. c = Store(mem, fields) BY <3>2 DEF fields
      <4> QED BY <4>1, <3>4, <3>8, <3>10, StoredIsHeld
    <3>7. Holds(c, 8, 2, 0)
      <4>1. c = Store(mem, fields) BY <3>2 DEF fields
      <4> QED BY <4>1, <3>5, <3>9, <3>10, StoredIsHeld
    <3> QED BY <3>1, <3>6, <3>7
  <2> QED BY <2>1, <2>2
<1> HIDE DEF c, n
<1>3. msg_len(c) = 10 + 8 * n
  <2>1. getMsgType(c) = type /\ LengthOf(c) = n
    BY <1>1, <1>2, ValueIsRead DEF getMsgType, LengthOf
  <2> QED BY <1>1, <2>1, MaxCountIsNat DEF msg_len, SignalTypes, HeaderSize, SignalSize
<1>4. msg_len(c) \in Nat /\ msg_len(c) >= 10 BY <1>1, <1>3
<1>5. Holds(r, 0, 4, type) /\ Holds(r, 8, 2, n)
  <2>1. Holds(r, 0, 4, type) BY <1>2, <1>4, FieldTravels
  <2>2. Holds(r, 8, 2, n)
    <3>1. Holds(c, 8, 2, n) /\ 8 + 2 <= msg_len(c) BY <1>2, <1>4
    <3> QED BY <1>4, <3>1, FieldTravels
  <2> QED BY <2>1, <2>2
<1>6. \A k \in 1 .. n : Holds(r, SignalAt(k), 8, Taken(s)[k])
  <2> SUFFICES ASSUME NEW k \in 1 .. n PROVE Holds(r, SignalAt(k), 8, Taken(s)[k])
    OBVIOUS
  <2>1. SignalAt(k) \in Nat /\ SignalAt(k) + 8 <= msg_len(c) /\ SignalAt(k) >= 8
    BY <1>1, <1>3 DEF SignalAt, SignalSize
  <2>2. Holds(c, SignalAt(k), 8, Taken(s)[k]) BY <1>2
  <2> QED BY <1>4, <2>1, <2>2, FieldTravels
<1>7. getSysId(r) = src BY <1>4, SourceTravels
<1> HIDE DEF r
<1>8. getMsgType(r) = type /\ LengthOf(r) = n
  BY <1>1, <1>5, ValueIsRead DEF getMsgType, LengthOf
<1>9. \A k \in 1 .. n : Value(r, SignalAt(k), 8) = Taken(s)[k]
  <2> SUFFICES ASSUME NEW k \in 1 .. n PROVE Value(r, SignalAt(k), 8) = Taken(s)[k]
    OBVIOUS
  <2>1. SignalAt(k) \in Nat BY <1>1, SignalsAreApart
  <2> QED BY <1>6, <2>1, ValueIsRead
<1>10. SignalsOf(r) = Taken(s) BY <1>1, <1>8, <1>9 DEF SignalsOf, SignalSize
<1>11. n \in 0 .. MaxCount
  <2>1. CASE CountAllowed(Len(s))
    BY <1>1, <2>1, MaxCountIsNat DEF n, Taken, CountAllowed
  <2>2. CASE ~CountAllowed(Len(s))
    BY <2>2, MaxCountIsNat DEF n, Taken
  <2> QED BY <2>1, <2>2
<1> QED BY <1>3, <1>7, <1>8, <1>10, <1>11 DEF r, c, n

-----------------------------------------------------------------------------
(* The brake light. *)

(* The five variables of the brake light, and what a step does to them.    *)
PwmStep ==
  \/ BrakeLight!PwmOutInit \/ BrakeLight!PwmOutStart \/ BrakeLight!PwmOutStop
  \/ BrakeLight!SetPeriod(LightPeriod)
  \/ \E d \in Duties : BrakeLight!SetDuty(d)
  \/ UNCHANGED pwmVars

(* Every step of the process is one of the output's operations, or leaves  *)
(* the output alone.                                                       *)
LEMMA StepsOfTheOutput == [Next]_vars => PwmStep
<1> SUFFICES ASSUME [Next]_vars PROVE PwmStep
  OBVIOUS
<1>1. CASE LightInit BY <1>1 DEF LightInit, PwmStep
<1>2. CASE LightPeriodInit BY <1>2 DEF LightPeriodInit, PwmStep
<1>3. CASE PassEnds BY <1>3 DEF PassEnds, PwmStep
<1>4. CASE SwitchOutput BY <1>4 DEF SwitchOutput, PwmStep
<1>5. CASE MainInit \/ OtherInit \/ StartThreads \/ Receive \/ ReceiveFails \/ Handle
  BY <1>5 DEF MainInit, OtherInit, StartThreads, Receive, ReceiveFails, Handle, PwmStep
<1>6. CASE CallMain \/ CopyByte \/ CopyEnds \/ CallOther \/ DispatchEnds \/ PassBegins \/ ReadByte
  BY <1>6 DEF CallMain, CopyByte, CopyEnds, CallOther, DispatchEnds, PassBegins, ReadByte, PwmStep
<1>7. CASE UNCHANGED vars BY <1>7 DEF vars, PwmStep
<1> QED BY <1>1, <1>2, <1>3, <1>4, <1>5, <1>6, <1>7 DEF Next

(* Only one period other than zero is ever set, and the width is what was  *)
(* asked for, swapped; before the period is set nothing can light up.      *)
PwmInv ==
  /\ state \in {"Undefined", "Standby", "Active"}
  /\ asked \in 0 .. 255
  /\ \/ period = 0 /\ width = 0
     \/ period = 65280 /\ width = asked * 256
  /\ state = "Undefined" => period = 0 /\ width = 0 /\ asked = 0
  /\ sent \in [period : BrakeLight!Word, width : BrakeLight!Word]
  /\ LitMeansAnnounced

(* The byte swap of the values that occur.                                 *)
LEMMA SwapByte ==
  /\ \A d \in 0 .. 255 : BrakeLight!Swap(d) = d * 256 /\ BrakeLight!Swap(d * 256) = d
  /\ BrakeLight!Swap(255) = 65280
BY DEF BrakeLight!Swap

LEMMA InRange ==
  ASSUME NEW n \in Nat, NEW w \in Int, 0 <= w, w <= n PROVE w \in 0 .. n
OBVIOUS

LEMMA WordsOfTheOutput ==
  /\ 0 \in BrakeLight!Word /\ 65280 \in BrakeLight!Word
  /\ \A d \in 0 .. 255 : d \in BrakeLight!Word /\ d * 256 \in BrakeLight!Word
<1> DEFINE n == 65535
<1>1. n \in Nat /\ 65280 <= n /\ BrakeLight!Word = 0 .. n BY DEF BrakeLight!Word
<1> HIDE DEF n
<1>2. ASSUME NEW w \in Int, 0 <= w, w <= 65280 PROVE w \in BrakeLight!Word
  <2>1. w <= n BY <1>1, <1>2
  <2>2. w \in 0 .. n BY <1>1, <1>2, <2>1, InRange
  <2> QED BY <1>1, <2>2
<1>3. ASSUME NEW d \in 0 .. 255 PROVE d \in BrakeLight!Word /\ d * 256 \in BrakeLight!Word
  <2>1. d \in BrakeLight!Word BY <1>2
  <2>2. d * 256 \in Int /\ 0 <= d * 256 /\ d * 256 <= 65280 OBVIOUS
  <2>3. d * 256 \in BrakeLight!Word BY <1>2, <2>2
  <2> QED BY <2>1, <2>3
<1> QED BY <1>2, <1>3

LEMMA PwmInvKept == PwmInv /\ PwmStep => PwmInv'
<1> SUFFICES ASSUME PwmInv, PwmStep PROVE PwmInv'
  OBVIOUS
<1> USE DEF PwmInv, LitMeansAnnounced, BrakeLight!LitMeansAnnounced
<1>1. CASE BrakeLight!PwmOutInit BY <1>1 DEF BrakeLight!PwmOutInit
<1>2. CASE BrakeLight!PwmOutStart \/ BrakeLight!PwmOutStop
  BY <1>2 DEF BrakeLight!PwmOutStart, BrakeLight!PwmOutStop
<1>3. CASE BrakeLight!SetPeriod(LightPeriod)
  <2>1. BrakeLight!Swap(LightPeriod) = 65280 /\ BrakeLight!Swap(0) = 0
    BY SwapByte, PwmAssumption
  <2> QED BY <1>3, <2>1, WordsOfTheOutput DEF BrakeLight!SetPeriod, BrakeLight!StoreSignal
<1>4. ASSUME NEW d \in Duties, BrakeLight!SetDuty(d) PROVE PwmInv'
  <2>1. d \in 0 .. 255 BY PwmAssumption
  <2>2. CASE period = 0
    <3>1. BrakeLight!Swap(BrakeLight!Lower(d, period)) = 0
      BY <2>1, <2>2, SwapByte DEF BrakeLight!Lower
    <3> QED BY <1>4, <2>1, <2>2, <3>1, WordsOfTheOutput DEF BrakeLight!SetDuty, BrakeLight!StoreSignal
  <2>3. CASE period = 65280
    <3>1. BrakeLight!Swap(BrakeLight!Lower(d, period)) = d * 256
      BY <2>1, <2>3, SwapByte DEF BrakeLight!Lower
    <3> QED BY <1>4, <2>1, <2>3, <3>1, WordsOfTheOutput DEF BrakeLight!SetDuty, BrakeLight!StoreSignal
  <2> QED BY <2>2, <2>3
<1>5. CASE UNCHANGED pwmVars BY <1>5 DEF pwmVars
<1> QED BY <1>1, <1>2, <1>3, <1>4, <1>5 DEF PwmStep

LEMMA PwmInvHolds == Spec => []PwmInv
<1>1. Init => PwmInv
  BY WordsOfTheOutput DEF Init, BrakeLight!Init, PwmInv, LitMeansAnnounced, BrakeLight!LitMeansAnnounced
<1>2. PwmInv /\ [Next]_vars => PwmInv'
  BY StepsOfTheOutput, PwmInvKept
<1> QED BY <1>1, <1>2, PTL DEF Spec

(* For every byte duty the fields of the brake light decode to the duty    *)
(* that was asked for, and their raw quotient, which the panel computes,   *)
(* is the true intensity: the clamp of PwmOut_setDuty compares host with   *)
(* network order, and no duty of the ECU notices.                          *)
THEOREM IntensityIsTrue == Spec => []IntensityIsRatio
<1>1. PwmInv => IntensityIsRatio
  <2> SUFFICES ASSUME PwmInv PROVE BrakeLight!IntensityIsRatio
    BY DEF IntensityIsRatio
  <2>1. asked \in 0 .. 255 BY DEF PwmInv
  <2>2. BrakeLight!TypeOK
    <3>1. period \in BrakeLight!Word /\ width \in BrakeLight!Word /\ asked \in BrakeLight!Word
      BY <2>1, WordsOfTheOutput DEF PwmInv
    <3> QED BY <3>1 DEF PwmInv, BrakeLight!TypeOK
  <2>3. CASE period = 0 /\ width = 0
    BY <2>1, <2>2, <2>3, SwapByte
    DEF BrakeLight!IntensityIsRatio, BrakeLight!HostWidth, BrakeLight!HostPeriod, BrakeLight!Lower
  <2>4. CASE period = 65280 /\ width = asked * 256
    <3>1. BrakeLight!HostWidth = asked /\ BrakeLight!HostPeriod = 255
      BY <2>1, <2>4, SwapByte DEF BrakeLight!HostWidth, BrakeLight!HostPeriod
    <3> QED BY <2>1, <2>2, <2>4, <3>1 DEF BrakeLight!IntensityIsRatio, BrakeLight!Lower
  <2> QED BY <2>3, <2>4 DEF PwmInv
<1> QED BY <1>1, PwmInvHolds, PTL

(* A lit brake light has been announced exactly as it is, whatever silent  *)
(* changes of the period and initialisations came before.                  *)
THEOREM LitIsAnnounced == Spec => []LitMeansAnnounced
<1>1. PwmInv => LitMeansAnnounced
  BY DEF PwmInv
<1> QED BY <1>1, PwmInvHolds, PTL

-----------------------------------------------------------------------------
(* Messages *)

(* A message of each kind is read as what it was made of.                  *)
Arrives(m, r) ==
  /\ DOMAIN r = Address
  /\ getMsgType(r) = m.type /\ getSysId(r) = m.source
  /\ Reading(r) = Content(m)

Sent(m) == receive(Unset, send(Made(m), m.source))

LEMMA SizesAreNat ==
  /\ MaxLength \in Nat /\ FullSize \in Nat /\ FullSize = 10 + MaxLength
  /\ FullSize >= 24 /\ DOMAIN Unset = Address
BY SizeAssumption DEF MaxLength, FullSize, HeaderSize, Unset

LEMMA TextArrives ==
  ASSUME NEW m \in [type : {"text"}, source : STRING, string : Seq(STRING)]
  PROVE  Arrives(m, Sent(m))
<1> DEFINE c == createTextMsg(Unset, m.string)
           r == receive(Unset, send(c, m.source))
<1>1. m.type = "text" /\ m.string \in Seq(STRING) OBVIOUS
<1>2. Made(m) = c BY <1>1 DEF Made
<1>3. /\ msg_len(c) = 10 + Len(Cut(m.string)) /\ Len(Cut(m.string)) \in 0 .. MaxLength
      /\ getMsgType(r) = "text" /\ getSysId(r) = m.source
      /\ BytesFrom(r, 10, LengthOf(r)) = Cut(m.string)
  BY <1>1, TextTravels
<1>4. Sent(m) = r BY <1>2 DEF Sent
<1> HIDE DEF c
<1>5. msg_len(c) \in 0 .. FullSize BY <1>3, SizesAreNat
<1>6. DOMAIN r = Address BY <1>5, SizesAreNat, NothingBehind
<1> HIDE DEF r
<1>7. Reading(r) = Content(m)
  BY <1>1, <1>3 DEF Reading, Content
<1> QED BY <1>1, <1>3, <1>4, <1>6, <1>7 DEF Arrives

LEMMA CanArrives ==
  ASSUME NEW m \in [type : {"can"}, source : STRING, id : Nat, bus : Nat,
                    payload : Seq(Nat) \cup {Torn}],
         m.payload # Torn => Len(m.payload) <= MaxDlc
  PROVE  Arrives(m, Sent(m))
<1>1. m.type = "can" OBVIOUS
<1>2. CASE m.payload # Torn
  <2> DEFINE c == createCanMsg(Unset, m.id, m.payload, m.bus)
             r == receive(Unset, send(c, m.source))
  <2>1. m.payload \in Seq(Nat) /\ Len(m.payload) \in Nat /\ Len(m.payload) <= 8
    BY <1>2 DEF MaxDlc
  <2>2. Made(m) = c BY <1>1, <1>2 DEF Made
  <2>3. /\ msg_len(c) = 14 + Len(m.payload)
        /\ getMsgType(r) = "can" /\ getSysId(r) = m.source
        /\ getCanInfo(r) = [id |-> m.id, bus |-> m.bus, payload |-> m.payload]
    <3> DEFINE p == m.payload
    <3>1. p \in Seq(Nat) BY <2>1
    <3> HIDE DEF p
    <3>2. LET cc == createCanMsg(Unset, m.id, p, m.bus)
              rr == receive(Unset, send(cc, m.source)) IN
          /\ msg_len(cc) = 14 + Len(p)
          /\ getMsgType(rr) = "can" /\ getSysId(rr) = m.source
          /\ getCanInfo(rr) = [id |-> m.id, bus |-> m.bus, payload |-> p]
      BY <3>1, CanTravels
    <3> QED BY <3>2 DEF p
  <2>4. Sent(m) = r BY <2>2 DEF Sent
  <2> HIDE DEF c
  <2>5. msg_len(c) \in 0 .. FullSize BY <2>1, <2>3, SizesAreNat
  <2>6. DOMAIN r = Address BY <2>5, SizesAreNat, NothingBehind
  <2> HIDE DEF r
  <2>7. Reading(r) = Content(m) BY <1>1, <1>2, <2>3 DEF Reading, Content
  <2> QED BY <1>1, <2>3, <2>4, <2>6, <2>7 DEF Arrives
<1>3. CASE m.payload = Torn
  <2> DEFINE c == createEmptyCanMsg(Unset, m.id, Dlc, m.bus)
             r == receive(Unset, send(c, m.source))
  <2>1. Dlc \in 0 .. MaxDlc /\ Dlc \in Nat /\ Dlc <= 8 /\ Bytes = 1 .. Dlc
    BY ByteAssumption DEF MaxDlc
  <2>2. Made(m) = c BY <1>1, <1>3 DEF Made
  <2> HIDE DEF Dlc
  <2>3. /\ msg_len(c) = 14 + Dlc
        /\ getMsgType(r) = "can" /\ getSysId(r) = m.source
        /\ getCanInfo(r) = [id |-> m.id, bus |-> m.bus, payload |-> [k \in 1 .. Dlc |-> 0]]
    BY <2>1, EmptyCanTravels
  <2>4. Sent(m) = r BY <2>2 DEF Sent
  <2> HIDE DEF c
  <2>5. msg_len(c) \in 0 .. FullSize BY <2>1, <2>3, SizesAreNat
  <2>6. DOMAIN r = Address BY <2>5, SizesAreNat, NothingBehind
  <2> HIDE DEF r
  <2>7. Reading(r) = Content(m) BY <1>1, <1>3, <2>1, <2>3 DEF Reading, Content
  <2> QED BY <1>1, <2>3, <2>4, <2>6, <2>7 DEF Arrives
<1> QED BY <1>2, <1>3

LEMMA SignalsArrive ==
  ASSUME NEW m \in [type : {"pwm", "adc"}, source : STRING, signals : Seq(Nat)]
  PROVE  Arrives(m, Sent(m))
<1> DEFINE s == m.signals
           c == createSignalMsg(Unset, m.type, s)
           r == receive(Unset, send(c, m.source))
<1>1. m.type \in SignalTypes /\ s \in Seq(Nat) BY DEF SignalTypes
<1>2. Made(m) = c BY <1>1 DEF Made, createPwmMsg, createAdcMsg, SignalTypes
<1>3. Sent(m) = r BY <1>2 DEF Sent
<1> HIDE DEF s
<1>4. /\ msg_len(c) = 10 + 8 * Len(Taken(s)) /\ Len(Taken(s)) \in 0 .. MaxCount
      /\ getMsgType(r) = m.type /\ getSysId(r) = m.source
      /\ SignalsOf(r) = Taken(s)
  BY <1>1, SignalsTravel
<1> HIDE DEF c
<1>5. msg_len(c) \in 0 .. FullSize BY <1>4, SizesAreNat, MaxCountIsNat
<1>6. DOMAIN r = Address BY <1>5, SizesAreNat, NothingBehind
<1> HIDE DEF r
<1>7. Reading(r) = Content(m)
  <2>1. SignalsOf(r) = Taken(m.signals) BY <1>4 DEF s
  <2> QED BY <1>1, <1>4, <2>1 DEF Reading, Content, Taken, SignalTypes
<1> QED BY <1>3, <1>4, <1>6, <1>7 DEF Arrives

LEMMA MessageArrives ==
  ASSUME NEW m, IsMessage(m) PROVE Arrives(m, Sent(m))
BY TextArrives, CanArrives, SignalsArrive DEF IsMessage

(* The message in hand is one that was sent, or none was received yet; the *)
(* frames that driving_controls carries are numbered in their order.       *)
Fits ==
  /\ getMsgType(msg) = "can"
  /\ BufferFor(getCanInfo(msg).id, Len(getCanInfo(msg).payload))

InHand(f) == getCanInfo(msg).payload = [b \in Bytes |-> f]

HandInv ==
  /\ \/ was = Torn /\ msg = Unset
     \/ IsMessage(was) /\ msg = Sent(was)
  /\ begun \in 0 .. MaxFrames
  /\ Fits => \E f \in 1 .. MaxFrames : f \in {begun, begun + 1} /\ InHand(f)
  /\ rcv \in {"dispatch", "copy"} => getMsgType(msg) = "can"

(* What is in the buffer: nobody writes it but the copy, which is from the *)
(* frame begun last over one that is complete.                             *)
RxInv ==
  /\ stored \in 0 .. begun
  /\ rcv # "copy" => stored = begun
  /\ rcv = "copy" => InHand(begun) /\ toCopy \subseteq Bytes
  /\ DOMAIN rx = Bytes
  /\ \A b \in Bytes : rx[b] = IF rcv = "copy" /\ b \notin toCopy THEN begun ELSE stored

(* What a pass has read of it.                                             *)
PassInv ==
  task = "read" =>
    /\ before \in 0 .. stored
    /\ \A b \in DOMAIN In : b \in Bytes /\ In[b] \in before .. begun
    /\ ~overlap => rcv # "copy" /\ before = stored /\ \A b \in DOMAIN In : In[b] = before

CopyInv == HandInv /\ RxInv /\ PassInv

(* No message is in hand before the first one arrives.                     *)
LEMMA UnsetIsNoCan == getMsgType(Unset) # "can"
<1>1. 0 \in Address /\ 1 \in Address
  BY SizesAreNat DEF Address
<1>2. Unset[0] = <<Torn, 0>> /\ Unset[0 + 1] = <<Torn, 0>>
  BY <1>1 DEF Unset
<1>3. Unset[0 + 1] # <<Unset[0][1], 1>> BY <1>2
<1>4. 1 \in 0 .. 4 - 1 OBVIOUS
<1>5. Value(Unset, 0, 4) = Torn BY <1>3, <1>4 DEF Value
<1> QED BY <1>5, TrafficAssumption DEF getMsgType

LEMMA CopyInvAtFirst == Init => CopyInv
<1> SUFFICES ASSUME Init PROVE CopyInv
  OBVIOUS
<1>1. HandInv
  BY UnsetIsNoCan, TrafficAssumption DEF Init, HandInv, Fits
<1>2. RxInv BY DEF Init, RxInv
<1>3. PassInv BY DEF Init, PassInv
<1> QED BY <1>1, <1>2, <1>3 DEF CopyInv

(* A message that arrives.                                                 *)
LEMMA ReceiveKeeps == CopyInv /\ Receive => CopyInv'
<1> SUFFICES ASSUME CopyInv, Receive PROVE CopyInv'
  OBVIOUS
<1> USE DEF CopyInv
<1>1. PICK m \in Traffic(begun + 1) :
        /\ m.type = "can" /\ m.id = DrivingControls => begun < MaxFrames
        /\ msg' = Sent(m) /\ was' = m
  BY DEF Receive, Sent
<1>2. begun \in 0 .. MaxFrames /\ MaxFrames \in Nat /\ begun + 1 \in 1 .. MaxFrames + 1
  BY TrafficAssumption DEF HandInv
<1>3. /\ IsMessage(m)
      /\ m.type = "can" /\ m.id = DrivingControls =>
           /\ m.payload # Torn
           /\ Len(m.payload) = Dlc => m.payload = [b \in Bytes |-> begun + 1]
  BY <1>2, TrafficAssumption
<1>4. /\ getMsgType(msg') = m.type /\ Reading(msg') = Content(m)
  BY <1>1, <1>3, MessageArrives DEF Arrives
<1>5. rcv = "listen" /\ rcv' = "handle" /\ UNCHANGED <<rx, toCopy, begun, stored>>
  BY DEF Receive, rxVars
<1>6. HandInv'
  <2>1. Fits' => begun + 1 \in 1 .. MaxFrames /\ InHand(begun + 1)'
    <3> SUFFICES ASSUME Fits' PROVE begun + 1 \in 1 .. MaxFrames /\ InHand(begun + 1)'
      OBVIOUS
    <3>1. m.type = "can" BY <1>4 DEF Fits
    <3>2. getCanInfo(msg') = Content(m) BY <1>4, <3>1 DEF Reading
    <3>3. getCanInfo(msg').id = m.id BY <3>1, <3>2 DEF Content
    <3>4. m.id = DrivingControls /\ Len(getCanInfo(msg').payload) = Dlc
      BY <3>3 DEF Fits, BufferFor
    <3>5. m.payload # Torn BY <1>3, <3>1, <3>4
    <3>6. getCanInfo(msg').payload = m.payload BY <3>1, <3>2, <3>5 DEF Content
    <3>7. m.payload = [b \in Bytes |-> begun + 1] BY <1>3, <3>1, <3>4, <3>6
    <3>8. begun < MaxFrames BY <1>1, <3>1, <3>4
    <3> QED BY <1>2, <1>5, <3>6, <3>7, <3>8 DEF InHand
  <2>2. Fits' => \E f \in 1 .. MaxFrames : f \in {begun', begun' + 1} /\ InHand(f)'
    BY <1>5, <2>1
  <2> QED BY <1>1, <1>2, <1>3, <1>5, <2>2 DEF HandInv
<1>7. RxInv' BY <1>5 DEF RxInv
<1>8. PassInv' BY <1>5 DEF PassInv, Receive, taskVars
<1> QED BY <1>6, <1>7, <1>8

(* Steps that leave the message in hand alone.                             *)
LEMMA SameHand ==
  HandInv /\ UNCHANGED <<msg, was, begun>>
    /\ (rcv' \in {"dispatch", "copy"} => getMsgType(msg) = "can") => HandInv'
BY DEF HandInv, Fits, InHand

(* MainSystem's delegate: the copy begins.                                 *)
LEMMA CallMainKeeps == CopyInv /\ CallMain => CopyInv'
<1> SUFFICES ASSUME CopyInv, CallMain PROVE CopyInv'
  OBVIOUS
<1> USE DEF CopyInv
<1>1. rcv = "dispatch" /\ getMsgType(msg) = "can" BY DEF CallMain, Call, HandInv
<1>2. UNCHANGED <<msg, was, rx, stored, task, In, before>>
  BY DEF CallMain, taskVars
<1>3. CASE BufferFor(getCanInfo(msg).id, Len(getCanInfo(msg).payload))
  <2>1. PICK f \in 1 .. MaxFrames : f \in {begun, begun + 1} /\ InHand(f)
    BY <1>1, <1>3 DEF HandInv, Fits
  <2>2. begun \in Nat /\ MaxFrames \in Nat BY TrafficAssumption DEF HandInv
  <2>3. 1 \in Bytes BY ByteAssumption
  <2>4. /\ rcv' = "copy" /\ toCopy' = DOMAIN getCanInfo(msg).payload
        /\ begun' = IF getCanInfo(msg).payload[1] > begun
                      THEN getCanInfo(msg).payload[1] ELSE begun
        /\ overlap' = TRUE
    BY <1>3 DEF CallMain
  <2>5. toCopy' = Bytes /\ begun' = f
    BY <2>1, <2>2, <2>3, <2>4 DEF InHand
  <2>6. InHand(f)' BY <1>2, <2>1 DEF InHand
  <2>7. HandInv'
    <3>1. Fits' => \E g \in 1 .. MaxFrames : g \in {begun', begun' + 1} /\ InHand(g)'
      BY <2>5, <2>6
    <3>2. begun' \in 0 .. MaxFrames BY <2>2, <2>5
    <3> QED BY <1>1, <1>2, <3>1, <3>2 DEF HandInv
  <2>8. RxInv'
    <3>1. stored = begun /\ begun <= begun' BY <1>1, <2>1, <2>2, <2>5 DEF RxInv
    <3>2. stored' \in 0 .. begun' BY <1>2, <2>2, <2>5, <3>1
    <3>3. \A b \in Bytes : rx'[b] = stored' BY <1>1, <1>2 DEF RxInv
    <3> QED BY <1>2, <2>4, <2>5, <2>6, <3>2, <3>3 DEF RxInv
  <2>9. PassInv'
    <3>1. begun <= begun' /\ begun' \in Nat BY <2>1, <2>2, <2>5
    <3> QED BY <1>2, <2>2, <2>4, <3>1 DEF PassInv, RxInv
  <2> QED BY <2>7, <2>8, <2>9
<1>4. CASE ~BufferFor(getCanInfo(msg).id, Len(getCanInfo(msg).payload))
  <2>1. rcv' = rcv /\ UNCHANGED <<toCopy, begun, overlap>> BY <1>4 DEF CallMain
  <2>2. HandInv' BY <1>1, <1>2, <2>1, SameHand
  <2>3. RxInv' BY <1>1, <1>2, <2>1 DEF RxInv
  <2>4. PassInv' BY <1>2, <2>1 DEF PassInv
  <2> QED BY <2>2, <2>3, <2>4
<1> QED BY <1>3, <1>4

(* The copy goes on, and ends.                                             *)
LEMMA CopyByteKeeps == CopyInv /\ CopyByte => CopyInv'
<1> SUFFICES ASSUME CopyInv, CopyByte PROVE CopyInv'
  OBVIOUS
<1> USE DEF CopyInv
<1>1. PICK b \in toCopy : /\ rx' = [rx EXCEPT ![b] = getCanInfo(msg).payload[b]]
                          /\ toCopy' = toCopy \ {b}
  BY DEF CopyByte
<1>2. rcv = "copy" /\ UNCHANGED <<rcv, msg, was, begun, stored, task, In, before, overlap>>
  BY DEF CopyByte, rcvVars, taskVars
<1>3. HandInv' BY <1>2, SameHand DEF HandInv
<1>4. b \in Bytes /\ toCopy \subseteq Bytes /\ getCanInfo(msg).payload[b] = begun
  BY <1>1, <1>2 DEF RxInv, InHand
<1>5. RxInv'
  <2>1. InHand(begun)' BY <1>2 DEF RxInv, InHand
  <2>2. rx' = [rx EXCEPT ![b] = begun] BY <1>1, <1>4
  <2>3. \A c \in Bytes : rx'[c] = IF c \notin toCopy' THEN begun ELSE stored
    BY <1>1, <1>2, <1>4, <2>2 DEF RxInv
  <2>4. DOMAIN rx' = Bytes /\ toCopy' \subseteq Bytes BY <1>1, <1>4, <2>2 DEF RxInv
  <2>5. stored \in 0 .. begun BY DEF RxInv
  <2> QED BY <1>2, <2>1, <2>3, <2>4, <2>5 DEF RxInv
<1>6. PassInv' BY <1>2 DEF PassInv
<1> QED BY <1>3, <1>5, <1>6

LEMMA CopyEndsKeeps == CopyInv /\ CopyEnds => CopyInv'
<1> SUFFICES ASSUME CopyInv, CopyEnds PROVE CopyInv'
  OBVIOUS
<1> USE DEF CopyInv
<1>1. /\ rcv = "copy" /\ toCopy = {} /\ rcv' = "dispatch" /\ stored' = begun
      /\ UNCHANGED <<msg, was, rx, begun, task, In, before, overlap>>
  BY DEF CopyEnds, taskVars
<1>2. HandInv' BY <1>1, SameHand DEF HandInv
<1>3. begun \in Nat /\ stored <= begun /\ stored \in Nat
  BY TrafficAssumption DEF HandInv, RxInv
<1>4. RxInv' BY <1>1, <1>3 DEF RxInv
<1>5. PassInv' BY <1>1, <1>3 DEF PassInv
<1> QED BY <1>2, <1>4, <1>5

(* A pass begins and reads.                                                *)
LEMMA PassKeeps == CopyInv /\ (PassBegins \/ ReadByte) => CopyInv'
<1> SUFFICES ASSUME CopyInv, PassBegins \/ ReadByte PROVE CopyInv'
  OBVIOUS
<1> USE DEF CopyInv
<1>1. UNCHANGED <<rcv, msg, was, rx, toCopy, begun, stored>>
  BY DEF PassBegins, ReadByte, rcvVars, rxVars
<1>2. HandInv' BY <1>1, SameHand DEF HandInv
<1>3. RxInv' BY <1>1 DEF RxInv, InHand
<1>4. begun \in Nat /\ stored \in 0 .. begun
  BY TrafficAssumption DEF HandInv, RxInv
<1>5. CASE PassBegins
  <2>1. before' = stored /\ overlap' = (rcv = "copy") /\ In' = <<>>
    BY <1>5 DEF PassBegins
  <2>2. DOMAIN In' = {} BY <2>1
  <2>3. ~overlap' => rcv # "copy"
    BY <2>1, Zenon
  <2> QED BY <1>1, <1>2, <1>3, <1>4, <2>1, <2>2, <2>3 DEF PassInv
<1>6. CASE ReadByte
  <2>1. PICK b \in Bytes \ DOMAIN In :
          In' = [c \in DOMAIN In \cup {b} |-> IF c = b THEN rx[b] ELSE In[c]]
    BY <1>6 DEF ReadByte
  <2>2. task = "read" /\ UNCHANGED <<before, overlap>> BY <1>6 DEF ReadByte
  <2>3. rx[b] \in {stored, begun} /\ (rcv # "copy" => rx[b] = stored) BY DEF RxInv
  <2>4. before \in 0 .. stored BY <2>2 DEF PassInv
  <2>5. rx[b] \in before .. begun BY <1>4, <2>3, <2>4
  <2>6. \A c \in DOMAIN In' : c \in Bytes /\ In'[c] \in before .. begun
    BY <2>1, <2>2, <2>5 DEF PassInv
  <2>7. ~overlap => rcv # "copy" /\ before = stored /\ \A c \in DOMAIN In' : In'[c] = before
    BY <2>1, <2>2, <2>3 DEF PassInv
  <2> QED BY <1>1, <1>2, <1>3, <2>2, <2>4, <2>6, <2>7 DEF PassInv
<1> QED BY <1>5, <1>6

(* The other steps touch neither the buffer nor what has been read of it.  *)
OtherStep ==
  /\ UNCHANGED <<msg, was, rx, toCopy, begun, stored>>
  /\ rcv # "copy" <=> rcv' # "copy"
  /\ rcv' \in {"dispatch", "copy"} => rcv = rcv' \/ getMsgType(msg) = "can"
  /\ task' = "read" => task = "read" /\ UNCHANGED <<In, before, overlap>>

LEMMA OtherKeeps == CopyInv /\ OtherStep => CopyInv'
<1> SUFFICES ASSUME CopyInv, OtherStep PROVE CopyInv'
  OBVIOUS
<1> USE DEF CopyInv, OtherStep
<1>1. HandInv' BY SameHand DEF HandInv
<1>2. RxInv' BY DEF RxInv, InHand
<1>3. PassInv' BY DEF PassInv
<1> QED BY <1>1, <1>2, <1>3

LEMMA OtherSteps ==
  ASSUME ReceiveFails \/ Handle \/ CallOther \/ DispatchEnds \/ LightInit \/ LightPeriodInit
           \/ MainInit \/ OtherInit \/ StartThreads \/ PassEnds \/ SwitchOutput
           \/ UNCHANGED vars
  PROVE  OtherStep
<1> USE DEF OtherStep, rcvVars, rxVars, taskVars
<1>1. CASE ReceiveFails BY <1>1 DEF ReceiveFails
<1>2. CASE Handle BY <1>2 DEF Handle, Accepted
<1>3. CASE CallOther BY <1>3 DEF CallOther
<1>4. CASE DispatchEnds BY <1>4 DEF DispatchEnds
<1>5. CASE LightInit BY <1>5 DEF LightInit
<1>6. CASE LightPeriodInit BY <1>6 DEF LightPeriodInit
<1>7. CASE MainInit BY <1>7 DEF MainInit
<1>8. CASE OtherInit BY <1>8 DEF OtherInit
<1>9. CASE StartThreads BY <1>9 DEF StartThreads
<1>10. CASE PassEnds BY <1>10 DEF PassEnds
<1>11. CASE SwitchOutput BY <1>11 DEF SwitchOutput
<1>12. CASE UNCHANGED vars BY <1>12 DEF vars
<1> QED BY <1>1, <1>2, <1>3, <1>4, <1>5, <1>6, <1>7, <1>8, <1>9, <1>10, <1>11, <1>12

LEMMA CopyInvHolds == Spec => []CopyInv
<1>1. CopyInv /\ [Next]_vars => CopyInv'
  <2> SUFFICES ASSUME CopyInv, [Next]_vars PROVE CopyInv'
    OBVIOUS
  <2>1. CASE Receive BY <2>1, ReceiveKeeps
  <2>2. CASE CallMain BY <2>2, CallMainKeeps
  <2>3. CASE CopyByte BY <2>3, CopyByteKeeps
  <2>4. CASE CopyEnds BY <2>4, CopyEndsKeeps
  <2>5. CASE PassBegins \/ ReadByte BY <2>5, PassKeeps
  <2>6. CASE ReceiveFails \/ Handle \/ CallOther \/ DispatchEnds \/ LightInit \/ LightPeriodInit
               \/ MainInit \/ OtherInit \/ StartThreads \/ PassEnds \/ SwitchOutput
               \/ UNCHANGED vars
    <3>1. OtherStep BY <2>6, OtherSteps
    <3> QED BY <3>1, OtherKeeps
  <2> QED BY <2>1, <2>2, <2>3, <2>4, <2>5, <2>6 DEF Next
<1> QED BY <1>1, CopyInvAtFirst, PTL DEF Spec

(* Whatever the panel and the other programs put on the bus, the ECU reads *)
(* in a message exactly what was put into it, and nothing is written       *)
(* behind the message: for every size of a message and every memory.       *)
THEOREM EcuReadsWhatWasSent == Spec => []OnlyWhatWasSent
<1>1. CopyInv => OnlyWhatWasSent
  <2> SUFFICES ASSUME CopyInv, was # Torn PROVE OnlyWhatWasSent
    BY DEF OnlyWhatWasSent
  <2>1. IsMessage(was) /\ msg = Sent(was) BY DEF CopyInv, HandInv
  <2> QED BY <2>1, MessageArrives DEF OnlyWhatWasSent, Arrives
<1> QED BY <1>1, CopyInvHolds, PTL

(* A pass never reads bytes that are older than the frame that was         *)
(* complete when it began, and mixes two frames only when it overlaps a    *)
(* copy, for every number of bytes and of frames.                          *)
THEOREM EcuReadsRecentInputs == Spec => []InputsAreRecent
<1>1. CopyInv => InputsAreRecent
  BY DEF CopyInv, PassInv, InputsAreRecent
<1> QED BY <1>1, CopyInvHolds, PTL
-----------------------------------------------------------------------------
(* Delegates *)

Delegate == Others \cup {Main}

(* The table holds delegates up to num and, once it is set up, MainSystem's *)
(* in front; only the receive thread changes it after it was started.      *)
TabInv ==
  /\ num \in 0 .. MaxDelegates
  /\ DOMAIN table = 0 .. MaxDelegates - 1
  /\ \A k \in 0 .. num - 1 : table[k] \in Delegate
  /\ task \in {"lights", "period", "delegates"} => num = 0
  /\ task \notin {"lights", "period", "delegates"} => num > 0 /\ table[0] = Main
  /\ rcv # "unborn" => task \in {"idle", "read"}

(* The entries the dispatch has passed, and those that it left out.        *)
Passed == { table[k] : k \in { l \in 0 .. num - 1 : l < i } }
Missed == Passed \ ToSet(called)

CallInv ==
  /\ i \in Nat /\ i <= num + 1 /\ removals \in Nat
  /\ called \in Seq(Delegate)
  /\ Len(called) = IF rcv = "copy" THEN i + 1 ELSE i
  /\ called # <<>> => called[1] = Main
  /\ rcv = "unborn" => i = 0
  /\ rcv = "copy" => i < num /\ called[i + 1] = table[i]
  /\ removals = 0 => i <= num /\ \A k \in 1 .. Len(called) : called[k] = table[k - 1]
  /\ IsFiniteSet(Missed) /\ Cardinality(Missed) <= removals

(* A set that gains one element at most.                                   *)
LEMMA OneMore ==
  ASSUME NEW S, IsFiniteSet(S), NEW n \in Nat, Cardinality(S) <= n,
         NEW x, NEW T, T \subseteq S \cup {x}
  PROVE  IsFiniteSet(T) /\ Cardinality(T) <= n + 1
<1>1. /\ IsFiniteSet(S \cup {x})
      /\ Cardinality(S \cup {x}) = IF x \in S THEN Cardinality(S) ELSE Cardinality(S) + 1
  BY FS_AddElement
<1>2. IsFiniteSet(T) /\ Cardinality(T) <= Cardinality(S \cup {x})
  BY <1>1, FS_Subset
<1>3. Cardinality(S) \in Nat /\ Cardinality(T) \in Nat /\ Cardinality(S \cup {x}) \in Nat
  BY <1>1, <1>2, FS_CardinalityType
<1> QED BY <1>1, <1>2, <1>3

LEMMA NoMore ==
  ASSUME NEW S, IsFiniteSet(S), NEW n \in Nat, Cardinality(S) <= n, NEW T, T \subseteq S
  PROVE  IsFiniteSet(T) /\ Cardinality(T) <= n
<1>1. IsFiniteSet(T) /\ Cardinality(T) <= Cardinality(S)
  BY FS_Subset
<1>2. Cardinality(S) \in Nat /\ Cardinality(T) \in Nat
  BY <1>1, FS_CardinalityType
<1> QED BY <1>1, <1>2

(* A call puts one delegate behind the others.                             *)
LEMMA CallAppends ==
  ASSUME NEW d \in Delegate, called \in Seq(Delegate)
  PROVE  LET c == Append(called, d) IN
         /\ c \in Seq(Delegate) /\ Len(c) = Len(called) + 1 /\ c # <<>>
         /\ c[Len(called) + 1] = d
         /\ \A k \in 1 .. Len(called) : c[k] = called[k]
         /\ ToSet(c) = ToSet(called) \cup {d}
<1> DEFINE c == Append(called, d)
<1>1. /\ c \in Seq(Delegate) /\ Len(c) = Len(called) + 1 /\ Len(called) \in Nat
      /\ c[Len(called) + 1] = d
      /\ \A k \in 1 .. Len(called) : c[k] = called[k]
  OBVIOUS
<1>2. DOMAIN c = DOMAIN called \cup {Len(called) + 1} /\ DOMAIN called = 1 .. Len(called)
  BY <1>1
<1>3. c # <<>> BY <1>1
<1> HIDE DEF c
<1>4. ToSet(c) = ToSet(called) \cup {d} BY <1>1, <1>2 DEF ToSet
<1> QED BY <1>1, <1>3, <1>4 DEF c

(* Where the table, the index and the history stay, so does the invariant. *)
LEMMA SameCalls ==
  ASSUME CallInv, UNCHANGED <<table, num, i, called, removals>>,
         rcv = "copy" <=> rcv' = "copy", rcv' = "unborn" => rcv = "unborn"
  PROVE  CallInv'
BY DEF CallInv, Missed, Passed

(* MainSystem's delegate is called, and its copy ends.                     *)
LEMMA MainServed ==
  ASSUME TabInv, CallInv, CallMain PROVE TabInv' /\ CallInv'
<1>1. /\ rcv = "dispatch" /\ i < num /\ table[i] = Main /\ called' = Append(called, Main)
      /\ UNCHANGED <<table, num, removals, task>>
  BY DEF CallMain, Call, MoreDelegates, tabVars, taskVars
<1>2. \/ rcv' = "copy" /\ i' = i
      \/ rcv' = "dispatch" /\ i' = i + 1
  BY <1>1 DEF CallMain
<1>3. TabInv' BY <1>1, <1>2 DEF TabInv
<1>4. /\ called' \in Seq(Delegate) /\ Len(called') = i + 1 /\ called' # <<>>
      /\ called'[i + 1] = Main /\ \A k \in 1 .. i : called'[k] = called[k]
      /\ ToSet(called') = ToSet(called) \cup {Main}
  BY <1>1, CallAppends DEF CallInv, Delegate
<1>5. i \in Nat /\ num \in Nat BY DEF CallInv, TabInv, DelegateAssumption
<1>6. called'[1] = Main
  <2>1. CASE i = 0 BY <1>4, <2>1
  <2>2. CASE i > 0
    <3>1. called # <<>> /\ called'[1] = called[1] BY <1>1, <1>4, <1>5, <2>2 DEF CallInv
    <3> QED BY <3>1 DEF CallInv
  <2> QED BY <1>5, <2>1, <2>2
<1>7. removals' = 0 => i' <= num' /\ \A k \in 1 .. Len(called') : called'[k] = table'[k - 1]
  <2> SUFFICES ASSUME removals = 0
               PROVE  i' <= num /\ \A k \in 1 .. i + 1 : called'[k] = table[k - 1]
    BY <1>1, <1>4
  <2>1. \A k \in 1 .. i : called[k] = table[k - 1] BY <1>1 DEF CallInv
  <2> QED BY <1>1, <1>2, <1>4, <1>5, <2>1
<1>8. IsFiniteSet(Missed)' /\ Cardinality(Missed') <= removals'
  <2>1. Passed' \subseteq Passed \cup {Main}
    BY <1>1, <1>2, <1>5 DEF Passed
  <2>2. Missed' \subseteq Missed BY <1>4, <2>1 DEF Missed
  <2> QED BY <1>1, <2>2, NoMore DEF CallInv
<1> QED BY <1>1, <1>2, <1>3, <1>4, <1>5, <1>6, <1>7, <1>8 DEF CallInv

LEMMA CopyServed ==
  ASSUME TabInv, CallInv, CopyEnds PROVE TabInv' /\ CallInv'
<1>1. /\ rcv = "copy" /\ rcv' = "dispatch" /\ i' = i + 1
      /\ UNCHANGED <<table, num, called, removals, task>>
  BY DEF CopyEnds, tabVars, taskVars
<1>2. TabInv' BY <1>1 DEF TabInv
<1>3. /\ i \in Nat /\ num \in Nat /\ i < num /\ called[i + 1] = table[i]
      /\ Len(called) = i + 1 /\ called \in Seq(Delegate)
  BY <1>1, DelegateAssumption DEF CallInv, TabInv
<1>4. IsFiniteSet(Missed)' /\ Cardinality(Missed') <= removals'
  <2>1. table[i] \in ToSet(called) BY <1>3 DEF ToSet
  <2>2. Passed' \subseteq Passed \cup {table[i]} BY <1>1, <1>3 DEF Passed
  <2>3. Missed' \subseteq Missed BY <1>1, <2>1, <2>2 DEF Missed
  <2> QED BY <1>1, <2>3, NoMore DEF CallInv
<1> QED BY <1>1, <1>2, <1>3, <1>4 DEF CallInv

(* What another delegate may do to the table.                              *)
LEMMA AddKeeps ==
  ASSUME TabInv, num > 0, NEW d \in Others, addCanReceiveDelegate(d)
  PROVE  /\ num' \in 0 .. MaxDelegates /\ num <= num'
         /\ DOMAIN table' = 0 .. MaxDelegates - 1
         /\ \A k \in 0 .. num' - 1 : table'[k] \in Delegate
         /\ \A k \in 0 .. num - 1 : table'[k] = table[k]
<1>1. MaxDelegates \in Nat /\ num \in 0 .. MaxDelegates /\ DOMAIN table = 0 .. MaxDelegates - 1
  BY DelegateAssumption DEF TabInv
<1>2. CASE num < MaxDelegates
  <2>1. table' = [table EXCEPT ![num] = d] /\ num' = num + 1
    BY <1>2 DEF addCanReceiveDelegate
  <2> QED BY <1>1, <1>2, <2>1 DEF TabInv, Delegate
<1>3. CASE ~(num < MaxDelegates)
  BY <1>1, <1>3 DEF addCanReceiveDelegate, tabVars, TabInv
<1> QED BY <1>2, <1>3

LEMMA RemoveKeeps ==
  ASSUME TabInv, table[0] = Main, NEW d \in Others, removeCanReceiveDelegate(d)
  PROVE  \/ UNCHANGED <<table, num, removals>>
         \/ \E f \in 1 .. num - 1 :
              /\ num' = num - 1 /\ removals' = removals + 1
              /\ table' = [k \in 0 .. MaxDelegates - 1 |->
                             IF k \in f .. num - 2 THEN table[k + 1] ELSE table[k]]
<1>1. num \in Nat /\ DOMAIN table = 0 .. MaxDelegates - 1
  BY DelegateAssumption DEF TabInv
<1>2. CASE \E f \in { k \in 0 .. num - 1 : table[k] = d } :
             /\ table' = [k \in DOMAIN table |->
                            IF k \in f .. num - 2 THEN table[k + 1] ELSE table[k]]
             /\ num' = num - 1 /\ removals' = removals + 1
  <2>1. PICK f \in 0 .. num - 1 :
          /\ table[f] = d
          /\ table' = [k \in DOMAIN table |->
                         IF k \in f .. num - 2 THEN table[k + 1] ELSE table[k]]
          /\ num' = num - 1 /\ removals' = removals + 1
    BY <1>2
  <2>2. d # Main BY DelegateAssumption
  <2>3. f \in 1 .. num - 1 BY <1>1, <2>1, <2>2
  <2> QED BY <1>1, <2>1, <2>3
<1>3. CASE UNCHANGED <<tabVars, removals>> BY <1>3 DEF tabVars
<1> QED BY <1>2, <1>3 DEF removeCanReceiveDelegate

(* Another delegate is called.  A removal leaves out one delegate at most: *)
(* the one that follows in the table.                                      *)
LEMMA OtherServed ==
  ASSUME TabInv, CallInv, CallOther PROVE TabInv' /\ CallInv'
<1>1. PICK d \in Others \cup {Empty} : Call(d)
  BY DEF CallOther
<1>2. /\ rcv = "dispatch" /\ rcv' = rcv /\ i < num /\ i' = i + 1
      /\ table[i] = d /\ called' = Append(called, d) /\ task' = task
  BY <1>1 DEF CallOther, Call, MoreDelegates, rcvVars, taskVars
<1>3. /\ i \in Nat /\ num \in Nat /\ MaxDelegates \in Nat /\ num <= MaxDelegates
      /\ task \in {"idle", "read"} /\ num > 0 /\ table[0] = Main /\ removals \in Nat
  BY <1>2, DelegateAssumption DEF CallInv, TabInv
<1>4. d \in Others /\ d \in Delegate /\ i > 0
  BY <1>1, <1>2, <1>3, DelegateAssumption DEF TabInv, Delegate
<1>5. /\ called' \in Seq(Delegate) /\ Len(called') = i + 1 /\ called' # <<>>
      /\ called'[i + 1] = d /\ \A k \in 1 .. i : called'[k] = called[k]
      /\ ToSet(called') = ToSet(called) \cup {d}
  BY <1>2, <1>4, CallAppends DEF CallInv
<1>6. called'[1] = Main
  <2>1. called # <<>> /\ called'[1] = called[1] BY <1>2, <1>3, <1>4, <1>5 DEF CallInv
  <2> QED BY <2>1 DEF CallInv
<1>7. CASE /\ removals' = removals /\ num' \in num .. MaxDelegates
           /\ DOMAIN table' = 0 .. MaxDelegates - 1
           /\ \A k \in 0 .. num' - 1 : table'[k] \in Delegate
           /\ \A k \in 0 .. num - 1 : table'[k] = table[k]
  <2>1. TabInv' BY <1>2, <1>3, <1>7 DEF TabInv
  <2>2. Passed' \subseteq Passed \cup {d}
    BY <1>2, <1>3, <1>7 DEF Passed
  <2>3. Missed' \subseteq Missed BY <1>5, <2>2 DEF Missed
  <2>4. IsFiniteSet(Missed)' /\ Cardinality(Missed') <= removals'
    BY <1>7, <2>3, NoMore DEF CallInv
  <2>5. removals' = 0 => \A k \in 1 .. Len(called') : called'[k] = table'[k - 1]
    <3> SUFFICES ASSUME removals = 0, NEW k \in 1 .. i + 1 PROVE called'[k] = table'[k - 1]
      BY <1>5, <1>7
    <3>1. table'[k - 1] = table[k - 1] BY <1>2, <1>3, <1>7
    <3>2. CASE k = i + 1 BY <1>2, <1>3, <1>5, <3>1, <3>2
    <3>3. CASE k \in 1 .. i BY <1>2, <1>5, <3>1, <3>3 DEF CallInv
    <3> QED BY <1>3, <3>2, <3>3
  <2> QED BY <1>2, <1>3, <1>5, <1>6, <1>7, <2>1, <2>4, <2>5 DEF CallInv
<1>8. ASSUME NEW f \in 1 .. num - 1,
             num' = num - 1, removals' = removals + 1,
             table' = [k \in 0 .. MaxDelegates - 1 |->
                         IF k \in f .. num - 2 THEN table[k + 1] ELSE table[k]]
      PROVE  TabInv' /\ CallInv'
  <2>1. TabInv' BY <1>2, <1>3, <1>8 DEF TabInv
  <2>2. Passed' \subseteq Passed \cup {d, table[i + 1]}
    <3> SUFFICES ASSUME NEW k \in 0 .. num' - 1, k < i + 1
                 PROVE  table'[k] \in Passed \cup {d, table[i + 1]}
      BY <1>2 DEF Passed
    <3>1. \A l \in 0 .. num - 1 : l < i => table[l] \in Passed BY DEF Passed
    <3>2. k \in 0 .. num - 2 /\ k \in 0 .. MaxDelegates - 1 BY <1>3, <1>8
    <3>3. table'[k] \in {table[k], table[k + 1]} BY <1>8, <3>2
    <3>4. k < i \/ k = i BY <1>3
    <3>5. k + 1 < i \/ k + 1 = i \/ k + 1 = i + 1 BY <1>3
    <3> QED BY <1>2, <1>3, <3>1, <3>2, <3>3, <3>4, <3>5
  <2>3. Missed' \subseteq Missed \cup {table[i + 1]} BY <1>5, <2>2 DEF Missed
  <2>4. IsFiniteSet(Missed)' /\ Cardinality(Missed') <= removals'
    BY <1>3, <1>8, <2>3, OneMore DEF CallInv
  <2>5. removals' # 0 /\ removals' \in Nat BY <1>3, <1>8
  <2> QED BY <1>2, <1>3, <1>5, <1>6, <1>8, <2>1, <2>4, <2>5 DEF CallInv
<1>9. \/ UNCHANGED <<table, num, removals>>
      \/ \E o \in Others : addCanReceiveDelegate(o) /\ UNCHANGED removals
      \/ \E o \in Others : removeCanReceiveDelegate(o)
  BY DEF CallOther, tabVars
<1>10. CASE UNCHANGED <<table, num, removals>>
  BY <1>3, <1>7, <1>10 DEF TabInv
<1>11. ASSUME NEW o \in Others, addCanReceiveDelegate(o), UNCHANGED removals
       PROVE  TabInv' /\ CallInv'
  BY <1>3, <1>7, <1>11, AddKeeps
<1>12. ASSUME NEW o \in Others, removeCanReceiveDelegate(o) PROVE TabInv' /\ CallInv'
  BY <1>3, <1>8, <1>10, <1>12, RemoveKeeps
<1> QED BY <1>9, <1>10, <1>11, <1>12

(* The start of the ECU, before the receive thread runs.                   *)
LEMMA StartServed ==
  ASSUME TabInv, CallInv, MainInit \/ OtherInit PROVE TabInv' /\ CallInv'
<1>1. rcv = "unborn" /\ i = 0 /\ UNCHANGED <<rcv, i, called, removals>>
  BY DEF MainInit, OtherInit, TabInv, CallInv, rcvVars, callVars
<1>2. MaxDelegates \in Nat /\ MaxDelegates > 0 /\ num \in 0 .. MaxDelegates /\ num \in Nat
  BY DelegateAssumption DEF TabInv
<1>3. TabInv'
  <2>1. CASE MainInit
    <3>1. num = 0 /\ num < MaxDelegates /\ task' = "init"
      BY <1>2, <2>1 DEF MainInit, TabInv
    <3>2. table' = [table EXCEPT ![0] = Main] /\ num' = 1
      BY <2>1, <3>1 DEF MainInit, addCanReceiveDelegate
    <3> QED BY <1>1, <1>2, <3>1, <3>2 DEF TabInv, Delegate
  <2>2. CASE OtherInit
    <3>1. num > 0 /\ table[0] = Main /\ task = "init" /\ task' = task
      BY <2>2 DEF OtherInit, TabInv
    <3>2. PICK d \in Others : addCanReceiveDelegate(d) BY <2>2 DEF OtherInit
    <3> QED BY <1>1, <1>2, <3>1, <3>2, AddKeeps DEF TabInv
  <2> QED BY <2>1, <2>2
<1>4. Passed = {} /\ Passed' = {}
  BY <1>1, <1>2, <1>3 DEF Passed, TabInv
<1>5. Missed' = Missed BY <1>1, <1>4 DEF Missed
<1>6. called' = <<>> BY <1>1 DEF CallInv
<1>7. num' \in Nat BY <1>2, <1>3 DEF TabInv
<1>8. IsFiniteSet(Missed)' /\ Cardinality(Missed') <= removals'
  BY <1>1, <1>5 DEF CallInv
<1>9. rcv' = "unborn" /\ i' = 0 /\ i' <= num' /\ removals' \in Nat
  BY <1>1, <1>7 DEF CallInv
<1>10. i' <= num' + 1
  <2>1. \A n \in Nat : 0 <= n + 1 OBVIOUS
  <2> QED BY <1>7, <1>9, <2>1
<1>11. Len(called') = i' /\ called' \in Seq(Delegate) BY <1>6, <1>9
<1>12. \A k \in 1 .. Len(called') : called'[k] = table'[k - 1] BY <1>9, <1>11
<1> QED BY <1>3, <1>6, <1>8, <1>9, <1>10, <1>11, <1>12 DEF CallInv

LEMMA EndServed ==
  ASSUME TabInv, CallInv, DispatchEnds PROVE TabInv' /\ CallInv'
<1>1. /\ rcv = "dispatch" /\ rcv' = "listen" /\ i' = 0 /\ called' = <<>> /\ removals' = 0
      /\ UNCHANGED <<table, num, task>>
  BY DEF DispatchEnds, tabVars, taskVars
<1>2. TabInv' BY <1>1 DEF TabInv
<1>3. num \in Nat BY DelegateAssumption DEF TabInv
<1>4. Missed' = {} BY <1>1, <1>3 DEF Missed, Passed
<1> QED BY <1>1, <1>2, <1>3, <1>4, FS_EmptySet DEF CallInv

(* The steps that leave the dispatch alone.                                *)
LEMMA RestServed ==
  ASSUME TabInv, CallInv,
         Receive \/ ReceiveFails \/ Handle \/ CopyByte \/ LightInit \/ LightPeriodInit
           \/ StartThreads \/ PassBegins \/ ReadByte \/ PassEnds \/ SwitchOutput \/ UNCHANGED vars
  PROVE  TabInv' /\ CallInv'
<1> DEFINE Rest ==
      /\ UNCHANGED <<table, num, i, called, removals>>
      /\ rcv = "copy" <=> rcv' = "copy"
      /\ rcv' = "unborn" => rcv = "unborn"
      /\ \/ task' = task /\ (rcv = "unborn" => rcv' = "unborn" \/ task = "idle")
         \/ rcv' = rcv /\ task \in {"lights", "period"} /\ task' \in {"period", "delegates"}
         \/ rcv' = rcv /\ task \in {"init", "idle", "read"} /\ task' \in {"idle", "read"}
<1>1. Rest
  <2> USE DEF rcvVars, callVars, tabVars, taskVars
  <2>1. CASE Receive \/ ReceiveFails \/ CopyByte BY <2>1 DEF Receive, ReceiveFails, CopyByte
  <2>2. CASE Handle BY <2>2 DEF Handle
  <2>3. CASE LightInit \/ LightPeriodInit BY <2>3 DEF LightInit, LightPeriodInit
  <2>4. CASE StartThreads BY <2>4 DEF StartThreads
  <2>5. CASE PassBegins \/ ReadByte BY <2>5 DEF PassBegins, ReadByte
  <2>6. CASE PassEnds \/ SwitchOutput BY <2>6 DEF PassEnds, SwitchOutput
  <2>7. CASE UNCHANGED vars BY <2>7 DEF vars
  <2> QED BY <2>1, <2>2, <2>3, <2>4, <2>5, <2>6, <2>7
<1>2. CallInv' BY <1>1, SameCalls
<1>3. TabInv' BY <1>1 DEF TabInv
<1> QED BY <1>2, <1>3

LEMMA CallInvHolds == Spec => [](TabInv /\ CallInv)
<1>1. Init => TabInv /\ CallInv
  <2> SUFFICES ASSUME Init PROVE TabInv /\ CallInv
    OBVIOUS
  <2>1. MaxDelegates \in Nat BY DelegateAssumption
  <2>2. TabInv BY <2>1 DEF Init, TabInv
  <2>3. Missed = {} BY DEF Init, Missed, Passed
  <2>4. CallInv BY <2>3, FS_EmptySet DEF Init, CallInv
  <2> QED BY <2>2, <2>4
<1>2. TabInv /\ CallInv /\ [Next]_vars => (TabInv /\ CallInv)'
  <2> SUFFICES ASSUME TabInv, CallInv, [Next]_vars PROVE TabInv' /\ CallInv'
    OBVIOUS
  <2>1. CASE CallMain BY <2>1, MainServed
  <2>2. CASE CopyEnds BY <2>2, CopyServed
  <2>3. CASE CallOther BY <2>3, OtherServed
  <2>4. CASE MainInit \/ OtherInit BY <2>4, StartServed
  <2>5. CASE DispatchEnds BY <2>5, EndServed
  <2>6. CASE Receive \/ ReceiveFails \/ Handle \/ CopyByte \/ LightInit \/ LightPeriodInit
               \/ StartThreads \/ PassBegins \/ ReadByte \/ PassEnds \/ SwitchOutput
               \/ UNCHANGED vars
    BY <2>6, RestServed
  <2> QED BY <2>1, <2>2, <2>3, <2>4, <2>5, <2>6 DEF Next
<1> QED BY <1>1, <1>2, PTL DEF Spec

(* A message reaches every delegate once and in order unless one is        *)
(* removed meanwhile; each removal costs at most one other delegate the    *)
(* message, and never MainSystem: for every table and number of delegates. *)
THEOREM DelegatesAreServed == Spec => []DelegatesServed
<1>1. TabInv /\ CallInv => DelegatesServed
  <2> SUFFICES ASSUME TabInv, CallInv, rcv = "dispatch", ~(i < num)
               PROVE  /\ called # <<>> /\ called[1] = Main /\ Empty \notin ToSet(called)
                      /\ removals = 0 => called = Registered
                      /\ Cardinality(ToSet(Registered) \ ToSet(called)) <= removals
    BY DEF DelegatesServed, MoreDelegates
  <2>1. /\ num \in Nat /\ num > 0 /\ i \in Nat /\ num <= i
        /\ called \in Seq(Delegate) /\ Len(called) = i
    BY DelegateAssumption DEF TabInv, CallInv
  <2>2. called # <<>> /\ called[1] = Main BY <2>1 DEF CallInv
  <2>3. Empty \notin ToSet(called)
    <3>1. Empty \notin Delegate BY DelegateAssumption DEF Delegate
    <3>2. \A k \in DOMAIN called : called[k] \in Delegate BY <2>1
    <3> QED BY <3>1, <3>2 DEF ToSet
  <2>4. removals = 0 => called = Registered
    <3> SUFFICES ASSUME removals = 0 PROVE called = Registered
      OBVIOUS
    <3>1. i = num /\ \A k \in 1 .. num : called[k] = table[k - 1] BY <2>1 DEF CallInv
    <3>2. called = [k \in 1 .. num |-> called[k]] BY <2>1, <3>1
    <3> QED BY <3>1, <3>2 DEF Registered
  <2>5. ToSet(Registered) = Passed
    <3>1. Passed = { table[k] : k \in 0 .. num - 1 }
      BY <2>1 DEF Passed
    <3>2. ToSet(Registered) = { table[k - 1] : k \in 1 .. num }
      BY DEF ToSet, Registered
    <3>3. \A k \in 0 .. num - 1 : k + 1 \in 1 .. num /\ (k + 1) - 1 = k BY <2>1
    <3>4. \A k \in 1 .. num : k - 1 \in 0 .. num - 1 BY <2>1
    <3> QED BY <3>1, <3>2, <3>3, <3>4
  <2> QED BY <2>2, <2>3, <2>4, <2>5 DEF CallInv, Missed
<1> QED BY <1>1, CallInvHolds, PTL
=============================================================================
