---------------------------- MODULE SignalCodec ----------------------------
(***************************************************************************)
(* How the signals of a CAN message are put into its payload and taken out *)
(* again.  The repository has five codecs for the same layout:             *)
(*   - libcandbc/messageDecoder.c, and its copy in tools/commspy,          *)
(*   - decodeCanMessage and encodeCanMessage of panel/CarState.cpp,        *)
(*   - the accessor functions that tools/dbcgen generates for the ECU.     *)
(*                                                                         *)
(* A byte and a raw value are the sets of their bits that are one, bit 0   *)
(* the least significant: & is \cap, | is \cup, >> and << are Shr and Shl. *)
(* A signal is shorter than 32 bits, the width of a raw value in dbcgen.   *)
(***************************************************************************)
EXTENDS Integers, Sequences

CONSTANTS
  Bytes,     (* length of the payload                                      *)
  Messages,  (* messages: sequences of signals that do not overlap         *)
  Sent,      (* the messages the panel sends                               *)
  Generated  (* the messages with generated accessors                      *)

Word == 0..31
Signal == [start : Nat, len : Nat \ {0}, big : BOOLEAN, signed : BOOLEAN]

ASSUME BytesAssumption == Bytes \in Nat \ {0}
ASSUME MessagesAssumption ==
  \A m \in Messages : m \in Seq(Signal) /\ \A i \in DOMAIN m : m[i].len < 32
ASSUME WritersAssumption == Sent \subseteq Messages /\ Generated \subseteq Messages

Byte(S)   == S \cap 0..7
Shr(S, k) == {i - k : i \in {j \in S : j >= k}}
Shl(S, k) == IF k < 0 THEN {} ELSE {i + k : i \in S}
Low(k)    == 0..(7 - k)                        (* (uint8)~0 >> k           *)

-----------------------------------------------------------------------------
(* The geometry of a signal, as every codec computes it first.             *)

startOffset(s) == s.start % 8
startByte(s)   == s.start \div 8

endByte(s) ==
  startByte(s) + (IF s.big THEN 7 + s.len - startOffset(s) - 1
                           ELSE s.len + startOffset(s) - 1) \div 8
endOffset(s) ==
  IF s.big THEN (startOffset(s) - s.len + 1) % 8 ELSE (startOffset(s) + s.len - 1) % 8

(* The bytes with the most and the least significant bits of the signal,   *)
(* and the offsets of those two bits.                                      *)
topByte(s)   == IF s.big THEN startByte(s) ELSE endByte(s)
lowByte(s)   == IF s.big THEN endByte(s) ELSE startByte(s)
topOffset(s) == IF s.big THEN startOffset(s) ELSE endOffset(s)
lowOffset(s) == IF s.big THEN endOffset(s) ELSE startOffset(s)

(* How many bytes it touches, and the k-th of them from either side.       *)
Touched(s)    == endByte(s) - startByte(s) + 1
Upward(s, k)  == startByte(s) + k - 1
FromTop(s, k) == IF s.big THEN startByte(s) + k - 1 ELSE endByte(s) - k + 1
FromLow(s, k) == IF s.big THEN endByte(s) - k + 1 ELSE startByte(s) + k - 1

SignExtend(s, raw) ==
  IF s.signed /\ s.len - 1 \in raw THEN raw \cup (s.len .. 31) ELSE raw
SignStrip(s, v) == IF s.signed THEN v \cap 0..(s.len - 1) ELSE v

(* The drawing in every codec ("little endian place value exponent ..."):  *)
(* where bit i of a signal is in the payload, by byte and offset.          *)
Where(s, i) ==
  LET back == 8 * startByte(s) + 7 - startOffset(s) + (s.len - 1 - i)
  IN  IF s.big THEN <<back \div 8, 7 - (back % 8)>>
               ELSE <<(s.start + i) \div 8, (s.start + i) % 8>>
Drawn(s, f) == SignExtend(s, {i \in 0..(s.len - 1) : Where(s, i)[2] \in f[Where(s, i)[1]]})

(* A message has room for its signals, and they share no bit.              *)
ASSUME LayoutAssumption ==
  \A m \in Messages : \A i \in DOMAIN m :
    /\ endByte(m[i]) < Bytes
    /\ \A j \in DOMAIN m \ {i} : \A a \in 0..(m[i].len - 1), b \in 0..(m[j].len - 1) :
         Where(m[i], a) # Where(m[j], b)

(* encodeCanMessage puts other signals where no decoder looks for them:    *)
(* what the panel sends is little-endian, within one byte or whole bytes   *)
(* (driving_controls, panel/dbc/can01.dbc:39-43).                          *)
ASSUME SentAssumption ==
  \A m \in Sent : \A i \in DOMAIN m :
    /\ ~ m[i].big
    /\ startByte(m[i]) # endByte(m[i]) => startOffset(m[i]) = 0 /\ endOffset(m[i]) = 7

-----------------------------------------------------------------------------
(* canMessage_decode: a byte loses its foreign high bits, then its low     *)
(* ones, and is appended to what was read so far.                          *)

(* What each byte adds, the k-th from the top in parts[k], makes the value. *)
Appended(s, parts) ==
  LET raw[k \in 0..Touched(s)] ==
        IF k = 0 THEN {} ELSE Shl(raw[k - 1], parts[k].shift) \cup parts[k].data
  IN  SignExtend(s, raw[Touched(s)])

LibPart(s, b, byte) ==
  LET top  == b = topByte(s) /\ topOffset(s) # 7
      low  == b = lowByte(s) /\ lowOffset(s) # 0
      data == IF top THEN byte \cap Low(7 - topOffset(s)) ELSE byte
      size == IF top THEN topOffset(s) + 1 ELSE 8
  IN  IF low THEN [data |-> Shr(data, lowOffset(s)), shift |-> size - lowOffset(s)]
             ELSE [data |-> data, shift |-> size]

LibDecode(s, f) ==
  Appended(s, [k \in 1..Touched(s) |-> LibPart(s, FromTop(s, k), f[FromTop(s, k)])])

SpyDecode(s, f) == LibDecode(s, f)

(* CanMsgParser::decodeCanMessage: one case of four for each byte.         *)

(* Mutated: a signal inside one byte keeps the bits below it. *)
PanelPart_Unshifted(s, b, byte) ==
  LET top == b = topByte(s) /\ topOffset(s) # 7
      low == b = lowByte(s) /\ lowOffset(s) # 0
  IN  CASE top /\ low  -> [data  |-> byte \cap Low(7 - topOffset(s)),
                           shift |-> topOffset(s) - lowOffset(s) + 1]
        [] top /\ ~low -> [data  |-> byte \cap Low(7 - topOffset(s)),
                           shift |-> topOffset(s) + 1]
        [] low /\ ~top -> [data  |-> Shr(byte, lowOffset(s)), shift |-> 8 - lowOffset(s)]
        [] OTHER       -> [data  |-> byte, shift |-> 8]

PanelPart(s, b, byte) ==
  LET top == b = topByte(s) /\ topOffset(s) # 7
      low == b = lowByte(s) /\ lowOffset(s) # 0
  IN  CASE top /\ low  -> [data  |-> Shr(byte \cap Low(7 - topOffset(s)), lowOffset(s)),
                           shift |-> topOffset(s) - lowOffset(s) + 1]
        [] top /\ ~low -> [data  |-> byte \cap Low(7 - topOffset(s)),
                           shift |-> topOffset(s) + 1]
        [] low /\ ~top -> [data  |-> Shr(byte, lowOffset(s)), shift |-> 8 - lowOffset(s)]
        [] OTHER       -> [data  |-> byte, shift |-> 8]

PanelDecode(s, f) ==
  Appended(s, [k \in 1..Touched(s) |-> PanelPart(s, FromTop(s, k), f[FromTop(s, k)])])

-----------------------------------------------------------------------------
(* dbcgen: for each byte a mask, a rotation and the number of bits.        *)

GenPart(s, b) ==
  LET one  == b = topByte(s) /\ b = lowByte(s)
      top  == b = topByte(s) /\ topOffset(s) # 7
      low  == b = lowByte(s) /\ lowOffset(s) # 0
      mid  == Low(7 - topOffset(s) + lowOffset(s))
  IN  CASE one /\ top /\ low ->
             [mask |-> Byte(Shl(mid, lowOffset(s))), rotate |-> lowOffset(s),
              shift |-> topOffset(s) - lowOffset(s) + 1]
        [] top /\ ~low ->
             [mask |-> Low(7 - topOffset(s)), rotate |-> 0, shift |-> topOffset(s) + 1]
        [] low /\ ~top ->
             [mask |-> (0..7) \ Low(8 - lowOffset(s)), rotate |-> lowOffset(s),
              shift |-> 8 - lowOffset(s)]
        [] OTHER -> [mask |-> 0..7, rotate |-> 0, shift |-> 8]

(* The position at which the bits of byte b begin in the raw value: counted *)
(* down from bit_len in a big-endian signal, up from 0 in the other.       *)
Bits(s, count) ==
  LET bits[k \in 0..count] ==
        IF k = 0 THEN 0 ELSE bits[k - 1] + GenPart(s, Upward(s, k)).shift
  IN  bits[count]
Position(s, b) ==
  LET before == Bits(s, b - startByte(s))
  IN  IF s.big THEN s.len - before - GenPart(s, b).shift ELSE before

(* The two assertions behind the loops.                                    *)
GenAsserts(s) == Bits(s, Touched(s)) = s.len

(* The parentheses the decoder opens and closes around the sum.            *)
GenOpened(s) == IF s.signed /\ ~s.big THEN 4 ELSE 0
GenClosed(s) == IF s.signed THEN 4 ELSE 0
GenCompiles(s) == GenOpened(s) = GenClosed(s)

Place(S, k) == IF k >= 0 THEN Shl(S, k) ELSE Shr(S, -k)

GenDecode(s, f) ==
  LET Term(b) == Place(f[b] \cap GenPart(s, b).mask, Position(s, b) - GenPart(s, b).rotate)
  IN  SignExtend(s, UNION {Term(b) : b \in startByte(s)..endByte(s)})

(* Mutated: the old bits of the signal are not cleared. *)
GenEncode_OrOnly(s, f, v) ==
  [b \in DOMAIN f |->
     IF b \notin startByte(s)..endByte(s) THEN f[b]
     ELSE LET p == GenPart(s, b)
          IN  f[b] \cup (p.mask \cap Shl(Shr(SignStrip(s, v), Position(s, b)), p.rotate))]

GenEncode(s, f, v) ==
  [b \in DOMAIN f |->
     IF b \notin startByte(s)..endByte(s) THEN f[b]
     ELSE LET p == GenPart(s, b)
          IN  (f[b] \ p.mask)
                \cup (p.mask \cap Shl(Shr(SignStrip(s, v), Position(s, b)), p.rotate))]

-----------------------------------------------------------------------------
(* CanMsgParser::encodeCanMessage.  A shift by a negative amount is         *)
(* undefined; on x86-64 it moves every bit out of the byte (Shl).          *)

PanelBig(s, b, raw) ==
  CASE b = endByte(s) /\ endOffset(s) # 7 ->
         LET mask == (0..7) \ Low(9 - endOffset(s))
         IN  [mask |-> mask, data |-> Shl(raw, 5 - endOffset(s)), shift |-> 9 - endOffset(s)]
    [] b = startByte(s) /\ startOffset(s) # 0 /\ ~(b = endByte(s) /\ endOffset(s) # 7) ->
         [mask |-> Low(8 - startOffset(s)), data |-> raw, shift |-> startOffset(s)]
    [] OTHER -> [mask |-> 0..7, data |-> raw, shift |-> 8]

PanelLittle(s, b, raw) ==
  LET one == b = startByte(s) /\ b = endByte(s) /\ (startOffset(s) # 0 \/ endOffset(s) # 7)
      end == b = endByte(s) /\ endOffset(s) # 7
      beg == b = startByte(s) /\ startOffset(s) # 0
  IN  CASE one -> [mask  |-> Byte(Shl(Low(7 - endOffset(s) + startOffset(s)), startOffset(s))),
                   data  |-> Shl(raw, startOffset(s)), shift |-> startOffset(s)]
        [] end /\ ~one -> [mask  |-> (0..7) \ Low(7 - endOffset(s)),
                           data  |-> Shl(raw, 5 - endOffset(s)), shift |-> 7 - endOffset(s)]
        [] beg /\ ~one /\ ~end -> [mask |-> Low(8 - startOffset(s)), data |-> raw,
                                   shift |-> startOffset(s)]
        [] OTHER -> [mask |-> 0..7, data |-> raw, shift |-> 8]

PutByte(s, b, a) ==
  LET p == IF s.big THEN PanelBig(s, b, a.raw) ELSE PanelLittle(s, b, a.raw)
  IN  [raw |-> Shr(a.raw, p.shift),
       f   |-> [a.f EXCEPT ![b] = (@ \ p.mask) \cup (p.data \cap p.mask)]]

PanelPut(s, f, v) ==
  LET put[k \in 0..Touched(s)] ==
        IF k = 0 THEN [raw |-> SignStrip(s, v), f |-> f]
                 ELSE PutByte(s, FromLow(s, k), put[k - 1])
  IN  put[Touched(s)].f

(* Mutated: every signal starts from a fresh payload. *)
PanelEncode_LastOnly(m, values) ==
  PanelPut(m[Len(m)], [b \in 0..(Bytes - 1) |-> 0..7], values[Len(m)])

PanelEncode(m, values) ==
  LET filled[i \in 0..Len(m)] ==
        IF i = 0 THEN [b \in 0..(Bytes - 1) |-> 0..7]
                 ELSE PanelPut(m[i], filled[i - 1], values[i])
  IN  filled[Len(m)]

-----------------------------------------------------------------------------
(* A message on its way: the values the panel keeps, the payload, and the  *)
(* signals whose value the payload holds.                                  *)

VARIABLES msg, value, frame, held

vars == <<msg, value, frame, held>>

Frames == [0..(Bytes - 1) -> SUBSET (0..7)]
Pattern == {[b \in 0..(Bytes - 1) |-> {}], [b \in 0..(Bytes - 1) |-> 0..7],
            [b \in 0..(Bytes - 1) |-> IF b % 2 = 0 THEN {0, 1, 5} ELSE {1, 2, 4, 7}]}

(* Raw values that tell shifts and swapped bytes apart: every third bit,   *)
(* and its complement.                                                     *)
Sample(name, s) ==
  SignExtend(s, CASE name = "thirds" -> {i \in 0..(s.len - 1) : i % 3 = 0}
                  [] name = "others" -> {i \in 0..(s.len - 1) : i % 3 # 0})
Samples == {"thirds", "others"}
Values(s) == {Sample(name, s) : name \in Samples}

Init ==
  /\ msg \in Messages
  /\ value = [i \in DOMAIN msg |-> {}]
  /\ frame \in Pattern
  /\ held = {}

(* A slider of the panel is moved.                                         *)
Ask(i, v) ==
  /\ msg \in Sent
  /\ value' = [value EXCEPT ![i] = v]
  /\ held' = held \ {i}
  /\ UNCHANGED <<msg, frame>>

PanelSend ==
  /\ msg \in Sent
  /\ frame' = PanelEncode(msg, value)
  /\ held' = DOMAIN msg
  /\ UNCHANGED <<msg, value>>

(* setSignal_<name>(v) of the generated message.                           *)
SetSignal(i, v) ==
  /\ msg \in Generated
  /\ value' = [value EXCEPT ![i] = v]
  /\ frame' = GenEncode(msg[i], frame, v)
  /\ held' = held \cup {i}
  /\ UNCHANGED msg

(* setDefaultSignals(): the payload is cleared and every signal set.       *)
Defaults(m, start) ==
  LET filled[i \in 0..Len(m)] ==
        IF i = 0 THEN [b \in 0..(Bytes - 1) |-> {}]
                 ELSE GenEncode(m[i], filled[i - 1], start[i])
  IN  filled[Len(m)]

SetDefaults(start) ==
  /\ msg \in Generated
  /\ value' = start
  /\ frame' = Defaults(msg, start)
  /\ held' = DOMAIN msg
  /\ UNCHANGED msg

(* A frame of somebody else: the panel stores what it decodes.             *)
Store ==
  /\ value' = [i \in DOMAIN msg |-> PanelDecode(msg[i], frame)]
  /\ held' = DOMAIN msg
  /\ UNCHANGED <<msg, frame>>

Next ==
  \/ \E i \in DOMAIN msg : \E v \in Values(msg[i]) : Ask(i, v) \/ SetSignal(i, v)
  \/ PanelSend
  \/ \E name \in Samples : SetDefaults([i \in DOMAIN msg |-> Sample(name, msg[i])])
  \/ Store

Spec == Init /\ [][Next]_vars

-----------------------------------------------------------------------------
(* Properties *)

(* The type invariant: a value the panel keeps is one that its signal can  *)
(* have, sign bits included.                                               *)
TypeOK ==
  /\ msg \in Messages
  /\ DOMAIN value = DOMAIN msg
  /\ \A i \in DOMAIN msg :
       value[i] \in SUBSET Word /\ value[i] = SignExtend(msg[i], value[i] \cap 0..(msg[i].len - 1))
  /\ frame \in Frames
  /\ held \subseteq DOMAIN msg

(* Whatever the payload, the libcandbc decoder, its copy in commspy, the   *)
(* panel and the generated code read the value the drawing defines, and    *)
(* the loops of dbcgen end at the position that its assertions ask for.    *)
DecodersAgree ==
  \A i \in DOMAIN msg :
    LET s == msg[i]
    IN  /\ GenAsserts(s)
        /\ LibDecode(s, frame) = Drawn(s, frame)
        /\ SpyDecode(s, frame) = Drawn(s, frame)
        /\ PanelDecode(s, frame) = Drawn(s, frame)
        /\ GenCompiles(s) => GenDecode(s, frame) = Drawn(s, frame)

(* A signal that was written, and not asked to change since, is read back  *)
(* with its value by every decoder, whatever else was written meanwhile;   *)
(* and the panel keeps only values that their signals can have.            *)
ValuesTravel ==
  /\ TypeOK
  /\ \A i \in held : value[i] = Drawn(msg[i], frame) /\ value[i] = LibDecode(msg[i], frame)

(* encodeCanMessage is drawn like decodeCanMessage (CarState.cpp:683-690): *)
(* what the panel sends, it decodes to the same value.                     *)
PanelRoundTrip == \A i \in held : PanelDecode(msg[i], frame) = value[i]
=============================================================================
