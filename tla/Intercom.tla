------------------------------ MODULE Intercom ------------------------------
(***************************************************************************)
(* The messages of intercom/: how the create functions lay them out in     *)
(* memory, how much of that memory Sender::send puts into the datagram,    *)
(* what Receiver::receive leaves in the receiver's memory, and what the    *)
(* accessors and the programs read there.                                  *)
(*                                                                         *)
(* A DataMessage is a function from addresses to cells.  Byte j of a field *)
(* that holds v is the cell <<v, j>>: htons and htonl on one side and      *)
(* ntohs and ntohl on the other agree about j, so only a value whose bytes *)
(* all come from one store can be read again.                              *)
(***************************************************************************)
EXTENDS Integers, Sequences

CONSTANTS
  MaxMsgSize,   (* INTERCOM_MAXMSGSIZE, 256                                *)
  Torn          (* what is read of a field that nobody stored as a whole   *)

ASSUME SizeAssumption == MaxMsgSize \in Nat /\ MaxMsgSize >= 22

HeaderSize == 8                            (* Type and SourceSys           *)
MaxLength  == MaxMsgSize - HeaderSize      (* TextMsg::MAX_LENGTH          *)
MaxDlc     == 8                            (* CanMsg::MAX_DLC              *)
SignalSize == 8                            (* PwmMsg::Signal, AdcMsg::Signal *)
MaxCount   == (MaxMsgSize - HeaderSize - 2) \div SignalSize
CanFixed   == 6                            (* Id, Bus and Dlc              *)
FullSize   == HeaderSize + 2 + MaxLength   (* FullMsg: Text is the longest *)

Address == 0 .. FullSize - 1

(* A field of n bytes at an address, and its value.                        *)
Field(at, n, v) == [a \in at .. at + n - 1 |-> <<v, a - at>>]

Value(mem, at, n) ==
  IF \A j \in 0 .. n - 1 : mem[at + j] = <<mem[at][1], j>> THEN mem[at][1] ELSE Torn

Type(t) == Field(0, 4, t)

(* Bytes copied one after the other, as memcpy does.                       *)
BytesAt(at, s) == [a \in at .. at + Len(s) - 1 |-> <<s[a - at + 1], 0>>]
BytesFrom(mem, at, n) == [k \in 1 .. n |-> Value(mem, at + k - 1, 1)]

-----------------------------------------------------------------------------
(* What stores to disjoint fields do to a memory.                          *)
Store(mem, fields) ==
  [a \in DOMAIN mem \cup UNION { DOMAIN f : f \in fields } |->
     IF \E f \in fields : a \in DOMAIN f
       THEN (CHOOSE f \in fields : a \in DOMAIN f)[a] ELSE mem[a]]

(* createTextMsg of a string: with its terminating null, cut off at        *)
(* MAX_LENGTH.                                                             *)
Cut(string) ==
  IF Len(string) < MaxLength THEN Append(string, "nul") ELSE SubSeq(string, 1, MaxLength)

createTextMsg(mem, string) ==
  Store(mem, {Type("text"), Field(8, 2, Len(Cut(string))), BytesAt(10, Cut(string))})

(* createCanMsg; without a payload all its bytes are zero.                 *)
CanHeader(id, bus, dlc) ==
  {Type("can"), Field(8, 4, id), Field(12, 1, bus), Field(13, 1, dlc)}

createCanMsg(mem, id, payload, bus) ==
  Store(mem, CanHeader(id, bus, Len(payload)) \cup {BytesAt(14, payload)})

createEmptyCanMsg(mem, id, dlc, bus) ==
  Store(mem, CanHeader(id, bus, dlc) \cup {BytesAt(14, [k \in 1 .. MaxDlc |-> 0])})

(* createPwmMsg and createAdcMsg of several signals: no more than          *)
(* MAX_COUNT - 1, else the message says it has none.  Each signal is       *)
(* copied as a whole, over zeros.                                          *)
CountAllowed(n) == n > 0 /\ n < MaxCount

SignalAt(i) == 10 + SignalSize * (i - 1)

Zeroed(mem) == Store(mem, {BytesAt(10, [k \in 1 .. SignalSize * MaxCount |-> 0])})

createSignalMsg(mem, type, s) ==
  IF CountAllowed(Len(s))
    THEN Store(Zeroed(mem), {Type(type), Field(8, 2, Len(s))}
                 \cup { Field(SignalAt(i), SignalSize, s[i]) : i \in 1 .. Len(s) })
    ELSE Store(mem, {Type(type), Field(8, 2, 0)})

createPwmMsg(mem, s) == createSignalMsg(mem, "pwm", s)
createAdcMsg(mem, s) == createSignalMsg(mem, "adc", s)

-----------------------------------------------------------------------------
(* Accessors *)

getMsgType(mem) == Value(mem, 0, 4)
getSysId(mem)   == Value(mem, 4, 4)
LengthOf(mem)   == Value(mem, 8, 2)        (* Length or Count              *)

getCanInfo(mem) ==
  [id |-> Value(mem, 8, 4), bus |-> Value(mem, 12, 1),
   payload |-> BytesFrom(mem, 14, Value(mem, 13, 1))]

(* getPwmInfo and getAdcInfo *)
SignalsOf(mem) == [i \in 1 .. LengthOf(mem) |-> Value(mem, SignalAt(i), SignalSize)]

-----------------------------------------------------------------------------
(* Mutated: the length of a CAN message is that of its fixed part. *)
msg_len_NoPayload(mem) ==
  CASE getMsgType(mem) = "text" -> HeaderSize + 2 + LengthOf(mem)
    [] getMsgType(mem) = "can"  -> HeaderSize + CanFixed
    [] OTHER -> HeaderSize + 2 + SignalSize * MaxCount
                  - SignalSize * (MaxCount - LengthOf(mem))

(* The bytes of a message that Sender::send puts on the bus.               *)
msg_len(mem) ==
  CASE getMsgType(mem) = "text" -> HeaderSize + 2 + LengthOf(mem)
    [] getMsgType(mem) = "can"  -> HeaderSize + CanFixed + Value(mem, 13, 1)
    [] OTHER -> HeaderSize + 2 + SignalSize * MaxCount
                  - SignalSize * (MaxCount - LengthOf(mem))

send(mem, sysId) ==
  [a \in 0 .. msg_len(mem) - 1 |-> Store(mem, {Field(4, 4, sysId)})[a]]

(* Receiver::receive: what the datagram does not reach stays as it was.    *)
receive(mem, datagram) == Store(mem, {datagram})
=============================================================================
