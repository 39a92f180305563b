-------------------------------- MODULE Ecu --------------------------------
(***************************************************************************)
(* The inside of the ECU process between its socket and its brake light.   *)
(*                                                                         *)
(* The receive thread (CanBusHandler::receiveLoop) decodes a datagram and  *)
(* serves the table of delegates (CanSystem); MainSystem's delegate copies *)
(* the payload over the receive buffer can01_rx.  The main thread starts   *)
(* the systems (TASK(init)) and then runs a pass every 10 ms               *)
(* (TASK(10ms)): it reads its inputs from that buffer, calls the software  *)
(* components and writes their outputs.  No lock is shared by the two.     *)
(*                                                                         *)
(* The CAN controller between socket and delegates hands each message over *)
(* in the thread that inserted it and before the next one (module          *)
(* CanDevice, NoLag), so it is left out here.  What the components compute *)
(* is any byte: their ramp is in module VirtualCar.                        *)
(***************************************************************************)
EXTENDS Intercom, FiniteSets, SequencesExt

CONSTANTS
  Bytes,          (* the payload bytes of driving_controls the signals use *)
  Others,         (* delegates of further users of CanSystem               *)
  MaxDelegates,   (* MAX_CAN_DELEGATES, 4 in the code                      *)
  MaxFrames,      (* bound: driving_controls frames that are sent          *)
  Traffic(_),     (* what others send; the argument numbers the frame      *)
  LightPeriod,    (* argument of setPeriod: LightSystem::init passes 255   *)
  Duties,         (* arguments of setDuty: Rte::Out holds bytes            *)
  Main, Empty     (* MainSystem's delegate, and an unused entry            *)

DrivingControls == 256       (* the only message that can01_rx holds       *)
Dlc == Cardinality(Bytes)
ASSUME ByteAssumption == Bytes = 1 .. Dlc /\ Dlc \in 1 .. MaxDlc
ASSUME DelegateAssumption == /\ MaxDelegates \in Nat \ {0}
                             /\ Main \notin Others /\ Empty \notin Others \cup {Main}
(* What the programs make of a message: a text, a CAN message with or      *)
(* without a payload, or signals.                                          *)
IsMessage(m) ==
  \/ m \in [type : {"text"}, source : STRING, string : Seq(STRING)]
  \/ /\ m \in [type : {"can"}, source : STRING, id : Nat, bus : Nat,
               payload : Seq(Nat) \cup {Torn}]
     /\ m.payload # Torn => Len(m.payload) <= MaxDlc
  \/ m \in [type : {"pwm", "adc"}, source : STRING, signals : Seq(Nat)]

ASSUME TrafficAssumption ==
  /\ MaxFrames \in Nat /\ Torn # "can"
  /\ \A f \in 1 .. MaxFrames + 1 : \A m \in Traffic(f) :
       /\ IsMessage(m)
       /\ m.type = "can" /\ m.id = DrivingControls =>
            /\ m.payload # Torn
            /\ Len(m.payload) = Dlc => m.payload = [b \in Bytes |-> f]
ASSUME PwmAssumption == LightPeriod = 255 /\ Duties \subseteq 0 .. 255

VARIABLES
  rcv,        (* the receive thread: where it is                           *)
  msg,        (* its local DataMessage, as it lies in memory               *)
  was,        (* history: the message that was made and sent as this one   *)
  table, num, (* m_CanRcvDelegates and m_NumCanRcvDelegates of bus 0       *)
  i,          (* index of dispatchCanMessage                               *)
  called,     (* history: the delegates called in this dispatch            *)
  removals,   (* history: successful removals during this dispatch         *)
  rx,         (* can01_rx.Msg_driving_controls: frame each byte is from    *)
  toCopy,     (* bytes memcpy has still to store                           *)
  begun, stored,     (* history: last frame whose copy began, and ended    *)
  task,       (* the main thread: where it is                              *)
  In,         (* Rte::In in this pass: frame each byte is from             *)
  before,     (* history: stored when the pass began                       *)
  overlap,    (* history: a copy went on while the inputs were read        *)
  state, period, width, asked, sent   (* the brake light, see PwmDevice    *)

rcvVars  == <<rcv, msg, was>>
callVars == <<i, called, removals>>
tabVars  == <<table, num>>
rxVars   == <<rx, toCopy, begun, stored>>
taskVars == <<task, In, before>>
pwmVars  == <<state, period, width, asked, sent>>
vars == <<rcvVars, callVars, tabVars, rxVars, taskVars, overlap, pwmVars>>

BrakeLight == INSTANCE PwmDevice

Own == "ecu"                 (* m_SysId of the ECU's sender and receiver   *)
NUM_CAN_DEVICES == 1

Registered == [k \in 1 .. num |-> table[k - 1]]

(* A local message before anything is stored in it: any value.             *)
Unset == [a \in Address |-> <<Torn, 0>>]

Init ==
  /\ rcv = "unborn" /\ msg = Unset /\ was = Torn
  /\ i = 0 /\ called = <<>> /\ removals = 0
  /\ table = [k \in 0 .. MaxDelegates - 1 |-> Empty] /\ num = 0
  /\ rx = [b \in Bytes |-> 0] /\ toCopy = {} /\ begun = 0 /\ stored = 0
  /\ task = "lights" /\ In = <<>> /\ before = 0 /\ overlap = FALSE
  /\ BrakeLight!Init

-----------------------------------------------------------------------------
(* The table of delegates *)

(* addCanReceiveDelegate; a full table refuses.                            *)
addCanReceiveDelegate(d) ==
  IF num < MaxDelegates
    THEN table' = [table EXCEPT ![num] = d] /\ num' = num + 1
    ELSE UNCHANGED tabVars

(* removeCanReceiveDelegate: the entries behind the first match move down. *)
removeCanReceiveDelegate(d) ==
  LET found == { k \in 0 .. num - 1 : table[k] = d } IN
  \/ found = {} /\ UNCHANGED <<tabVars, removals>>
  \/ \E first \in found :
       /\ \A k \in found : first <= k
       /\ table' = [k \in DOMAIN table |->
                      IF k \in first .. num - 2 THEN table[k + 1] ELSE table[k]]
       /\ num' = num - 1 /\ removals' = removals + 1

-----------------------------------------------------------------------------
(* The receive thread *)

(* The memory of a message made by the create functions.                   *)
Made(m) ==
  CASE m.type = "text" -> createTextMsg(Unset, m.string)
    [] m.type = "can" /\ m.payload # Torn -> createCanMsg(Unset, m.id, m.payload, m.bus)
    [] m.type = "can" /\ m.payload = Torn -> createEmptyCanMsg(Unset, m.id, Dlc, m.bus)
    [] m.type = "pwm" -> createPwmMsg(Unset, m.signals)
    [] m.type = "adc" -> createAdcMsg(Unset, m.signals)

(* The next datagram; a frame of driving_controls carries its number.      *)
(* What the datagram does not reach may hold anything.                     *)
Receive ==
  /\ rcv = "listen"
  /\ \E m \in Traffic(begun + 1) :
       /\ m.type = "can" /\ m.id = DrivingControls => begun < MaxFrames
       /\ msg' = receive(Unset, send(Made(m), m.source))
       /\ was' = m
  /\ rcv' = "handle"
  /\ UNCHANGED <<callVars, tabVars, rxVars, taskVars, overlap, pwmVars>>

(* recvfrom fails; the loop goes on with what is in the message's place on *)
(* the stack, the last datagram.                                           *)
ReceiveFails ==
  /\ rcv = "listen" /\ rcv' = "handle"
  /\ UNCHANGED <<msg, was, callVars, tabVars, rxVars, taskVars, overlap, pwmVars>>

(* Own messages, other types and other buses are ignored; insertRxMessage  *)
(* refuses payloads that are too long.                                     *)
Accepted ==
  /\ getMsgType(msg) = "can" /\ getSysId(msg) # Own
  /\ getCanInfo(msg).bus < NUM_CAN_DEVICES
  /\ Len(getCanInfo(msg).payload) <= MaxDlc

Handle ==
  /\ rcv = "handle"
  /\ rcv' = IF Accepted THEN "dispatch" ELSE "listen"
  /\ UNCHANGED <<msg, was, callVars, tabVars, rxVars, taskVars, overlap, pwmVars>>

(* Mutated: one entry too many. *)
MoreDelegates_OffByOne == i <= num /\ i < MaxDelegates

MoreDelegates == i < num

Call(d) ==
  /\ rcv = "dispatch" /\ MoreDelegates /\ table[i] = d
  /\ called' = Append(called, d)

(* Mutated: the length of the message is not compared. *)
BufferFor_AnyDlc(id, dlc) == id = DrivingControls

(* getCanMessageBufferWithDlt: a buffer for this identifier and length.    *)
BufferFor(id, dlc) == id = DrivingControls /\ dlc = Dlc

(* MainSystem::processCanMessage_can01 copies a message it has a buffer    *)
(* for ...                                                                 *)
CallMain ==
  /\ Call(Main)
  /\ LET can == getCanInfo(msg) IN
       IF BufferFor(can.id, Len(can.payload))
         THEN /\ rcv' = "copy" /\ toCopy' = DOMAIN can.payload
              /\ begun' = IF can.payload[1] > begun THEN can.payload[1] ELSE begun
              /\ overlap' = TRUE /\ UNCHANGED i
         ELSE /\ rcv' = rcv /\ i' = i + 1 /\ UNCHANGED <<toCopy, begun, overlap>>
  /\ UNCHANGED <<msg, was, removals, tabVars, rx, stored, taskVars, pwmVars>>

(* ... and memcpy stores the bytes in any order.                           *)
CopyByte ==
  /\ rcv = "copy"
  /\ \E b \in toCopy :
       /\ rx' = [rx EXCEPT ![b] = getCanInfo(msg).payload[b]]
       /\ toCopy' = toCopy \ {b}
  /\ UNCHANGED <<rcvVars, callVars, tabVars, begun, stored, taskVars, overlap, pwmVars>>

CopyEnds ==
  /\ rcv = "copy" /\ toCopy = {}
  /\ rcv' = "dispatch" /\ i' = i + 1 /\ stored' = begun
  /\ UNCHANGED <<msg, was, called, removals, tabVars, rx, toCopy, begun, taskVars,
                 overlap, pwmVars>>

(* Another user's delegate, which may add one or remove one, itself        *)
(* included, before it returns.                                            *)
CallOther ==
  /\ \E d \in Others \cup {Empty} : Call(d)
  /\ i' = i + 1
  /\ \/ UNCHANGED <<tabVars, removals>>
     \/ \E d \in Others : addCanReceiveDelegate(d) /\ UNCHANGED removals
     \/ \E d \in Others : removeCanReceiveDelegate(d)
  /\ UNCHANGED <<rcvVars, rxVars, taskVars, overlap, pwmVars>>

DispatchEnds ==
  /\ rcv = "dispatch" /\ ~MoreDelegates
  /\ rcv' = "listen" /\ i' = 0 /\ called' = <<>> /\ removals' = 0
  /\ UNCHANGED <<msg, was, tabVars, rxVars, taskVars, overlap, pwmVars>>

-----------------------------------------------------------------------------
(* The main thread *)

(* LightSystem::init: the output is initialised, then its period is set.   *)
LightInit ==
  /\ task = "lights" /\ task' = "period"
  /\ BrakeLight!PwmOutInit
  /\ UNCHANGED <<rcvVars, callVars, tabVars, rxVars, In, before, overlap>>

LightPeriodInit ==
  /\ task = "period" /\ task' = "delegates"
  /\ BrakeLight!SetPeriod(LightPeriod)
  /\ UNCHANGED <<rcvVars, callVars, tabVars, rxVars, In, before, overlap>>

(* MainSystem::init registers the first delegate ...                       *)
MainInit ==
  /\ task = "delegates" /\ task' = "init"
  /\ addCanReceiveDelegate(Main)
  /\ UNCHANGED <<rcvVars, callVars, rxVars, In, before, overlap, pwmVars>>

(* ... others may follow, before the first pass, which calls init of the   *)
(* components.                                                             *)
OtherInit ==
  /\ task = "init" /\ UNCHANGED task
  /\ \E d \in Others : addCanReceiveDelegate(d)
  /\ UNCHANGED <<rcvVars, callVars, rxVars, In, before, overlap, pwmVars>>

(* Then main starts the threads, and only then serves the events.          *)
StartThreads ==
  /\ task = "idle" /\ UNCHANGED task
  /\ rcv = "unborn" /\ rcv' = "listen"
  /\ UNCHANGED <<msg, was, callVars, tabVars, rxVars, In, before, overlap, pwmVars>>

(* A pass, of TASK(init) or TASK(10ms): Rte::readInputs takes the bytes of *)
(* the signals one by one and, as nothing is volatile, in any order ...    *)
PassBegins ==
  /\ \/ task = "init"
     \/ task = "idle" /\ rcv # "unborn"
  /\ task' = "read"
  /\ before' = stored /\ overlap' = (rcv = "copy") /\ In' = <<>>
  /\ UNCHANGED <<rcvVars, callVars, tabVars, rxVars, pwmVars>>

ReadByte ==
  /\ task = "read"
  /\ \E b \in Bytes \ DOMAIN In : In' = [c \in DOMAIN In \cup {b} |-> IF c = b THEN rx[b] ELSE In[c]]
  /\ UNCHANGED <<rcvVars, callVars, tabVars, rxVars, task, before, overlap, pwmVars>>

(* ... the components are called, and writeOutputs sets the duty; nobody   *)
(* else reads the inputs.                                                  *)
PassEnds ==
  /\ task = "read" /\ DOMAIN In = Bytes /\ task' = "idle"
  /\ \E d \in Duties : BrakeLight!SetDuty(d)
  /\ In' = <<>> /\ before' = 0 /\ overlap' = FALSE
  /\ UNCHANGED <<rcvVars, callVars, tabVars, rxVars>>

(* A task starts or stops the output (PwmOutput::start, PwmOutput::stop).  *)
SwitchOutput ==
  /\ task = "idle" /\ UNCHANGED task
  /\ BrakeLight!PwmOutStart \/ BrakeLight!PwmOutStop
  /\ UNCHANGED <<rcvVars, callVars, tabVars, rxVars, In, before, overlap>>

Next ==
  \/ LightInit \/ LightPeriodInit \/ MainInit \/ OtherInit \/ StartThreads
  \/ Receive \/ ReceiveFails \/ Handle
  \/ CallMain \/ CopyByte \/ CopyEnds \/ CallOther \/ DispatchEnds
  \/ PassBegins \/ ReadByte \/ PassEnds \/ SwitchOutput

Spec == Init /\ [][Next]_vars

-----------------------------------------------------------------------------
(* Properties *)

(* The brake light's fields mean the duty that was asked for, and a lit    *)
(* output has been announced as it is (see module PwmDevice), in the order *)
(* in which the ECU's start and its passes drive the output.               *)
IntensityIsRatio  == BrakeLight!IntensityIsRatio
LitMeansAnnounced == BrakeLight!LitMeansAnnounced

(* What a pass has read is recent and, if nothing arrived meanwhile, of    *)
(* one frame: each byte is from the last frame that was complete when the  *)
(* pass began or from a later one, and bytes of different frames meet in   *)
(* one pass only when a copy went on while it read.                        *)
InputsAreRecent ==
  task = "read" =>
    \A b \in DOMAIN In :
      /\ In[b] \in before .. begun
      /\ ~overlap => In[b] = before

(* What a message was made of: texts may be cut off, and more signals than *)
(* a message takes are none.                                               *)
Content(m) ==
  CASE m.type = "text" -> Cut(m.string)
    [] m.type = "can" ->
         [id |-> m.id, bus |-> m.bus,
          payload |-> IF m.payload = Torn THEN [b \in Bytes |-> 0] ELSE m.payload]
    [] OTHER -> IF CountAllowed(Len(m.signals)) THEN m.signals ELSE <<>>

Reading(mem) ==
  CASE getMsgType(mem) = "text" -> BytesFrom(mem, 10, LengthOf(mem))
    [] getMsgType(mem) = "can"  -> getCanInfo(mem)
    [] OTHER -> SignalsOf(mem)

(* A receiver reads in its message exactly what the sender made it of, of  *)
(* every type and length, although only a part of the memory travels and   *)
(* the rest holds anything; nothing is written behind the message.         *)
OnlyWhatWasSent ==
  was # Torn =>
    /\ DOMAIN msg = Address
    /\ getMsgType(msg) = was.type /\ getSysId(msg) = was.source
    /\ Reading(msg) = Content(was)

(* A message reaches every delegate of the table once and in order, those  *)
(* added meanwhile included, and never an unused entry.  Each removal      *)
(* during the dispatch costs at most one other delegate the message, and   *)
(* never MainSystem.                                                       *)
DelegatesServed ==
  rcv = "dispatch" /\ ~MoreDelegates =>
    /\ called # <<>> /\ called[1] = Main /\ Empty \notin ToSet(called)
    /\ removals = 0 => called = Registered
    /\ Cardinality(ToSet(Registered) \ ToSet(called)) <= removals
=============================================================================
