--------------------------- MODULE CanBus_proofs ---------------------------
(***************************************************************************)
(* Proofs about the CAN controller and the loop it is part of.             *)
(*                                                                         *)
(* CanDevice, for every number of buffers and every set of messages: type  *)
(* correctness, the interrupt handler keeps its device, the receive path   *)
(* never lags, and it implements the bounded queue.                        *)
(*                                                                         *)
(* VirtualCar, which uses that queue, for every limit and step of the ramp *)
(* and every size of the sockets: type correctness, and that the light     *)
(* stays dark as long as nobody has touched the pedal.                     *)
(***************************************************************************)
EXTENDS CanDevice, VirtualCar, TLAPS

USE ThreadsAssumption, MessageAssumption, NumBuffersAssumption

(* Rcv has stored its message and the handler has not removed it yet.      *)
InRing == pc[Rcv] \in {"isrLock", "isr", "del"}

(* Each mutex is held by exactly the thread whose program counter is in    *)
(* the section it protects; s_CurrentDevId follows m_IsrMutex.             *)
LockInv ==
  /\ \A t \in Threads : (mutex = t) <=> (pc[t] = "store")
  /\ \A t \in Threads : (isrMutex = t) <=> InIsr(t)
  /\ currentDev = IF isrMutex = Nobody THEN InvalidId ELSE DevId
  /\ pc[App] # "del"

(* The Rx ring holds the message being inserted, and nothing else.         *)
RingInv ==
  /\ \A t \in Threads : pc[t] # "idle" => arg[t] \in Message
  /\ cnt[Rcv] = IF InRing THEN 1 ELSE 0
  /\ InRing => msgs[Rcv][pos[Rcv]] = arg[Rcv]
  /\ pc[Rcv] = "del" => delivered = arg[Rcv]


(* Slot arithmetic: the write position of an empty ring is pos itself, and *)
(* advancing pos stays within the ring.                                    *)
LEMMA SlotArithmetic ==
  ASSUME NEW p \in Slot
  PROVE  /\ p % NumBuffers = p
         /\ (p + 1) % NumBuffers \in Slot
         /\ \A c \in 0 .. NumBuffers : (p + c) % NumBuffers \in Slot
  BY DEF Slot

(* Every variable of CanDevice keeps its type.  Not mere shape in it: that *)
(* the counters stay within the rings although insertRxMessage adds to them*)
(* under m_Mutex and delRxMessage subtracts from them without it.          *)
THEOREM TypeCorrect == Spec => []TypeOK
<1>1. Init => TypeOK
  BY DEF Init, TypeOK, Threads, Slot, Holder, InvalidId
<1>2. TypeOK /\ [Next]_vars => TypeOK'
  <2> SUFFICES ASSUME TypeOK, [Next]_vars PROVE TypeOK'
    OBVIOUS
  <2>1. ASSUME NEW t \in Threads, NEW m \in Message, InsertCall(t, m) PROVE TypeOK'
    BY <2>1 DEF TypeOK, InsertCall, Goto, stateVars, ringVars, lockVars
  <2>2. ASSUME NEW t \in Threads, InsertLock(t) PROVE TypeOK'
    BY <2>2 DEF TypeOK, InsertLock, Goto, stateVars, ringVars, Holder
  <2>3. ASSUME NEW t \in Threads, InsertStore(t) PROVE TypeOK'
    <3>1. (pos[t] + cnt[t]) % NumBuffers \in Slot
      BY SlotArithmetic DEF TypeOK
    <3>2. cnt[t] < NumBuffers => cnt[t] + 1 \in 0 .. NumBuffers
      BY DEF TypeOK
    <3>3. msgs' \in [Threads -> [Slot -> Message \cup {NoMsg}]]
      <4> DEFINE row == [msgs[t] EXCEPT ![(pos[t] + cnt[t]) % NumBuffers] = arg[t]]
      <4>1. row \in [Slot -> Message \cup {NoMsg}]
        BY <3>1 DEF TypeOK
      <4>2. CASE Accepts(t)
        <5>1. msgs' = [msgs EXCEPT ![t] = row]
          BY <2>3, <4>2 DEF InsertStore
        <5>2. QED
          BY <4>1, <5>1 DEF TypeOK
      <4>3. CASE ~Accepts(t)
        BY <2>3, <4>3 DEF TypeOK, InsertStore
      <4>4. QED
        BY <4>2, <4>3
    <3>4. cnt' \in [Threads -> 0 .. NumBuffers]
      BY <2>3, <3>2 DEF TypeOK, InsertStore, Accepts
    <3>5. QED
      BY <2>3, <3>3, <3>4 DEF TypeOK, InsertStore, Goto, stateVars, Holder
  <2>4. ASSUME NEW t \in Threads, IsrEnter(t) PROVE TypeOK'
    BY <2>4 DEF TypeOK, IsrEnter, Goto, stateVars, ringVars, Holder
  <2>5. CASE IsrSent
    BY <2>5 DEF TypeOK, IsrSent, Goto, stateVars, ringVars, lockVars
  <2>6. CASE IsrRecv
    BY <2>6 DEF TypeOK, IsrRecv, Goto, stateVars, ringVars, lockVars, Threads
  <2>7. CASE IsrDelete
    <3> DEFINE next == (pos[Rcv] + 1) % NumBuffers
               left == cnt[Rcv] - 1
    <3>1. next \in Slot
      BY SlotArithmetic DEF TypeOK, Threads
    <3>2. cnt[Rcv] > 0 => left \in 0 .. NumBuffers
      BY DEF TypeOK, Threads
    <3>3. \/ RxReadable /\ pos' = [pos EXCEPT ![Rcv] = next] /\ cnt' = [cnt EXCEPT ![Rcv] = left]
          \/ pos' = pos /\ cnt' = cnt
      BY <2>7 DEF IsrDelete
    <3> HIDE DEF next, left
    <3>4. pos' \in [Threads -> Slot] /\ cnt' \in [Threads -> 0 .. NumBuffers]
      BY <3>3, <3>1, <3>2 DEF TypeOK, RxReadable
    <3>5. QED
      BY <2>7, <3>4 DEF TypeOK, IsrDelete, Goto, stateVars, lockVars
  <2>8. ASSUME NEW t \in Threads, IsrExit(t) PROVE TypeOK'
    BY <2>8 DEF TypeOK, IsrExit, Goto, stateVars, ringVars, Holder
  <2>9. CASE Control
    BY <2>9 DEF TypeOK, Control, TransceiverInit, TransceiverStart, TransceiverStop,
       DriverInit, DriverOpen, DriverClose, DriverSilent, SetTransceiver, SetDriver,
       ringVars, lockVars
  <2>10. CASE UNCHANGED vars
    BY <2>10 DEF TypeOK, vars
  <2>11. QED
    BY <2>1, <2>2, <2>3, <2>4, <2>5, <2>6, <2>7, <2>8, <2>9, <2>10 DEF Next, Proceed
<1>3. QED
  BY <1>1, <1>2, PTL DEF Spec

(* Each mutex is held by exactly the thread whose place in the code says so, *)
(* and s_CurrentDevId is valid exactly while m_IsrMutex is held.           *)
LEMMA LockInvariant == Spec => []LockInv
<1>1. Init => LockInv
  BY DEF Init, LockInv, InIsr, Threads
<1>2. TypeOK /\ LockInv /\ [Next]_vars => LockInv'
  <2> SUFFICES ASSUME TypeOK, LockInv, [Next]_vars PROVE LockInv'
    OBVIOUS
  <2> USE DEF LockInv, InIsr, Goto
  <2>1. ASSUME NEW t \in Threads, NEW m \in Message, InsertCall(t, m) PROVE LockInv'
    BY <2>1 DEF TypeOK, InsertCall, lockVars, Threads
  <2>2. ASSUME NEW t \in Threads, InsertLock(t) PROVE LockInv'
    BY <2>2 DEF TypeOK, InsertLock, Threads
  <2>3. ASSUME NEW t \in Threads, InsertStore(t) PROVE LockInv'
    BY <2>3 DEF TypeOK, InsertStore, Threads
  <2>4. ASSUME NEW t \in Threads, IsrEnter(t) PROVE LockInv'
    BY <2>4 DEF TypeOK, IsrEnter, Threads
  <2>5. CASE IsrSent
    BY <2>5 DEF TypeOK, IsrSent, lockVars, Threads
  <2>6. CASE IsrRecv
    BY <2>6 DEF TypeOK, IsrRecv, lockVars, Threads
  <2>7. CASE IsrDelete
    BY <2>7 DEF TypeOK, IsrDelete, lockVars, Threads
  <2>8. ASSUME NEW t \in Threads, IsrExit(t) PROVE LockInv'
    BY <2>8 DEF TypeOK, IsrExit, Threads
  <2>9. CASE Control
    BY <2>9 DEF Control, TransceiverInit, TransceiverStart, TransceiverStop,
       DriverInit, DriverOpen, DriverClose, DriverSilent, SetTransceiver, SetDriver, lockVars
  <2>10. CASE UNCHANGED vars
    BY <2>10 DEF vars
  <2>11. QED
    BY <2>1, <2>2, <2>3, <2>4, <2>5, <2>6, <2>7, <2>8, <2>9, <2>10 DEF Next, Proceed
<1>3. QED
  BY <1>1, <1>2, TypeCorrect, PTL DEF Spec

(* While any thread is inside an interrupt handler, s_CurrentDevId names   *)
(* the device: m_IsrMutex makes the handlers mutually exclusive.           *)
THEOREM IsrKeepsDevice == Spec => []IsrSeesDevice
<1>1. LockInv => IsrSeesDevice
  BY DEF LockInv, IsrSeesDevice, Threads
<1>2. QED
  BY <1>1, LockInvariant, PTL

(* The Rx ring holds the message of the receive thread between its store and *)
(* its delRxMessage, and nothing at any other time.                        *)
LEMMA RingInvariant == Spec => []RingInv
<1>1. Init => RingInv
  BY DEF Init, RingInv, InRing, Threads
<1>2. TypeOK /\ LockInv /\ RingInv /\ [Next]_vars => RingInv'
  <2> SUFFICES ASSUME TypeOK, LockInv, RingInv, [Next]_vars PROVE RingInv'
    OBVIOUS
  <2> USE DEF RingInv, InRing, Goto
  <2>1. ASSUME NEW t \in Threads, NEW m \in Message, InsertCall(t, m) PROVE RingInv'
    BY <2>1 DEF TypeOK, InsertCall, ringVars, Threads
  <2>2. ASSUME NEW t \in Threads, InsertLock(t) PROVE RingInv'
    BY <2>2 DEF TypeOK, InsertLock, ringVars, Threads
  <2>3. CASE InsertStore(Rcv)
    <3>1. (pos[Rcv] + cnt[Rcv]) % NumBuffers = pos[Rcv]
      <4>1. pos[Rcv] \in Slot /\ pos[Rcv] \in Int
        BY DEF TypeOK, Threads, Slot
      <4>2. pos[Rcv] + cnt[Rcv] = pos[Rcv]
        BY <2>3, <4>1 DEF InsertStore
      <4>3. QED
        BY <4>1, <4>2, SlotArithmetic
    <3>2. ASSUME Accepts(Rcv) PROVE msgs'[Rcv][pos[Rcv]] = arg[Rcv]
      <4> DEFINE row == [msgs[Rcv] EXCEPT ![pos[Rcv]] = arg[Rcv]]
      <4>1. msgs' = [msgs EXCEPT ![Rcv] = row]
        BY <2>3, <3>1, <3>2 DEF InsertStore
      <4>2. msgs'[Rcv] = row
        BY <4>1 DEF TypeOK, Threads
      <4>3. row[pos[Rcv]] = arg[Rcv]
        BY DEF TypeOK, Threads
      <4>4. QED
        BY <4>2, <4>3
    <3>3. QED
      BY <2>3, <3>2 DEF InsertStore, TypeOK, Threads
  <2>4. CASE InsertStore(App)
    <3>1. msgs'[Rcv] = msgs[Rcv] /\ cnt'[Rcv] = cnt[Rcv] /\ pc'[Rcv] = pc[Rcv]
      BY <2>4 DEF InsertStore, TypeOK, Threads
    <3>2. QED
      BY <2>4, <3>1 DEF InsertStore, TypeOK, Threads
  <2>5. ASSUME NEW t \in Threads, IsrEnter(t) PROVE RingInv'
    BY <2>5 DEF TypeOK, IsrEnter, ringVars, Threads
  <2>6. CASE IsrSent
    BY <2>6 DEF TypeOK, IsrSent, ringVars, Threads
  <2>7. CASE IsrRecv
    BY <2>7 DEF TypeOK, LockInv, InIsr, IsrRecv, RxReadable, ringVars, Threads
  <2>8. CASE IsrDelete
    BY <2>8 DEF TypeOK, LockInv, InIsr, IsrDelete, RxReadable, Threads
  <2>9. ASSUME NEW t \in Threads, IsrExit(t) PROVE RingInv'
    BY <2>9 DEF TypeOK, IsrExit, ringVars, Threads
  <2>10. CASE Control
    BY <2>10 DEF Control, TransceiverInit, TransceiverStart, TransceiverStop,
       DriverInit, DriverOpen, DriverClose, DriverSilent, SetTransceiver, SetDriver, ringVars
  <2>11. CASE UNCHANGED vars
    BY <2>11 DEF vars
  <2>12. QED
    BY <2>1, <2>2, <2>3, <2>4, <2>5, <2>6, <2>7, <2>8, <2>9, <2>10, <2>11
       DEF Next, Proceed, Threads
<1>3. QED
  BY <1>1, <1>2, TypeCorrect, LockInvariant, PTL DEF Spec

(* The application is never one message behind: what the handler hands     *)
(* over is what the insertion that raised the interrupt stored.            *)
THEOREM NeverLags == Spec => []NoLag
<1>1. TypeOK /\ RingInv => NoLag
  BY DEF TypeOK, RingInv, InRing, NoLag, Threads
<1>2. QED
  BY <1>1, TypeCorrect, RingInvariant, PTL

(* The abstract content of the ring, in the two shapes it can have.        *)
WaitingShape ==
  RxWaiting = IF pc[Rcv] \in {"isrLock", "isr"} THEN <<arg[Rcv]>> ELSE <<>>

(* The abstract content of the Rx ring, which CanDevice defines slot by slot, *)
(* is one message between store and dispatch, and empty otherwise.         *)
LEMMA RingContent == TypeOK /\ RingInv => WaitingShape
<1> SUFFICES ASSUME TypeOK, RingInv PROVE WaitingShape
  OBVIOUS
<1> USE DEF WaitingShape
<1>1. CASE pc[Rcv] \in {"isrLock", "isr"}
  <2>1. Pending = 0 /\ cnt[Rcv] = 1
    BY <1>1 DEF Pending, RingInv, InRing
  <2>2. (pos[Rcv] + 0 + 1 - 1) % NumBuffers = pos[Rcv]
    <3>1. pos[Rcv] \in Slot /\ pos[Rcv] \in Int
      BY DEF TypeOK, Threads, Slot
    <3>2. pos[Rcv] + 0 + 1 - 1 = pos[Rcv]
      BY <3>1
    <3>3. QED
      BY <3>1, <3>2, SlotArithmetic
  <2>3. RxWaiting = [i \in 1 .. 1 |-> arg[Rcv]]
    BY <1>1, <2>1, <2>2 DEF RxWaiting, RingInv, InRing
  <2>4. QED
    BY <1>1, <2>3
<1>2. CASE pc[Rcv] \notin {"isrLock", "isr"}
  <2>1. cnt[Rcv] - Pending = 0
    BY <1>2 DEF Pending, RingInv, InRing
  <2>2. RxWaiting = [i \in 1 .. 0 |-> msgs[Rcv][(pos[Rcv] + Pending + i - 1) % NumBuffers]]
    BY <2>1 DEF RxWaiting
  <2>3. QED
    BY <1>2, <2>2
<1>3. QED
  BY <1>1, <1>2

IInv == TypeOK /\ LockInv /\ RingInv /\ WaitingShape

(* The device implements the bounded first-in first-out queue for every    *)
(* number of buffers: storing is Accept, dispatching is HandOver, every    *)
(* other step leaves the abstract queue alone.                             *)
THEOREM ImplementsFifo == Spec => RefinesFifo
<1>1. Init => Fifo!Init
  <2> SUFFICES ASSUME Init PROVE Fifo!Init
    OBVIOUS
  <2>1. RxWaiting = [i \in 1 .. 0 |-> msgs[Rcv][(pos[Rcv] + Pending + i - 1) % NumBuffers]]
    BY DEF Init, RxWaiting, Pending, Threads
  <2>2. RxWaiting = <<>>
    BY <2>1
  <2>3. QED
    BY <2>2 DEF Init, Fifo!Init
<1>2. IInv /\ IInv' /\ [Next]_vars => [Fifo!Next]_(Fifo!vars)
  <2> SUFFICES ASSUME IInv, IInv', [Next]_vars PROVE [Fifo!Next]_(Fifo!vars)
    OBVIOUS
  <2> USE DEF IInv
  <2>a. RxWaiting = IF pc[Rcv] \in {"isrLock", "isr"} THEN <<arg[Rcv]>> ELSE <<>>
    BY DEF WaitingShape
  <2>b. RxWaiting' = IF pc'[Rcv] \in {"isrLock", "isr"} THEN <<arg'[Rcv]>> ELSE <<>>
    BY DEF WaitingShape
  <2>c. (RxWaiting' = RxWaiting /\ delivered' = delivered) => [Fifo!Next]_(Fifo!vars)
    BY DEF Fifo!vars
  <2>1. ASSUME NEW t \in Threads, NEW m \in Message, InsertCall(t, m)
        PROVE [Fifo!Next]_(Fifo!vars)
    BY <2>1, <2>a, <2>b, <2>c DEF TypeOK, InsertCall, Goto, Threads
  <2>2. ASSUME NEW t \in Threads, InsertLock(t) PROVE [Fifo!Next]_(Fifo!vars)
    BY <2>2, <2>a, <2>b, <2>c DEF TypeOK, InsertLock, Goto, Threads
  <2>3. CASE InsertStore(Rcv)
    <3>1. CASE Accepts(Rcv)
      <4>1. RxWaiting = <<>> /\ RxWaiting' = <<arg[Rcv]>>
        BY <2>3, <3>1, <2>a, <2>b DEF TypeOK, InsertStore, Goto, Threads
      <4>2. arg[Rcv] \in Message
        BY <2>3 DEF InsertStore, RingInv, Threads
      <4>3. Len(RxWaiting) < NumBuffers /\ RxWaiting' = Append(RxWaiting, arg[Rcv])
        BY <4>1
      <4>4. Fifo!Accept(arg[Rcv])
        BY <4>3, <2>3 DEF InsertStore, Fifo!Accept
      <4>5. QED
        BY <4>2, <4>4 DEF Fifo!Next
    <3>2. CASE ~Accepts(Rcv)
      BY <2>3, <3>2, <2>a, <2>b, <2>c DEF TypeOK, InsertStore, Goto, Threads
    <3>3. QED
      BY <3>1, <3>2
  <2>4. CASE InsertStore(App)
    BY <2>4, <2>a, <2>b, <2>c DEF TypeOK, InsertStore, Goto, Threads
  <2>5. ASSUME NEW t \in Threads, IsrEnter(t) PROVE [Fifo!Next]_(Fifo!vars)
    BY <2>5, <2>a, <2>b, <2>c DEF TypeOK, IsrEnter, Goto, Threads
  <2>6. CASE IsrSent
    BY <2>6, <2>a, <2>b, <2>c DEF TypeOK, IsrSent, Goto, Threads
  <2>7. CASE IsrRecv
    <3>1. RxReadable /\ pc'[Rcv] = "del" /\ delivered' = arg[Rcv]
      BY <2>7 DEF TypeOK, LockInv, InIsr, RingInv, InRing, IsrRecv, RxReadable, Goto, Threads
    <3>2. RxWaiting = <<arg[Rcv]>> /\ RxWaiting' = <<>>
      BY <2>7, <3>1, <2>a, <2>b DEF IsrRecv
    <3>3. Fifo!HandOver
      BY <3>1, <3>2 DEF Fifo!HandOver
    <3>4. QED
      BY <3>3 DEF Fifo!Next
  <2>8. CASE IsrDelete
    BY <2>8, <2>a, <2>b, <2>c DEF TypeOK, IsrDelete, Goto, Threads
  <2>9. ASSUME NEW t \in Threads, IsrExit(t) PROVE [Fifo!Next]_(Fifo!vars)
    BY <2>9, <2>a, <2>b, <2>c DEF TypeOK, IsrExit, Goto, Threads
  <2>10. CASE Control
    BY <2>10, <2>a, <2>b, <2>c DEF Control, TransceiverInit, TransceiverStart,
       TransceiverStop, DriverInit, DriverOpen, DriverClose, DriverSilent,
       SetTransceiver, SetDriver
  <2>11. CASE UNCHANGED vars
    BY <2>11, <2>a, <2>b, <2>c DEF vars
  <2>12. QED
    BY <2>1, <2>2, <2>3, <2>4, <2>5, <2>6, <2>7, <2>8, <2>9, <2>10, <2>11
       DEF Next, Proceed, Threads
<1>3. Spec => []IInv
  BY TypeCorrect, LockInvariant, RingInvariant, RingContent, PTL DEF IInv
<1>4. QED
  BY <1>1, <1>2, <1>3, PTL DEF Spec, RefinesFifo, Fifo!Spec

-----------------------------------------------------------------------------
(* The loop of the testbed *)

USE RampAssumption, BoundAssumption

(* Whatever the bus does to a datagram, the socket holds only datagrams    *)
(* that were sent, and no more than fit.                                   *)
LEMMA QueueKeepsTypes ==
  ASSUME NEW S, NEW q \in Seq(S), NEW m \in S, NEW size \in Nat, Len(q) <= size,
         NEW r \in Queued(q, m, size) \cup Lost(q)
  PROVE  r \in Seq(S) /\ Len(r) <= size
<1>1. CASE r \in Lost(q)
  BY <1>1 DEF Lost
<1>2. CASE r \in Queued(q, m, size)
  <2>1. \A i \in 1 .. Len(q) + 1 : InsertAt(q, i, m) \in Seq(S)
    <3> SUFFICES ASSUME NEW i \in 1 .. Len(q) + 1 PROVE InsertAt(q, i, m) \in Seq(S)
      OBVIOUS
    <3>1. SubSeq(q, 1, i - 1) \in Seq(S) /\ SubSeq(q, i, Len(q)) \in Seq(S) /\ <<m>> \in Seq(S)
      OBVIOUS
    <3>2. QED
      BY <3>1 DEF InsertAt
  <2>2. q \o <<m, m>> \in Seq(S)
    OBVIOUS
  <2>3. QED
    BY <1>2, <2>1, <2>2 DEF Queued
<1>3. QED
  BY <1>1, <1>2

(* The ramp of SwcBackLight neither overflows nor underflows, also when    *)
(* the step does not divide the limit.                                     *)
LEMMA RampStaysInRange ==
  ASSUME NEW b \in Brake, NEW l \in Duty
  PROVE  Ramp(b, l) \in Duty
  BY DEF Brake, Duty, Ramp

(* The type invariant of VirtualCar.                                       *)
THEOREM VirtualCarTypeCorrect == CarSpec => []CarTypeOK
<1>1. CarInit => CarTypeOK
  BY DEF CarInit, Can!Init, CarTypeOK, Brake, Duty
<1>2. CarTypeOK /\ [CarNext]_carVars => CarTypeOK'
  <2> SUFFICES ASSUME CarTypeOK, [CarNext]_carVars PROVE CarTypeOK'
    OBVIOUS
  <2> USE DEF CarTypeOK, panelVars, ecuVars, canVars
  <2>1. CASE MoveBrake
    BY <2>1 DEF MoveBrake, Brake
  <2>2. CASE PanelEncode
    BY <2>2 DEF PanelEncode
  <2>3. CASE PanelSend
    <3>1. encoded \in Brake /\ toEcu' \in Queued(toEcu, encoded, EcuQueue) \cup Lost(toEcu)
      BY <2>3 DEF PanelSend, PanelSendArrives, PanelSendLost, PanelSendTo
    <3>2. toEcu' \in Seq(Brake) /\ Len(toEcu') <= EcuQueue
      BY <3>1, QueueKeepsTypes
    <3>3. QED
      BY <2>3, <3>2 DEF PanelSend, PanelSendArrives, PanelSendLost, PanelSendTo
  <2>4. CASE PanelReceive
    <3>1. display' \in Duty /\ toPanel' \in Seq(Duty) /\ Len(toPanel') <= PanelQueue
      BY <2>4 DEF PanelReceive
    <3>2. QED
      BY <2>4, <3>1 DEF PanelReceive
  <2>5. CASE EcuReceive
    <3>1. toEcu' \in Seq(Brake) /\ Len(toEcu') <= EcuQueue /\ waiting' \in Seq(Brake)
      BY <2>5 DEF EcuReceive, Can!Accept
    <3>2. QED
      BY <2>5, <3>1 DEF EcuReceive, Can!Accept
  <2>6. CASE EcuDispatch
    <3>1. handed' \in Brake /\ waiting' \in Seq(Brake)
      BY <2>6 DEF EcuDispatch, Can!HandOver
    <3>2. QED
      BY <2>6, <3>1 DEF EcuDispatch
  <2>7. CASE TaskCompute
    BY <2>7, RampStaysInRange DEF TaskCompute
  <2>8. CASE TaskWrite
    BY <2>8 DEF TaskWrite
  <2>9. CASE TaskSend
    <3>1. toPanel' \in Seq(Duty) /\ Len(toPanel') <= PanelQueue
      BY <2>9, QueueKeepsTypes DEF TaskSend, isActive
    <3>2. fds' \in 0 .. MaxFds
      BY <2>9 DEF TaskSend, isActive
    <3>3. QED
      BY <2>9, <3>1, <3>2 DEF TaskSend, isActive
  <2>10. CASE SndCopy
    BY <2>10 DEF SndCopy
  <2>11. CASE SndSend
    <3>1. snapshot \in Duty /\ toPanel' \in Queued(toPanel, snapshot, PanelQueue) \cup Lost(toPanel)
      BY <2>11 DEF SndSend, SndSendArrives, SndSendLost, SndSendTo
    <3>2. toPanel' \in Seq(Duty) /\ Len(toPanel') <= PanelQueue
      BY <3>1, QueueKeepsTypes
    <3>3. QED
      BY <2>11, <3>2 DEF SndSend, SndSendArrives, SndSendLost, SndSendTo
  <2>12. CASE EcuRestart
    BY <2>12 DEF EcuRestart, Duty, Brake
  <2>13. CASE UNCHANGED carVars
    BY <2>13 DEF carVars
  <2>14. QED
    BY <2>1, <2>2, <2>3, <2>4, <2>5, <2>6, <2>7, <2>8, <2>9, <2>10, <2>11, <2>12, <2>13
       DEF CarNext, Task
<1>3. QED
  BY <1>1, <1>2, PTL DEF CarSpec

-----------------------------------------------------------------------------
(* While nobody touches the pedal, every value on the way from the slider  *)
(* to the light is zero: in the panel's send thread, on the bus, in the    *)
(* CAN device, in the ECU's inputs and outputs, and on the way back.       *)
Dark ==
  /\ encoded \in {0, None} /\ toEcu \in Seq({0})
  /\ waiting \in Seq({0}) /\ handed \in {0, None} /\ canRx = 0
  /\ brakeOut = 0 /\ pulse = 0 /\ snapshot \in {0, None}
  /\ toPanel \in Seq({0}) /\ display = 0

(* The ramp of SwcBackLight does not leave zero without the brake.         *)
LEMMA RampStaysDark == Ramp(0, 0) = 0
  BY DEF Ramp

(* One step of any thread, the bus or the ECU's restart keeps everything   *)
(* dark if the pedal is untouched.                                         *)
LEMMA DarkIsKept ==
  ASSUME CarTypeOK, Dark, slider = 0, [CarNext]_carVars
  PROVE  Dark'
<1> USE DEF Dark, panelVars, ecuVars, canVars
<1>0. Len(toEcu) <= EcuQueue /\ Len(toPanel) <= PanelQueue
  BY DEF CarTypeOK
<1>1. CASE MoveBrake
  BY <1>1 DEF MoveBrake
<1>2. CASE PanelEncode
  BY <1>2 DEF PanelEncode
<1>3. CASE PanelSend
  <2>1. encoded \in {0} /\ toEcu' \in Queued(toEcu, encoded, EcuQueue) \cup Lost(toEcu)
    BY <1>3 DEF PanelSend, PanelSendArrives, PanelSendLost, PanelSendTo
  <2>2. toEcu' \in Seq({0})
    BY <1>0, <2>1, QueueKeepsTypes
  <2>3. QED
    BY <1>3, <2>2 DEF PanelSend, PanelSendArrives, PanelSendLost, PanelSendTo
<1>4. CASE PanelReceive
  <2>1. display' \in {0} /\ toPanel' \in Seq({0})
    BY <1>4 DEF PanelReceive
  <2>2. QED
    BY <1>4, <2>1 DEF PanelReceive
<1>5. CASE EcuReceive
  <2>1. toEcu' \in Seq({0}) /\ waiting' \in Seq({0})
    BY <1>5 DEF EcuReceive, Can!Accept
  <2>2. QED
    BY <1>5, <2>1 DEF EcuReceive, Can!Accept
<1>6. CASE EcuDispatch
  <2>1. handed' \in {0} /\ waiting' \in Seq({0})
    BY <1>6 DEF EcuDispatch, Can!HandOver
  <2>2. QED
    BY <1>6, <2>1 DEF EcuDispatch
<1>7. CASE TaskCompute
  BY <1>7, RampStaysDark DEF TaskCompute
<1>8. CASE TaskWrite
  BY <1>8 DEF TaskWrite
<1>9. CASE TaskSend
  <2>1. pulse \in {0} /\ toPanel' \in Queued(toPanel, pulse, PanelQueue) \cup Lost(toPanel)
    BY <1>9 DEF TaskSend, isActive, Lost
  <2>2. toPanel' \in Seq({0})
    BY <1>0, <2>1, QueueKeepsTypes
  <2>3. QED
    BY <1>9, <2>2 DEF TaskSend, isActive
<1>10. CASE SndCopy
  BY <1>10 DEF SndCopy
<1>11. CASE SndSend
  <2>1. snapshot \in {0} /\ toPanel' \in Queued(toPanel, snapshot, PanelQueue) \cup Lost(toPanel)
    BY <1>11 DEF SndSend, SndSendArrives, SndSendLost, SndSendTo
  <2>2. toPanel' \in Seq({0})
    BY <1>0, <2>1, QueueKeepsTypes
  <2>3. QED
    BY <1>11, <2>2 DEF SndSend, SndSendArrives, SndSendLost, SndSendTo
<1>12. CASE EcuRestart
  BY <1>12 DEF EcuRestart
<1>13. CASE UNCHANGED carVars
  BY <1>13 DEF carVars
<1>14. QED
  BY <1>1, <1>2, <1>3, <1>4, <1>5, <1>6, <1>7, <1>8, <1>9, <1>10, <1>11, <1>12, <1>13
     DEF CarNext, Task

(* As long as nobody has touched the pedal, nothing on the way -- start-   *)
(* up, restart, duplicated or late datagrams -- ever lights the brake      *)
(* light, for every ramp and every size of the sockets.                    *)
THEOREM NoLightWithoutPedal == CarSpec => NoSpontaneousLight
<1>1. CarInit => Dark
  BY DEF CarInit, Can!Init, Dark
<1>2. CarTypeOK /\ Dark /\ slider = 0 /\ [CarNext]_carVars => Dark'
  BY DarkIsKept
<1>3. Dark => display = 0
  BY DEF Dark
<1>4. QED
  BY <1>1, <1>2, <1>3, VirtualCarTypeCorrect, PTL DEF CarSpec, NoSpontaneousLight
=============================================================================
