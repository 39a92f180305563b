----------------------------- MODULE CanDevice -----------------------------
(***************************************************************************)
(* The emulated CAN controller of the ECU (ecu/emu/emu_can.cpp) with its   *)
(* interrupt handlers (ecu/IsrHandlers.cpp).                               *)
(*                                                                         *)
(* Two threads use it.  Rcv is the thread of CanBusHandler::receiveLoop,   *)
(* the only caller of insertRxMessage; App is the main thread, which       *)
(* drives the transceiver and the driver and may transmit.  An insertion   *)
(* takes m_Mutex, stores, releases it, then takes m_IsrMutex and runs the  *)
(* interrupt handler in the calling thread with s_CurrentDevId set.  The   *)
(* handler works on the Rx ring without m_Mutex.                           *)
(***************************************************************************)
EXTENDS Integers, Sequences, FiniteSets

CONSTANTS
  Rcv, App,     (* the two threads                                          *)
  Message,      (* messages that reach an insert function                   *)
  Oversized,    (* those whose Dlc exceeds CAN_MAX_SIZE                     *)
  NoMsg,        (* content of a slot never written, "no argument"           *)
  NumBuffers    (* NUM_CAN_TXBUFFERS = NUM_CAN_RXBUFFERS (8 in the code)    *)

Threads == {Rcv, App}
Nobody  == "nobody"
Holder  == Threads \cup {Nobody}

ASSUME ThreadsAssumption    == Rcv # App /\ Nobody \notin Threads
ASSUME MessageAssumption    == Oversized \subseteq Message /\ NoMsg \notin Message
ASSUME NumBuffersAssumption == NumBuffers \in Nat \ {0}

(* The single device has index 0; INVALID_CAN_DEVICE is any other value.   *)
DevId     == 0
InvalidId == -1

VARIABLES
  trState,    (* m_CanTransceiverState                                     *)
  drvState,   (* m_CanDriverState                                          *)
  msgs,       (* m_CanRxMessages, m_CanTxMessages: thread -> slot -> message *)
  pos, cnt,   (* m_CanRxPos/Cnt (index Rcv), m_CanTxPos/Cnt (index App)    *)
  mutex,      (* holder of m_Mutex                                         *)
  isrMutex,   (* holder of m_IsrMutex                                      *)
  currentDev, (* s_CurrentDevId                                            *)
  pc,         (* where each thread is                                      *)
  arg,        (* the message each thread is inserting                      *)
  delivered   (* the message last passed to dispatchCanMessage             *)

stateVars == <<trState, drvState>>
ringVars  == <<msgs, pos, cnt>>
lockVars  == <<mutex, isrMutex, currentDev>>
vars == <<trState, drvState, msgs, pos, cnt, mutex, isrMutex, currentDev,
          pc, arg, delivered>>

Slot == 0 .. NumBuffers - 1

(* One ring per thread: Rcv is the only writer of the Rx ring, App of the  *)
(* Tx ring, so the thread names the ring.                                  *)
Init ==
  /\ trState = "Undefined" /\ drvState = "Undefined"
  /\ msgs = [t \in Threads |-> [s \in Slot |-> NoMsg]]
  /\ pos = [t \in Threads |-> 0]
  /\ cnt = [t \in Threads |-> 0]
  /\ mutex = Nobody /\ isrMutex = Nobody
  /\ currentDev = InvalidId
  /\ pc = [t \in Threads |-> "idle"]
  /\ arg = [t \in Threads |-> NoMsg]
  /\ delivered = NoMsg

Goto(t, l) == pc' = [pc EXCEPT ![t] = l]

-----------------------------------------------------------------------------
(* insertRxMessage (t = Rcv) and insertTxMessage (t = App)                 *)

InsertCall(t, m) ==
  /\ pc[t] = "idle"
  /\ m \notin Oversized
  /\ arg' = [arg EXCEPT ![t] = m]
  /\ Goto(t, "lock")
  /\ UNCHANGED <<stateVars, ringVars, lockVars, delivered>>

InsertLock(t) ==
  /\ pc[t] = "lock"
  /\ mutex = Nobody
  /\ mutex' = t
  /\ Goto(t, "store")
  /\ UNCHANGED <<stateVars, ringVars, isrMutex, currentDev, arg, delivered>>

Accepts(t) == trState = "Active" /\ cnt[t] < NumBuffers

InsertStore(t) ==
  /\ pc[t] = "store"
  /\ mutex' = Nobody
  /\ IF Accepts(t)
       THEN /\ msgs' = [msgs EXCEPT ![t][(pos[t] + cnt[t]) % NumBuffers] = arg[t]]
            /\ cnt' = [cnt EXCEPT ![t] = @ + 1]
            /\ Goto(t, "isrLock")
       ELSE Goto(t, "idle") /\ UNCHANGED <<msgs, cnt>>
  /\ UNCHANGED <<stateVars, pos, isrMutex, currentDev, arg, delivered>>

(* Mutated: the interrupt runs without m_IsrMutex. *)
IsrEnter_Unlocked(t) ==
  /\ pc[t] = "isrLock"
  /\ UNCHANGED isrMutex
  /\ currentDev' = DevId
  /\ Goto(t, "isr")
  /\ UNCHANGED <<stateVars, ringVars, mutex, arg, delivered>>

IsrEnter(t) ==
  /\ pc[t] = "isrLock"
  /\ isrMutex = Nobody
  /\ isrMutex' = t
  /\ currentDev' = DevId
  /\ Goto(t, "isr")
  /\ UNCHANGED <<stateVars, ringVars, mutex, arg, delivered>>

(* ISR(CAN_MSG_SENT) is empty.  ISR(CAN_MSG_RECV) reads s_CurrentDevId for  *)
(* each driver call; getRxMessage returns NULL for a device that is not    *)
(* valid and for an empty ring, and the handler then does nothing.         *)
RxReadable == currentDev = DevId /\ cnt[Rcv] > 0

IsrSent ==
  /\ pc[App] = "isr"
  /\ Goto(App, "isrExit")
  /\ UNCHANGED <<stateVars, ringVars, lockVars, arg, delivered>>

IsrRecv ==
  /\ pc[Rcv] = "isr"
  /\ IF RxReadable
       THEN delivered' = msgs[Rcv][pos[Rcv]] /\ Goto(Rcv, "del")
       ELSE Goto(Rcv, "isrExit") /\ UNCHANGED delivered
  /\ UNCHANGED <<stateVars, ringVars, lockVars, arg>>

(* Mutated: the handler returns without delRxMessage. *)
IsrDelete_Forgotten ==
  /\ pc[Rcv] = "del"
  /\ Goto(Rcv, "isrExit")
  /\ UNCHANGED <<stateVars, ringVars, lockVars, arg, delivered>>

(* CanDriver_delRxMessage, the last statement of the handler.              *)
IsrDelete ==
  /\ pc[Rcv] = "del"
  /\ IF RxReadable
       THEN /\ pos' = [pos EXCEPT ![Rcv] = (@ + 1) % NumBuffers]
            /\ cnt' = [cnt EXCEPT ![Rcv] = @ - 1]
       ELSE UNCHANGED <<pos, cnt>>
  /\ Goto(Rcv, "isrExit")
  /\ UNCHANGED <<stateVars, msgs, lockVars, arg, delivered>>

(* Mutated: m_IsrMutex stays locked. *)
IsrExit_StillLocked(t) ==
  /\ pc[t] = "isrExit"
  /\ currentDev' = InvalidId
  /\ Goto(t, "idle")
  /\ UNCHANGED <<stateVars, ringVars, mutex, isrMutex, arg, delivered>>

IsrExit(t) ==
  /\ pc[t] = "isrExit"
  /\ currentDev' = InvalidId
  /\ isrMutex' = Nobody
  /\ Goto(t, "idle")
  /\ UNCHANGED <<stateVars, ringVars, mutex, arg, delivered>>

-----------------------------------------------------------------------------
(* Transceiver and driver calls of the main thread; none takes a mutex.    *)

SetTransceiver(s) ==
  /\ pc[App] = "idle"
  /\ trState' = s
  /\ UNCHANGED <<drvState, ringVars, lockVars, pc, arg, delivered>>

TransceiverInit  == SetTransceiver("Standby")
TransceiverStart == trState = "Standby" /\ SetTransceiver("Active")
TransceiverStop  == trState = "Active"  /\ SetTransceiver("Standby")

SetDriver(s) ==
  /\ pc[App] = "idle"
  /\ drvState' = s
  /\ UNCHANGED <<trState, ringVars, lockVars, pc, arg, delivered>>

DriverInit   == SetDriver("Closed")
DriverOpen   == drvState # "Undefined" /\ SetDriver("Open")
DriverClose  == drvState # "Undefined" /\ SetDriver("Closed")
DriverSilent == drvState # "Undefined" /\ SetDriver("Silent")

Control ==
  \/ TransceiverInit \/ TransceiverStart \/ TransceiverStop
  \/ DriverInit \/ DriverOpen \/ DriverClose \/ DriverSilent

(* The steps a thread takes on its own once it is inside a call.           *)
Proceed(t) ==
  \/ InsertLock(t) \/ InsertStore(t)
  \/ IsrEnter(t) \/ IsrExit(t)
  \/ t = App /\ IsrSent
  \/ t = Rcv /\ (IsrRecv \/ IsrDelete)

Next ==
  \/ \E t \in Threads, m \in Message : InsertCall(t, m)
  \/ \E t \in Threads : Proceed(t)
  \/ Control

(* Neither thread is killed or suspended for ever inside a call; nothing   *)
(* obliges anybody to make a call.                                         *)
Fairness == \A t \in Threads : WF_vars(Proceed(t))

Spec     == Init /\ [][Next]_vars
FairSpec == Spec /\ Fairness

-----------------------------------------------------------------------------
(* Properties                                                              *)

(* The type invariant. *)
TypeOK ==
  /\ trState \in {"Undefined", "Standby", "Active"}
  /\ drvState \in {"Undefined", "Closed", "Open", "Silent"}
  /\ msgs \in [Threads -> [Slot -> Message \cup {NoMsg}]]
  /\ pos \in [Threads -> Slot]
  /\ cnt \in [Threads -> 0 .. NumBuffers]
  /\ mutex \in Holder /\ isrMutex \in Holder
  /\ currentDev \in {DevId, InvalidId}
  /\ pc \in [Threads -> {"idle", "lock", "store", "isrLock", "isr", "del", "isrExit"}]
  /\ arg \in [Threads -> Message \cup {NoMsg}]
  /\ delivered \in Message \cup {NoMsg}

InIsr(t) == pc[t] \in {"isr", "del", "isrExit"}

(* The handler never loses its device: while any thread is inside an       *)
(* interrupt handler, s_CurrentDevId names the device, although the other  *)
(* thread sets and clears the same static variable (emu_can.cpp:94-98).    *)
IsrSeesDevice == \A t \in Threads : InIsr(t) => currentDev = DevId

(* The receive handler hands over the message whose insertion triggered    *)
(* it, never an older one left in the ring: the ring is empty between two  *)
(* insertions, so the application is never one message behind the bus.     *)
NoLag ==
  /\ pc[Rcv] = "del" => delivered = arg[Rcv]
  /\ pc[Rcv] \in {"idle", "lock", "store"} => cnt[Rcv] = 0

(* A message that insertRxMessage accepted reaches the application even if *)
(* the main thread stops the transceiver in between: the interrupt is not  *)
(* cancelled.  No fairness among the two lockers is needed: App enters the *)
(* interrupt section at most NumBuffers times, because no code ever takes  *)
(* a message out of the Tx ring.                                           *)
AcceptedIsHandled ==
  \A m \in Message :
    (pc[Rcv] = "isrLock" /\ arg[Rcv] = m) ~> (pc[Rcv] = "idle" /\ delivered = m)

(* Seen from the application the device is a bounded first-in first-out    *)
(* queue.  A message counts as handed over as soon as it is dispatched,    *)
(* one step before delRxMessage removes it from the ring.                  *)
Pending == IF pc[Rcv] = "del" THEN 1 ELSE 0
RxWaiting ==
  [i \in 1 .. cnt[Rcv] - Pending |-> msgs[Rcv][(pos[Rcv] + Pending + i - 1) % NumBuffers]]

Fifo == INSTANCE BoundedFifo
          WITH None <- NoMsg, Capacity <- NumBuffers,
               waiting <- RxWaiting, handed <- delivered

RefinesFifo == Fifo!Spec
=============================================================================
