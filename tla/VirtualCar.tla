----------------------------- MODULE VirtualCar -----------------------------
(***************************************************************************)
(* The whole loop of the testbed, for the brake and the brake light: the   *)
(* panel's slider, the panel's send thread, the multicast bus, the ECU's   *)
(* receive thread, its 10 ms task and its send thread, the bus again, and  *)
(* the light drawn by the panel.                                           *)
(*                                                                         *)
(* The ECU's CAN controller appears through its abstract specification,    *)
(* BoundedFifo, which module CanDevice implements.  Of the CAN message     *)
(* 0x100 only "is the brake byte above zero" matters (SwcBackLight), and   *)
(* of the five PWM signals only BrkL ever changes.  A datagram its         *)
(* receiver ignores (its own, or of another kind) is not queued.           *)
(***************************************************************************)
EXTENDS Integers, Sequences, SequencesExt

CONSTANTS
  MaxDuty,       (* 255 in the code: PWM period and limit of the ramp      *)
  RampStep,      (* 10 in the code                                         *)
  EcuQueue, PanelQueue,  (* datagrams the two sockets buffer before they   *)
                         (* drop                                           *)
  MaxFds,        (* sockets the ECU process can open besides its own two   *)
  None

ASSUME RampAssumption  == MaxDuty \in Nat \ {0} /\ RampStep \in 1 .. MaxDuty
ASSUME BoundAssumption == /\ EcuQueue \in Nat \ {0} /\ PanelQueue \in Nat \ {0}
                          /\ MaxFds \in Nat
                          /\ None \notin Nat

VARIABLES
  slider,     (* analog_data["driving_controls"]["brake"] > 0 in the panel *)
  encoded,    (* the panel's send thread: message built, not yet sent      *)
  toEcu,      (* brake values in the ECU's socket                          *)
  waiting, handed,  (* the CAN controller (BoundedFifo)                    *)
  canRx,      (* brake byte of MainSystem::can01_rx                        *)
  brakeOut,   (* rte.Out.BrakeLights                                       *)
  pulse,      (* PulseWidth of s_PwmSignals[PWM_BRAKE_LIGHT]               *)
  task,       (* where the 10 ms task is                                   *)
  snapshot,   (* the ECU's send thread: signals copied, not yet sent       *)
  fds,        (* file descriptors left to the ECU process                  *)
  toPanel,    (* PWM values in the panel's socket                          *)
  display     (* brake light intensity the panel draws (0 .. MaxDuty)      *)

panelVars == <<slider, encoded, display>>
ecuVars   == <<canRx, brakeOut, pulse, task, snapshot, fds>>
canVars   == <<waiting, handed>>
carVars == <<slider, encoded, toEcu, waiting, handed, canRx, brakeOut, pulse, task,
          snapshot, fds, toPanel, display>>

Brake == {0, 1}
Duty  == 0 .. MaxDuty

RxBuffers == 8   (* NUM_CAN_RXBUFFERS *)

Can == INSTANCE BoundedFifo WITH Message <- Brake, Capacity <- RxBuffers

CarInit ==
  /\ slider = 0 /\ encoded = None /\ toEcu = <<>>
  /\ Can!Init /\ canRx = 0 /\ brakeOut = 0 /\ pulse = 0
  /\ task = "idle" /\ snapshot = None /\ fds = MaxFds
  /\ toPanel = <<>> /\ display = 0

-----------------------------------------------------------------------------
(* The bus: a datagram sent to the multicast group may be lost, queued out *)
(* of order, or queued twice; a full socket drops it.                      *)

Queued(q, m, size) ==
  { r \in {InsertAt(q, i, m) : i \in 1 .. Len(q) + 1} \cup {q \o <<m, m>>} :
      Len(r) <= size }

Lost(q) == {q}

-----------------------------------------------------------------------------
(* The panel *)

(* The slider callback ChangeBrake. *)
MoveBrake ==
  /\ slider' = 1 - slider
  /\ UNCHANGED <<encoded, toEcu, canVars, ecuVars, toPanel, display>>

(* CarState::sendLoop: createCanMsg and requestCanMessage read the value,  *)
(* send puts the datagram on the bus.                                      *)
PanelEncode ==
  /\ encoded = None
  /\ encoded' = slider
  /\ UNCHANGED <<slider, toEcu, canVars, ecuVars, toPanel, display>>

PanelSendTo(outcomes) ==
  /\ encoded # None
  /\ toEcu' \in outcomes
  /\ encoded' = None
  /\ UNCHANGED <<slider, canVars, ecuVars, toPanel, display>>

PanelSendArrives == PanelSendTo(Queued(toEcu, encoded, EcuQueue))
PanelSendLost    == PanelSendTo(Lost(toEcu))

(* CarState::receiveLoop stores the signal and notifies the listener,      *)
(* which redraws the light.                                                *)
PanelReceive ==
  /\ toPanel # <<>>
  /\ display' = Head(toPanel)
  /\ toPanel' = Tail(toPanel)
  /\ UNCHANGED <<slider, encoded, toEcu, canVars, ecuVars>>

-----------------------------------------------------------------------------
(* The ECU *)

(* CanBusHandler::receiveLoop: the datagram is inserted into the CAN       *)
(* device.  The interrupt handler runs in the same thread, so the next     *)
(* datagram is read only after the dispatch, when the ring is empty again  *)
(* (CanDevice, NoLag); the transceiver has been active since task_init.    *)
EcuReceive ==
  /\ toEcu # <<>> /\ waiting = <<>>
  /\ Can!Accept(Head(toEcu))
  /\ toEcu' = Tail(toEcu)
  /\ UNCHANGED <<panelVars, ecuVars, toPanel>>

(* MainSystem::processCanMessage_can01 copies the payload into can01_rx.   *)
EcuDispatch ==
  /\ Can!HandOver
  /\ canRx' = handed'
  /\ UNCHANGED <<panelVars, toEcu, brakeOut, pulse, task, snapshot, fds, toPanel>>

(* Mutated: any brake value, zero included, counts as braking. *)
Ramp_AnyBrake(brake, light) ==
  IF brake >= 0
    THEN IF light + RampStep > MaxDuty THEN MaxDuty ELSE light + RampStep
    ELSE IF light - RampStep < 0 THEN 0 ELSE light - RampStep

(* SwcBackLight::cyclic *)
Ramp(brake, light) ==
  IF brake > 0
    THEN IF light + RampStep > MaxDuty THEN MaxDuty ELSE light + RampStep
    ELSE IF light - RampStep < 0 THEN 0 ELSE light - RampStep

(* TASK(10ms): readInputs and the software components ...                  *)
TaskCompute ==
  /\ task = "idle"
  /\ brakeOut' = Ramp(canRx, brakeOut)
  /\ task' = "write"
  /\ UNCHANGED <<panelVars, toEcu, canVars, canRx, pulse, snapshot, fds, toPanel>>

(* ... writeOutputs: PwmOut_setDuty stores the pulse width and, only when  *)
(* it changed, opens a new sender.  No sender ever closes its socket, so   *)
(* once the descriptors are used up nothing is sent from here any more.    *)
TaskWrite ==
  /\ task = "write"
  /\ pulse' = brakeOut
  /\ task' = IF pulse' # pulse THEN "send" ELSE "idle"
  /\ UNCHANGED <<panelVars, toEcu, canVars, canRx, brakeOut, snapshot, fds, toPanel>>

(* Sender::Sender: a sender without a socket stays inactive and sends      *)
(* nothing.                                                                *)
isActive == fds > 0

TaskSend ==
  /\ task = "send"
  /\ task' = "idle"
  /\ IF isActive
       THEN fds' = fds - 1 /\ toPanel' \in Queued(toPanel, pulse, PanelQueue) \cup Lost(toPanel)
       ELSE UNCHANGED <<fds, toPanel>>
  /\ UNCHANGED <<panelVars, toEcu, canVars, canRx, brakeOut, pulse, snapshot>>

(* Mutated: the periodic message needs a new descriptor too. *)
SndCopy_NewSocket ==
  /\ snapshot = None /\ fds > 0
  /\ snapshot' = pulse
  /\ UNCHANGED <<panelVars, toEcu, canVars, canRx, brakeOut, pulse, task, fds, toPanel>>

(* CanBusHandler::sendLoop: once a second createPwmMsg copies all signals, *)
(* then its own long-lived sender sends the copy.                          *)
SndCopy ==
  /\ snapshot = None
  /\ snapshot' = pulse
  /\ UNCHANGED <<panelVars, toEcu, canVars, canRx, brakeOut, pulse, task, fds, toPanel>>

SndSendTo(outcomes) ==
  /\ snapshot # None
  /\ toPanel' \in outcomes
  /\ snapshot' = None
  /\ UNCHANGED <<panelVars, toEcu, canVars, canRx, brakeOut, pulse, task, fds>>

SndSendArrives == SndSendTo(Queued(toPanel, snapshot, PanelQueue))
SndSendLost    == SndSendTo(Lost(toPanel))

(* The ECU process dies and is started again: resetAllDevices, task_init   *)
(* and a fresh CanBusHandler; its socket and all its memory are new.       *)
EcuRestart ==
  /\ toEcu' = <<>> /\ waiting' = <<>> /\ handed' = None
  /\ canRx' = 0 /\ brakeOut' = 0 /\ pulse' = 0 /\ task' = "idle"
  /\ snapshot' = None /\ fds' = MaxFds
  /\ UNCHANGED <<panelVars, toPanel>>

-----------------------------------------------------------------------------
Task == TaskCompute \/ TaskWrite \/ TaskSend
PanelSend == PanelSendArrives \/ PanelSendLost
SndSend   == SndSendArrives \/ SndSendLost

CarNext ==
  \/ MoveBrake \/ PanelEncode \/ PanelSend \/ PanelReceive
  \/ EcuReceive \/ EcuDispatch \/ Task \/ SndCopy \/ SndSend
  \/ EcuRestart

(* Threads and timers keep running; the driver and crashes are not         *)
(* obliged to act.  The bus loses datagrams but not for ever: of the       *)
(* endless periodic messages of a sender some are queued.                  *)
CarFairness ==
  /\ WF_carVars(PanelEncode) /\ WF_carVars(PanelSend) /\ SF_carVars(PanelSendArrives)
  /\ WF_carVars(PanelReceive)
  /\ WF_carVars(EcuReceive) /\ WF_carVars(EcuDispatch) /\ WF_carVars(Task)
  /\ WF_carVars(SndCopy) /\ WF_carVars(SndSend) /\ SF_carVars(SndSendArrives)

CarSpec == CarInit /\ [][CarNext]_carVars /\ CarFairness

-----------------------------------------------------------------------------
(* Properties *)

(* The type invariant; it includes that no ramp leaves 0 .. MaxDuty. *)
CarTypeOK ==
  /\ slider \in Brake /\ encoded \in Brake \cup {None}
  /\ toEcu \in Seq(Brake) /\ Len(toEcu) <= EcuQueue
  /\ waiting \in Seq(Brake) /\ handed \in Brake \cup {None} /\ canRx \in Brake
  /\ brakeOut \in Duty /\ pulse \in Duty
  /\ task \in {"idle", "write", "send"}
  /\ snapshot \in Duty \cup {None}
  /\ fds \in 0 .. MaxFds
  /\ toPanel \in Seq(Duty) /\ Len(toPanel) <= PanelQueue
  /\ display \in Duty

(* The light follows the pedal, end to end: if the driver holds the brake  *)
(* for ever the panel ends up showing full intensity for good, and if the  *)
(* driver leaves it alone the light ends up dark for good -- whatever was  *)
(* lost, duplicated or overtaken on the way, however often the ECU was     *)
(* restarted before, and although it runs out of descriptors for its       *)
(* immediate messages.                                                     *)
RestartsEnd == <>[][~EcuRestart]_carVars
LightFollowsBrake ==
  /\ RestartsEnd /\ <>[](slider = 1) => <>[](display = MaxDuty)
  /\ RestartsEnd /\ <>[](slider = 0) => <>[](display = 0)

(* A light that comes on was caused by the pedal: as long as nobody has    *)
(* touched it, nothing on the way -- start-up, restart, duplicated or late *)
(* datagrams -- ever lights it.                                            *)
NoSpontaneousLight == [](slider = 0) => [](display = 0)
=============================================================================
