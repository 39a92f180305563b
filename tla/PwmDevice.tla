----------------------------- MODULE PwmDevice -----------------------------
(***************************************************************************)
(* One emulated PWM output (ecu/emu/emu_pwm.cpp) and its wrapper in        *)
(* LightSystem.cpp, on the little-endian hosts the testbed runs on.        *)
(*                                                                         *)
(* The signal's two fields are kept as they lie in memory: 16-bit words    *)
(* in network order, that is byte-swapped.  PwmOut_setDuty compares and    *)
(* clamps its argument against the raw Period field.  Module Ecu drives    *)
(* it.                                                                     *)
(***************************************************************************)
EXTENDS Integers

Word == 0 .. 65535   (* uint16_t *)

VARIABLES
  state,     (* m_State                                                    *)
  period,    (* Signal::Period, raw                                        *)
  width,     (* Signal::PulseWidth, raw                                    *)
  asked,     (* history: argument of the last accepted setDuty, else 0     *)
  sent       (* the signal in the last message this output sent            *)

(* htons and ntohs on a little-endian host. *)
Swap(w) == (w % 256) * 256 + w \div 256

Lower(a, b) == IF a < b THEN a ELSE b

(* CanDevice and PwmDevice are reset before anything else in main.         *)
Init ==
  /\ state = "Undefined" /\ period = 0 /\ width = 0 /\ asked = 0
  /\ sent = [period |-> 0, width |-> 0]

PwmOutInit ==
  /\ state' = "Standby" /\ period' = 0 /\ width' = 0 /\ asked' = 0
  /\ UNCHANGED sent

PwmOutStart ==
  /\ state = "Standby" /\ state' = "Active"
  /\ UNCHANGED <<period, width, asked, sent>>

PwmOutStop ==
  /\ state = "Active" /\ state' = "Standby"
  /\ UNCHANGED <<period, width, asked, sent>>

(* Mutated: a change is announced only when the output goes dark or lights *)
(* up, not when its intensity changes.                                     *)
StoreSignal_OnOff(p, w) ==
  /\ period' = p /\ width' = w
  /\ sent' = IF (w = 0) # (width = 0) THEN [period |-> p, width |-> w] ELSE sent
  /\ UNCHANGED state

(* Signal::setPeriod and setPulseWidth store raw words and tell whether    *)
(* the field changed; only a changed pulse width is sent to the bus.       *)
StoreSignal(p, w) ==
  /\ period' = p /\ width' = w
  /\ sent' = IF w # width THEN [period |-> p, width |-> w] ELSE sent
  /\ UNCHANGED state

SetPeriod(p) ==
  /\ state # "Undefined"
  /\ StoreSignal(Swap(p), Swap(0))
  /\ asked' = 0

(* Mutated: setDuty stores in host order. *)
SetDuty_HostOrder(d) ==
  /\ state # "Undefined"
  /\ StoreSignal(period, Lower(d, period))
  /\ asked' = d

SetDuty(d) ==
  /\ state # "Undefined"
  /\ StoreSignal(period, Swap(Lower(d, period)))
  /\ asked' = d

-----------------------------------------------------------------------------
(* Properties *)

(* The type invariant; an output that was never initialised carries no     *)
(* signal.                                                                 *)
TypeOK ==
  /\ state \in {"Undefined", "Standby", "Active"}
  /\ period \in Word /\ width \in Word /\ asked \in Word
  /\ sent \in [period : Word, width : Word]
  /\ state = "Undefined" => period = 0 /\ width = 0

(* What the two fields mean to a reader that applies ntohs to both.        *)
HostPeriod == Swap(period)
HostWidth  == Swap(width)

(* The panel computes the intensity as the quotient of the raw fields      *)
(* (Signal::getIntensity) without ntohs: it is the quotient of the decoded *)
(* values all the same, and these are the duty that was asked for, limited *)
(* to the period -- although setDuty limits the host-order argument by the *)
(* network-order field.  Every field keeps its type.                       *)
IntensityIsRatio ==
  /\ TypeOK
  /\ HostWidth = Lower(asked, HostPeriod)
  /\ period # 0 => width * HostPeriod = HostWidth * period

(* A lit output has been announced exactly as it is: the last message this *)
(* output sent carries its period and its pulse width (init and a change   *)
(* of the period alone are silent, but they leave the output dark).        *)
LitMeansAnnounced == width # 0 => sent = [period |-> period, width |-> width]
=============================================================================
