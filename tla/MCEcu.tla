------------------------------- MODULE MCEcu -------------------------------
EXTENDS Ecu

OtherDelegates == {"logger", "gateway"}
ThreeBytes     == 1 .. 3

(* A dark, a dimmed and a full light.                                      *)
SomeDuties == {0, 127, 255}

CanFrame(id, payload, bus) ==
  [type |-> "can", source |-> "panel", id |-> id, payload |-> payload, bus |-> bus]

(* What the panel sends, the same message in another version of the DBC    *)
(* file, an unknown message, another bus, no payload, and what a receiver  *)
(* of CAN messages has to ignore, up to and beyond the limits.             *)
BusTraffic(frame) ==
  { CanFrame(256, <<frame, frame, frame>>, 0), CanFrame(256, <<frame, frame>>, 0),
    CanFrame(272, Torn, 0), CanFrame(272, <<7>>, 1) }
  \cup { [type |-> "text", source |-> "ecu", string |-> [k \in 1 .. n |-> "x"]] : n \in {5, 40} }
  \cup { [type |-> "pwm", source |-> "ecu", signals |-> s] :
           s \in {<<11>>, <<11, 12>>, <<11, 12, 13>>} }
  \cup { [type |-> "adc", source |-> "spy", signals |-> s] : s \in {<<21, 22>>} }
=============================================================================
