---------------------------- MODULE MCCanDevice ----------------------------
(* A two-slot device with two ordinary messages and one whose Dlc is too    *)
(* large: two slots are enough for the Tx ring to fill and for the Rx ring  *)
(* to wrap around.                                                         *)
EXTENDS CanDevice

CONSTANTS m1, m2, big

MCMessage   == {m1, m2, big}
MCOversized == {big}
=============================================================================
