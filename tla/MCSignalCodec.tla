--------------------------- MODULE MCSignalCodec ---------------------------
(* The messages that SignalCodec is checked on.                            *)
EXTENDS SignalCodec

Make(start, len, big, signed) == [start |-> start, len |-> len, big |-> big, signed |-> signed]

(* One message for every signal that fits in a payload of three bytes.     *)
LittleLayouts ==
  {Make(a, l, FALSE, sg) : a \in 0..23, l \in 1..24, sg \in BOOLEAN}
BigLayouts ==
  {Make(a, l, TRUE, sg) : a \in 0..23, l \in 1..24, sg \in BOOLEAN}
AllLayouts == {<<s>> : s \in {t \in LittleLayouts \cup BigLayouts : endByte(t) <= 2}}

(* panel/dbc/can01.dbc: driving_controls (gear, acceleration, brake,       *)
(* wheel) and engine (temperature, rpm).                                   *)
Can01 ==
  {<<Make(34, 3, FALSE, FALSE), Make(24, 8, FALSE, FALSE),
     Make(16, 8, FALSE, FALSE), Make(0, 16, FALSE, TRUE)>>,
   <<Make(16, 8, FALSE, TRUE), Make(0, 16, FALSE, FALSE)>>}

Checked == AllLayouts \cup Can01
=============================================================================
