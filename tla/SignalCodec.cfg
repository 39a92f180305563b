SPECIFICATION Spec
CONSTANTS
  Bytes = 6
  Messages <- Checked
  Sent <- Can01
  Generated <- Checked
INVARIANTS DecodersAgree ValuesTravel 
