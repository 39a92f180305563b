SPECIFICATION Spec
CONSTANTS
  MaxMsgSize = 34
  Torn = Torn
  Bytes <- ThreeBytes
  Others <- OtherDelegates
  MaxDelegates = 3
  MaxFrames = 2
  Traffic <- BusTraffic
  LightPeriod = 255
  Duties <- SomeDuties
  Main = "main"
  Empty = Empty
INVARIANTS IntensityIsRatio  InputsAreRecent OnlyWhatWasSent DelegatesServed
