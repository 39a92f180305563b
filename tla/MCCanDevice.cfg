SPECIFICATION FairSpec
CONSTANTS
  Rcv = rcv
  App = app
  m1 = m1
  m2 = m2
  big = big
  NoMsg = nomsg
  NumBuffers = 2
  Message <- MCMessage
  Oversized <- MCOversized
INVARIANTS IsrSeesDevice NoLag
PROPERTIES RefinesFifo AcceptedIsHandled
