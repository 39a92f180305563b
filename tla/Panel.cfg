SPECIFICATION Spec
CONSTANTS
  Level = {0, 1}
  SocketQueue = 2
INVARIANT ParserOutlivesUsers
PROPERTIES  ReceivedIsDrawn 
CHECK_DEADLOCK FALSE
