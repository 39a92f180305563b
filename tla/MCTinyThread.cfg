SPECIFICATION Spec
CONSTANTS
  Builds <- EachOnce
  Threads = {t1, t2, t3}
  MaxDepth = 2
  Handles = {h1, h2, h3}
  NoHandle = NoHandle
SYMMETRY Symmetry
INVARIANTS WrapperSafe JoinMeansDone OneInside  NotifiedWakes
CHECK_DEADLOCK FALSE
