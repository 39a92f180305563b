SPECIFICATION Spec
CONSTANTS
  Worker = {w1, w2}
  Job = {j1, j2, j3}
  Nothing = nothing
INVARIANTS JobInOnePlace
 
CHECK_DEADLOCK FALSE
