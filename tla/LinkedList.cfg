SPECIFICATION Spec
CONSTANTS
  Node = {n1, n2, n3, n4}
  List = {l1, l2}
  None = none
INVARIANTS WellFormed EachIsCalled
PROPERTY RefinesSequence
CHECK_DEADLOCK FALSE
