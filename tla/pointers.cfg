SPECIFICATION Spec
CONSTANTS
  Thread = {"t1", "t2"}
  First = "t1"
  Visited <- BothVisit
  AddressBits = 4
  IntBits = 3
  Size = 2
  PageBytes = 3
  Pages = {2, 3}
  Steps <- FewSteps
INVARIANT TypeOK
INVARIANT CheckedAccessesNeverFault
INVARIANT UpdatesNotLost
INVARIANT PointerArithmetic
CHECK_DEADLOCK FALSE
