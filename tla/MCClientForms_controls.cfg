SPECIFICATION Spec
CONSTANTS
  Kinds <- MCKinds
  MaxCalls = 3
  MaxFillings = 2
  MaxOpenings = 2
  MaxPieces = 2
INVARIANTS TypeOK GuardedMakersMakeOnce 
PROPERTIES LateAnswersSpareTheReader ControlsComeBack
CHECK_DEADLOCK FALSE
