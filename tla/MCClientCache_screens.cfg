SPECIFICATION Spec
CONSTANTS
  Cases <- MCCases
  MaxChanges = 2
INVARIANTS TypeOK ShownIsCurrent
PROPERTIES EndShowsTheChange ShowsWhatIsKnown EveryChangeEnds ShownInTheEnd
CHECK_DEADLOCK FALSE
