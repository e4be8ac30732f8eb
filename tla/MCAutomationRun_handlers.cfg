CONSTANTS
    Rules = {r1}
    Events = {e1, e2, e3, e4}
    Handlers = {h1, h2}
    OwnEvents = {}
    HourlyCap = 1
    MaxFaults = 1
SPECIFICATION Spec
CHECK_DEADLOCK FALSE
SYMMETRY Symmetry
INVARIANTS ActsAtMostOnce OutcomesAreTrue CapIsKept LogIsNotFlooded AbandonedRunsAreFaults
