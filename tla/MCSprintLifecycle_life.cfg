CONSTANTS
    s1 = s1
    s2 = s2
    s3 = s3
    t1 = t1
    t2 = t2
    Sprints = {s1, s2, s3}
    Issues = {i1}
    Teams = {t1, t2}
    Stream <- TwoStreams
    Sessions = {p1, p2}
    Nil = Nil
SPECIFICATION Spec
SYMMETRY Symmetry
INVARIANTS TypeOK CarriedWorkLandsAhead SprintsHoldTheirTeamsWork LastWordIsCompletions
PROPERTIES ReportsAreFinal
