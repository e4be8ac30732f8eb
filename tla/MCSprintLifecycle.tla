------------------------- MODULE MCSprintLifecycle -------------------------
EXTENDS SprintLifecycle, TLC

CONSTANTS s1, s2, s3, t1, t2

\* Two sprints of one team and, where there is a third, one of another.
TwoStreams == [s \in Sprints |-> IF s = s3 THEN t2 ELSE t1]
Symmetry == Permutations(Sessions) \cup Permutations({s1, s2})
=============================================================================
