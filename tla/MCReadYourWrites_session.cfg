CONSTANTS
    Sessions = {s1}
    Replicas = {r1}
    Requests = {q1, q2}
    Samples = 3
    SeesReceiver = TRUE
    MaxWrites = 2
    MaxFaults = 1
SPECIFICATION FairSpec
INVARIANTS KeptMarksAreHonoured
PROPERTIES PositionsOnlyRise OneReadingDoesNotFlap ReplicasComeBack
