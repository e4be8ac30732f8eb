CONSTANTS
    audit = audit
    mail = mail
    Events = {1}
    Workers = {w1, w2}
    Groups = {audit}
    Running = {audit}
    Made = {audit}
    MaxLen = 2
    Batch = 1
    ReadSize = 1
    MaxDeliveries = 2
    MaxEntries = 3
    MaxFaults = 2
SPECIFICATION Spec
SYMMETRY WorkerSymmetry
INVARIANTS TypeOK NothingNeededIsTrimmed NothingIsLost PublishedIsOnTheStream
PROPERTIES PendingUntilSettled
