CONSTANTS
    audit = audit
    mail = mail
    Events = {1, 2, 3}
    Workers = {w1}
    Groups = {audit}
    Running = {audit}
    Made = {audit}
    MaxLen = 2
    Batch = 2
    ReadSize = 1
    MaxDeliveries = 1
    MaxEntries = 5
    MaxFaults = 1
SPECIFICATION FairSpec
INVARIANTS BacklogIsBounded
PROPERTIES EveryEntryIsSettled EveryEventIsPublished
