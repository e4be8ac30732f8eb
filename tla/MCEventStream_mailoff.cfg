CONSTANTS
    audit = audit
    mail = mail
    Events = {1, 2, 3}
    Workers = {w1}
    Groups = {audit, mail}
    Running = {audit}
    Made = {audit, mail}
    MaxLen = 2
    Batch = 1
    ReadSize = 1
    MaxDeliveries = 1
    MaxEntries = 3
    MaxFaults = 0
SPECIFICATION FairSpec
PROPERTIES EveryEventIsPublished
