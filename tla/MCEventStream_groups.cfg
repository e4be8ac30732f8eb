CONSTANTS
    audit = audit
    mail = mail
    Events = {1, 2}
    Workers = {w1}
    Groups = {audit, mail}
    Running = {audit, mail}
    Made = {}
    MaxLen = 2
    Batch = 1
    ReadSize = 2
    MaxDeliveries = 1
    MaxEntries = 3
    MaxFaults = 1
SPECIFICATION Spec
SYMMETRY GroupSymmetry
PROPERTIES DeliversAtLeastOnce
