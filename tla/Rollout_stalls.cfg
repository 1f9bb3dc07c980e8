\* The first update reported takes the later batches off the schedule.
SPECIFICATION Spec
CONSTANTS
    Devices = {d1, d2}
    NoDevice = NoDevice
    Versions = {v1, v2}
    Uploads = {v2}
    Factory = v1
    NoVersion = NoVersion
    NoCommand = NoCommand
    Percentages = {50}
    Asked = {}
    Removed = {}
    ReadsFail = FALSE
    MaxRollouts = 1
    MailBound = 1
SYMMETRY Symmetry
INVARIANTS
    NextBatchIsScheduled
