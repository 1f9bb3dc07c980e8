\* One device, a rollout that cancels another, queries that fail.
SPECIFICATION Spec
CONSTANTS
    Devices = {d1}
    NoDevice = NoDevice
    Versions = {v1, v2}
    Uploads = {v2}
    Factory = v1
    NoVersion = NoVersion
    NoCommand = NoCommand
    Percentages = {100}
    Asked = {}
    Removed = {}
    ReadsFail = TRUE
    MaxRollouts = 2
    MailBound = 1
INVARIANTS
    TypeOK
    UpdatedWasRun
PROPERTIES
    KeepsCampaign
