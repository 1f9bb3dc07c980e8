\* One device whose owner asks for the update, then deletes it.
SPECIFICATION Spec
CONSTANTS
    Devices = {d1}
    NoDevice = NoDevice
    Versions = {v1, v2}
    Uploads = {v2}
    Factory = v1
    NoVersion = NoVersion
    NoCommand = NoCommand
    Percentages = {100}
    Asked = {d1}
    Removed = {d1}
    ReadsFail = TRUE
    MaxRollouts = 1
    MailBound = 1
INVARIANTS
    SentWasCommanded
