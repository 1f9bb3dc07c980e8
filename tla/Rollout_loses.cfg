\* A command is cleared because the device runs the product's version.
SPECIFICATION Spec
CONSTANTS
    Devices = {d1}
    NoDevice = NoDevice
    Versions = {v1, v2}
    Uploads = {v1, v2}
    Factory = v1
    NoVersion = NoVersion
    NoCommand = NoCommand
    Percentages = {100}
    Asked = {}
    Removed = {}
    ReadsFail = FALSE
    MaxRollouts = 1
    MailBound = 1
INVARIANTS
    CommandNotLost
