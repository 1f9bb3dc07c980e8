\* One home with one device: every handler against the worker.
SPECIFICATION Spec
CONSTANTS
    u1 = u1
    Users <- MCUsers
    Homes = {h1}
    Devices = {d1}
    Owner <- MCOwner
    NoHome = NoHome
    MaxProvisionAttempts = 2
    AttemptCap = 2
INVARIANTS
    TypeOK
    NoAccessAfterDeletion
    DeletionTakesDevices
PROPERTIES
    DeletionIsFinal
    LiveDeviceStaysReachable
