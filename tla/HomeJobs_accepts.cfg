\* A device is accepted by a home whose deletion is queued.
SPECIFICATION Spec
CONSTANTS
    u1 = u1
    Users <- MCUsers
    Homes = {h1}
    Devices = {d1}
    Owner <- MCOwner
    NoHome = NoHome
    MaxProvisionAttempts = 2
    AttemptCap = 2
PROPERTIES
    DeletingHomeRejectsDevices
