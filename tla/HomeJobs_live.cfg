\* One home, no device: the worker under its fairness.
SPECIFICATION FairSpec
CONSTANTS
    u1 = u1
    Users <- MCUsers
    Homes = {h1}
    Devices = {}
    Owner <- MCOwner
    NoHome = NoHome
    MaxProvisionAttempts = 2
    AttemptCap = 2
PROPERTIES
    DeletionCompletes
    ProvisionSettles
