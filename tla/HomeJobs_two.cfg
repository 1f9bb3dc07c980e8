\* Two homes of one user, no devices: batches, deletions of both at once.
SPECIFICATION Spec
CONSTANTS
    u1 = u1
    Users <- MCUsers
    Homes = {h1, h2}
    Devices = {}
    Owner <- MCOwner
    NoHome = NoHome
    MaxProvisionAttempts = 2
    AttemptCap = 2
SYMMETRY Symmetry
INVARIANTS
    ReadyMeansAccess
    NoForgottenHome
    OneJobPerHome
PROPERTIES
    DeletionStaysQueued
    KeepsPromise
