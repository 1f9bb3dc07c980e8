SPECIFICATION Spec
CONSTANTS
    Users = {u1, u2}
    NoUser = NoUser
    Registered = {u1}
    Admins = {u1}
    Googles = {g1}
    NoGoogle = NoGoogle
    Sessions = {s1, s2}
    NoSession = NoSession
    Codes = {c1}
    Pairs = {p1, p2, p3}
    NoToken = NoToken
    States = {x1, x2}
    NoState = NoState
    Requests = {r1, r2}
    Mixes <- LinkingOnly
SYMMETRY Symmetry
CHECK_DEADLOCK FALSE
PROPERTY
    DeletionIsKept
