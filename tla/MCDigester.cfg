CONSTANTS
    Clients = {c1, c2}
    Keys = {k1, k2}
    Objects = {d1, d2}
    Seeds = {0, 7}
    HipMayFail = TRUE
    Nil = Nil
    HashLevelError = HashLevelError

SPECIFICATION Spec
INVARIANT DigestsMatchKey
