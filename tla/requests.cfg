\* Each of the three hook pairs: keys that are used again, one map element for
\* them, one request that ends unseen.
CONSTANTS
    Tools = {"nfs", "mid", "trace"}
    k1 = k1
    k2 = k2
    Keys <- TwoKeys
    Commands = {"read", "write", "echo"}
    Denied = {"echo"}
    NfsVersions = {"v3", "v4"}
    Slots = {1}
    MinLat = 1
    MaxRequests = 3
    MaxLost = 1
    MaxTime = 2
SYMMETRY KeySymmetry
SPECIFICATION Spec
CHECK_DEADLOCK FALSE
INVARIANTS TypeOK PairedStart LatencyFromFirst SlowReported DeniedNeverShown NoLeftover CommandOfTheStart
