\* Threads on a stacked filesystem, kretprobe family, programs attached one by
\* one while they run, one missed return, room for one start.
CONSTANTS
    t1 = t1
    t2 = t2
    Threads <- TwoThreads
    PidOf <- FarPids
    Pages <- TwoPages
    Ranges <- OneRange
    Devs = {1, 2}
    FilterDev = 1
    Ops <- NestedOps
    Nests <- OverlayNests
    Fallback = TRUE
    MapMax = 1
    Quiesced = FALSE
    MaxCalls = 3
    MaxMissed = 1
    MaxUnseen = 0
    MinUs = 1
    U32 = 2
    MaxTime = 2
SPECIFICATION Spec
CHECK_DEADLOCK FALSE
INVARIANTS TypeOK PairedEvents SlowExactly NoLeftover
