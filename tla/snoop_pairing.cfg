\* One thread on a stacked filesystem, kretprobe family, programs attached one
\* by one while it runs, one missed return.
CONSTANTS
    t1 = t1
    t2 = t2
    Threads <- OneThread
    PidOf <- FarPids
    Pages <- TwoPages
    Ranges <- OneRange
    Devs = {1, 2}
    FilterDev = 1
    Ops <- MixedOps
    Nests <- OverlayNests
    Fallback = TRUE
    MapMax = 2
    Quiesced = FALSE
    MaxCalls = 3
    MaxMissed = 1
    MaxUnseen = 0
SPECIFICATION Spec
CHECK_DEADLOCK FALSE
INVARIANTS TypeOK PairedEvents EventsOnMount NoLeftover EveryCallReported
