\* One process that maps files of two mounts under -m.
CONSTANTS
    t1 = t1
    t2 = t2
    Threads <- OneThread
    PidOf <- FarPids
    Pages <- TwoPages
    Ranges <- PageRanges
    Devs = {1, 2}
    FilterDev = 1
    Ops <- MappingOps
    Nests <- NoNests
    Fallback = FALSE
    MapMax = 4
    Quiesced = TRUE
    MaxCalls = 5
    MaxMissed = 0
    MaxUnseen = 0
SPECIFICATION Spec
CHECK_DEADLOCK FALSE
INVARIANTS MunmapOnMount
