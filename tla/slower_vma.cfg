\* A thread that maps and unmaps one page or both under -p among other calls, with
\* room for one mapping; one change of the mappings that no hook sees, one missed
\* return, after which do_mmap may file the device of another call.
CONSTANTS
    t1 = t1
    t2 = t2
    Threads <- OneThread
    PidOf <- FarPids
    Pages <- TwoPages
    Ranges <- PageRanges
    Devs = {1, 2}
    FilterDev = 1
    Ops <- MappingOps
    Nests <- NoNests
    Fallback = FALSE
    MapMax = 1
    Quiesced = TRUE
    MaxCalls = 4
    MaxMissed = 1
    MaxUnseen = 1
    MinUs = 0
    U32 = 16
    MaxTime = 0
SPECIFICATION Spec
CHECK_DEADLOCK FALSE
INVARIANTS MunmapOnMount
