\* Two threads of one process that map and unmap one page or both, over what is
\* mapped there too, while the programs are attached; one change of the mappings
\* that no hook sees, one missed return.
CONSTANTS
    t1 = t1
    t2 = t2
    Threads <- TwoThreads
    PidOf <- OnePid
    Pages <- TwoPages
    Ranges <- PageRanges
    Devs = {1, 2}
    FilterDev = 1
    Ops <- MappingOps
    Nests <- NoNests
    Fallback = FALSE
    MapMax = 2
    Quiesced = FALSE
    MaxCalls = 3
    MaxMissed = 1
    MaxUnseen = 1
SPECIFICATION Spec
SYMMETRY ThreadSymmetry
CHECK_DEADLOCK FALSE
INVARIANTS VmaDevTrue
