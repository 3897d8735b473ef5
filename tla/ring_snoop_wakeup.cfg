\* A snoop tool started with -w 112.
CONSTANTS
    p1 = p1
    p2 = p2
    p3 = p3
    Probes <- TwoProbes
    Snoops <- OneSnoop
    WakeupSize <- AllBatched
    RecSize = 56
    RingBytes = 240
    Capacity = 2
    MaxEvents = 3
    MaxRestarts = 0
SPECIFICATION Spec
PROPERTIES DropsOnlyWhenFull
