\* Two slower tools with -w 112 (two records) and one without -w on one ring.
CONSTANTS
    p1 = p1
    p2 = p2
    p3 = p3
    Probes <- ThreeProbes
    Snoops <- NoProbes
    WakeupSize <- Mixed
    RecSize = 56
    RingBytes = 240
    Capacity = 2
    MaxEvents = 5
    MaxRestarts = 1
SYMMETRY BatchedPair
SPECIFICATION Spec
INVARIANTS OwnThreshold FullRingWakes
PROPERTIES DropsOnlyWhenFull
