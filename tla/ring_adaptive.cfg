\* wakeup_data_size = 0 everywhere; probe p2 is a snoop tool.  Safety, and progress
\* under fairness, with one consumer restart.
CONSTANTS
    p1 = p1
    p2 = p2
    p3 = p3
    Probes <- TwoProbes
    Snoops <- OneSnoop
    WakeupSize <- AllAdaptive
    RecSize = 56
    RingBytes = 240
    Capacity = 2
    MaxEvents = 5
    MaxRestarts = 1
SPECIFICATION FairSpec
INVARIANTS TypeOK Accounted LossBehindFullBatch OnlyCommittedConsumed WakeupBound
PROPERTIES ImplementsChannel AcceptedIsSettled
