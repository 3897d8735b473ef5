---------------------------- MODULE MCAodRingbuf ----------------------------
\* Small instances of AodRingbuf for TLC.
EXTENDS AodRingbuf, TLC

CONSTANTS p1, p2, p3

TwoProbes   == {p1, p2}
ThreeProbes == {p1, p2, p3}
NoProbes    == {}
OneSnoop    == {p2}
AllAdaptive == [p \in Probes |-> 0]
AllBatched  == [p \in Probes |-> 2 * RecSize]
\* Two tools with -w 112 share the ring with one without.
Mixed       == [p \in Probes |-> IF p = p3 THEN 0 ELSE 2 * RecSize]
BatchedPair == Permutations({p1, p2})
=============================================================================
