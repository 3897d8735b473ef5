----------------------------- MODULE MCAodSlower ----------------------------
\* Small instances of AodSlower for TLC.
EXTENDS AodSlower, TLC

CONSTANTS k1, k2
TwoKeys == {k1, k2}
KeySymmetry == Permutations(Keys)
=============================================================================
