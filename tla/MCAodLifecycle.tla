--------------------------- MODULE MCAodLifecycle ---------------------------
\* Small instance of AodLifecycle for TLC. Every line printed is in the history, so
\* the bounds on records, rings and consumers make it finite.
EXTENDS AodLifecycle, TLC

CONSTANTS l1, l2
TwoLoaders == {l1, l2}
=============================================================================
